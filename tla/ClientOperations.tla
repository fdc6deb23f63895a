---------------------------- MODULE ClientOperations ----------------------------
(***************************************************************************)
(* The desktop client's connection transactions (cmd/client): Connect, AUTO *)
(* and the delayed startup connection, Disconnect and Emergency Stop,       *)
(* settings, the monitor of a running tunnel, the recorder of the last good *)
(* runtime, and the shutdown of the controller.  They meet at operationMu,  *)
(* at the cancellable context of the current connection and at a.state.     *)
(*                                                                          *)
(* A step runs from one look at the context or at a lock to the next.       *)
(* Contexts and child processes are the number of their transaction.        *)
(* Profiles, modes and proofs are left out; that a step fails is a choice.  *)
(***************************************************************************)
EXTENDS Integers, Sequences

CONSTANTS
    MaxOps,     \* bound: connection transactions
    MaxFaults,  \* bound: commands that fail, paths that are not proved
    Actors      \* the optional actors: "settings", "monitor", "recorder", "startup", "shutdown"

ASSUME ClientAssumption ==
    /\ MaxOps \in Nat /\ MaxFaults \in Nat
    /\ Actors \subseteq {"settings", "monitor", "recorder", "startup", "shutdown"}

VARIABLES
    opmu,       \* operationMu: "free" or its holder
    app,        \* connectionContext, cmd and the fields of a.state the guards read
    sys,        \* the host: running child, what the StopCommand removes, the kill switch
    op,         \* the transaction that holds operationMu: where it is, its attempts
    ops,        \* transactions so far
    cancelled,  \* contexts that are cancelled
    sched,      \* the startup goroutine, and the context of its schedule
    disc,       \* Disconnect or Emergency Stop: where it is, the context it cancels
    closing, drain, \* the controller's latch, and the drain
    mon, rec,   \* the tunnel's monitor, and the sample of the recorder
    last,       \* the persisted last good runtime
    answered,   \* history: a Disconnect was answered with ok
    faults

vars == <<opmu, app, sys, op, ops, cancelled, sched, disc, closing, drain, mon, rec, last,
          answered, faults>>

Fault   == faults > 0 /\ faults' = faults - 1
NoFault == UNCHANGED faults

(* What a transaction tries, in order: a plain attempt releases the kill switch
   when it fails, a held one keeps it for the next candidate. *)
Plan(kind) == CASE kind = "connect" -> <<"plain">>
                [] kind = "auto"    -> <<"held", "held">>
                [] kind = "startup" -> <<"plain", "held">>

Busy == app.connected = "yes" \/ app.phase \notin {"off", "failed"}
Cancelled == op.ctx \in cancelled \/ closing = "yes"
Held == Head(op.plan) = "held"

-----------------------------------------------------------------------------
(* stopModeWithIntent: the child is joined, the mode's own stop command undoes
   the rest, and unless it is to be held the kill switch is released. *)
StopOK(hold) ==
    /\ NoFault
    /\ app' = [app EXCEPT !.cmd = 0, !.mode = "off", !.connected = "no", !.phase = "off"]
    /\ sys' = [child |-> 0, left |-> "none", ks |-> IF hold THEN sys.ks ELSE "off"]

(* Mutant: the identity is given up when the child is gone. *)
MutStopFails(hold) ==
    /\ Fault
    /\ \/ UNCHANGED <<app, sys>>
       \/ /\ app.mode = "on" /\ sys' = [sys EXCEPT !.child = 0]
          /\ app' = [app EXCEPT !.cmd = 0, !.mode = "off", !.connected = "no", !.phase = "failed"]

(* It fails before anything is touched, in the native part of the stop, in the
   stop command or in the release of the kill switch; the runtime's identity is
   retained for a retry (failStopTransaction). *)
StopFails(hold) ==
    /\ Fault
    /\ \/ UNCHANGED <<app, sys>>
       \/ /\ app.cmd # 0 /\ app' = [app EXCEPT !.connected = "no", !.phase = "failed"] /\ UNCHANGED sys
       \/ /\ app.mode = "on" /\ app' = [app EXCEPT !.cmd = 0, !.connected = "no", !.phase = "failed"]
          /\ sys' = [sys EXCEPT !.child = 0]
       \/ /\ ~hold /\ app' = [app EXCEPT !.cmd = 0, !.connected = "no", !.phase = "failed"]
          /\ sys' = [sys EXCEPT !.child = 0, !.left = "none"]

(* releaseTransitionKillSwitch, its error ignored by the caller. *)
ReleaseIgnored ==
    \/ NoFault /\ sys' = [sys EXCEPT !.ks = "off"]
    \/ Fault /\ UNCHANGED sys

Stop(hold) == StopOK(hold) \/ StopFails(hold)

-----------------------------------------------------------------------------
Goto(pc) == op' = [op EXCEPT !.pc = pc]
Others   == UNCHANGED <<opmu, ops, cancelled, sched, disc, closing, drain, mon, rec, last, answered>>

(* cancelPendingStartupPolicy, where Connect, Disconnect and shutdown begin. *)
SchedCancelled == [sched EXCEPT !.ctx = "cancelled"]

(* beginConnectionOperation up to TryLock.  An explicit Connect supersedes the
   delayed startup even if it gets no further. *)
Connect(kind) ==
    /\ closing = "no" /\ ops < MaxOps
    /\ sched' = SchedCancelled
    /\ IF opmu = "free" THEN opmu' = "op" /\ op' = [kind |-> kind, pc |-> "guard", plan |-> Plan(kind), ctx |-> 0]
                        ELSE UNCHANGED <<opmu, op>>
    /\ UNCHANGED <<app, sys, ops, cancelled, disc, closing, drain, mon, rec, last, answered, faults>>

(* The rest of beginConnectionTransaction: refuse, or publish the context. *)
Begin ==
    /\ op.pc = "guard"
    /\ IF closing = "yes" \/ Busy
       THEN /\ opmu' = "free" /\ op' = [op EXCEPT !.pc = "idle"]
            /\ sched' = [sched EXCEPT !.pc = IF op.kind = "startup" THEN "done" ELSE @]
            /\ UNCHANGED <<app, ops>>
       ELSE /\ ops' = ops + 1 /\ app' = [app EXCEPT !.conn = ops + 1, !.phase = "requested"]
            /\ op' = [op EXCEPT !.pc = IF op.kind = "startup" THEN "hook" ELSE "try", !.ctx = ops + 1]
            /\ UNCHANGED <<opmu, sched>>
    /\ UNCHANGED <<sys, cancelled, disc, closing, drain, mon, rec, last, answered, faults>>

(* The startup goroutine: the timer and the schedule's context, then the shared
   transaction. *)
StartupFires ==
    /\ sched.pc = "timer"
    /\ sched' = [sched EXCEPT !.pc = IF sched.ctx = "live" THEN "fired" ELSE "done"]
    /\ UNCHANGED <<opmu, app, sys, op, ops, cancelled, disc, closing, drain, mon, rec, last, answered, faults>>

StartupLocks ==
    /\ sched.pc = "fired"
    /\ IF opmu = "free" /\ ops < MaxOps
       THEN /\ opmu' = "op" /\ op' = [kind |-> "startup", pc |-> "guard", plan |-> Plan("startup"), ctx |-> 0]
            /\ sched' = [sched EXCEPT !.pc = "running"]
       ELSE sched' = [sched EXCEPT !.pc = "done"] /\ UNCHANGED <<opmu, op>>
    /\ UNCHANGED <<app, sys, ops, cancelled, disc, closing, drain, mon, rec, last, answered, faults>>

(* Mutant: the schedule is not looked at again once the transaction is ours. *)
MutStartupHooks ==
    /\ op.pc = "hook" /\ Goto("try")
    /\ UNCHANGED <<app, sys, faults>> /\ Others

(* AfterFunc ties the transaction to the schedule, which is then checked again. *)
StartupHooks ==
    /\ op.pc = "hook"
    /\ Goto(IF sched.ctx = "cancelled" THEN "finish" ELSE "try")
    /\ UNCHANGED <<app, sys, faults>> /\ Others

(* The AfterFunc goroutine itself. *)
HookRuns ==
    /\ op.kind = "startup" /\ op.pc \notin {"idle", "guard"}
    /\ sched.ctx = "cancelled" /\ op.ctx \notin cancelled
    /\ cancelled' = cancelled \cup {op.ctx}
    /\ UNCHANGED <<opmu, app, sys, op, ops, sched, disc, closing, drain, mon, rec, last, answered, faults>>

-----------------------------------------------------------------------------
(* startModeAttempt: stop what is there, holding the kill switch. *)
Try ==
    /\ op.pc = "try"
    /\ \/ Cancelled /\ Goto("cancelled") /\ UNCHANGED <<app, sys, faults>>
       \/ ~Cancelled /\ StopOK(TRUE) /\ Goto("launch")
       \/ ~Cancelled /\ StopFails(TRUE) /\ Goto("failed")
    /\ Others

(* The mode's command is started; it may engage the kill switch. *)
Launch ==
    /\ op.pc = "launch"
    /\ \/ /\ Cancelled /\ Goto("cancelled") /\ UNCHANGED app
          /\ IF Held THEN UNCHANGED <<sys, faults>> ELSE ReleaseIgnored
       \/ /\ ~Cancelled /\ NoFault /\ Goto("publish") /\ UNCHANGED app
          /\ sys' = [child |-> op.ctx, left |-> "up", ks |-> "on"]
       \/ /\ ~Cancelled /\ faults > 0 /\ Goto("failed") /\ UNCHANGED app   \* no child
          /\ IF Held THEN faults' = faults - 1 /\ UNCHANGED sys
             ELSE \/ faults' = faults - 1 /\ sys' = [sys EXCEPT !.ks = "off"]
                  \/ faults > 1 /\ faults' = faults - 2 /\ UNCHANGED sys
    /\ Others

(* publishStartedDesktopNode: a child that started just before its own
   cancellation is adopted, to be stopped properly. *)
Publish ==
    /\ op.pc = "publish" /\ UNCHANGED <<sys, faults>>
    /\ app' = [app EXCEPT !.cmd = op.ctx, !.mode = "on", !.connected = "no",
                          !.phase = IF Cancelled THEN "stopping" ELSE "starting"]
    /\ Goto(IF Cancelled THEN "undo" ELSE "wait") /\ Others

(* stopAttempt, for an attempt that was cancelled. *)
Undo ==
    /\ op.pc = "undo" /\ Goto("cancelled") /\ Others
    /\ IF app.cmd = op.ctx THEN Stop(Held) ELSE UNCHANGED <<app, sys, faults>>

(* The delay after the start, and the proof of the path. *)
Wait ==
    /\ op.pc = "wait" /\ UNCHANGED <<sys, faults>> /\ Others
    /\ IF Cancelled THEN Goto("undo") /\ UNCHANGED app
       ELSE Goto("probe") /\ app' = [app EXCEPT !.phase = "checking"]

Probe ==
    /\ op.pc = "probe" /\ UNCHANGED <<app, sys>> /\ Others
    /\ \/ NoFault /\ Goto("adopt")
       \/ Fault /\ Goto(IF Cancelled THEN "undo" ELSE "unproved")

Unproved ==
    /\ op.pc = "unproved" /\ Goto("failed") /\ Others
    /\ \/ StopFails(Held)
       \/ NoFault /\ sys' = [child |-> 0, left |-> "none", ks |-> IF Held THEN sys.ks ELSE "off"]
          /\ app' = [app EXCEPT !.cmd = 0, !.mode = "off", !.connected = "no", !.phase = "failed"]

(* Mutant: the proof is adopted as it was before the last look. *)
MutAdopt ==
    /\ op.pc = "adopt" /\ UNCHANGED <<sys, faults>> /\ Others
    /\ app' = [app EXCEPT !.connected = "yes", !.phase = "connected"] /\ Goto("won")

(* Connected is published only under a.mu, with a context that is still good. *)
Adopt ==
    /\ op.pc = "adopt" /\ UNCHANGED <<sys, faults>> /\ Others
    /\ IF Cancelled THEN Goto("undo") /\ UNCHANGED app
       ELSE Goto("won") /\ app' = [app EXCEPT !.connected = "yes", !.phase = "connected"]

(* setStrategyWinner, and the end of a restored startup: looked at once more. *)
Won ==
    /\ op.pc = "won" /\ Others
    /\ IF Cancelled /\ op.kind # "connect"
       THEN Goto(IF Held THEN "cancelled" ELSE "finish") /\ Stop(FALSE)
       ELSE Goto("finish") /\ UNCHANGED <<app, sys, faults>>

(* finalizeCancelledFallback, for a strategy: release what was held. *)
CancelledEnd ==
    /\ op.pc = "cancelled" /\ Goto("finish") /\ Others
    /\ IF ~Held THEN UNCHANGED <<app, sys, faults>>
       ELSE \/ NoFault /\ sys' = [sys EXCEPT !.ks = "off"]
               /\ app' = [app EXCEPT !.connected = "no", !.phase = "off"]
            \/ Fault /\ UNCHANGED sys /\ app' = [app EXCEPT !.connected = "no", !.phase = "failed"]

(* The next candidate, or failStrategy. *)
FailedEnd ==
    /\ op.pc = "failed" /\ Others
    /\ \/ /\ Len(op.plan) > 1 /\ ~Cancelled /\ UNCHANGED <<sys, faults>>
          /\ op' = [op EXCEPT !.plan = Tail(@), !.pc = "try"]
          /\ app' = [app EXCEPT !.phase = "trying"]
       \/ Cancelled /\ Goto("cancelled") /\ UNCHANGED <<app, sys, faults>>
       \/ /\ Len(op.plan) = 1 /\ ~Cancelled /\ Goto("finish")
          /\ IF Held THEN ReleaseIgnored /\ app' = [app EXCEPT !.connected = "no", !.phase = "failed"]
             ELSE UNCHANGED <<app, sys, faults>>

(* finish: the deferred end of the transaction. *)
Finish ==
    /\ op.pc = "finish"
    /\ opmu' = "free" /\ op' = [op EXCEPT !.pc = "idle"]
    /\ app' = [app EXCEPT !.conn = 0,
                          !.phase = IF app.connected = "no" /\ @ = "requested" THEN "off" ELSE @]
    /\ cancelled' = cancelled \cup {op.ctx}
    /\ sched' = [sched EXCEPT !.pc = IF op.kind = "startup" THEN "done" ELSE @]
    /\ UNCHANGED <<sys, ops, disc, closing, drain, mon, rec, last, answered, faults>>

OpStep == Begin \/ StartupHooks \/ Try \/ Launch \/ Publish \/ Undo \/ Wait \/ Probe \/ Unproved
          \/ Adopt \/ Won \/ CancelledEnd \/ FailedEnd \/ Finish

-----------------------------------------------------------------------------
(* Disconnect and Emergency Stop: cancelConnectionOperation takes the startup
   schedule and, under a.mu, the cancel function of the current context, which
   it calls after it; then they wait for the transaction and stop. *)
Disconnect ==
    /\ closing = "no" /\ disc.pc = "idle"
    /\ sched' = SchedCancelled
    /\ disc' = [pc |-> "cancel", ctx |-> app.conn]
    /\ UNCHANGED <<opmu, app, sys, op, ops, cancelled, closing, drain, mon, rec, last, answered, faults>>

DisconnectCancels ==
    /\ disc.pc = "cancel" /\ cancelled' = cancelled \cup ({disc.ctx} \ {0})
    /\ disc' = [disc EXCEPT !.pc = "lock"]
    /\ UNCHANGED <<opmu, app, sys, op, ops, sched, closing, drain, mon, rec, last, answered, faults>>

DisconnectLocks ==
    /\ disc.pc = "lock" /\ opmu = "free" /\ opmu' = "disc"
    /\ disc' = [disc EXCEPT !.pc = "stop"]
    /\ UNCHANGED <<app, sys, op, ops, cancelled, sched, closing, drain, mon, rec, last, answered, faults>>

DisconnectStops ==
    /\ disc.pc = "stop" /\ opmu' = "free"
    /\ disc' = [pc |-> "idle", ctx |-> 0]
    /\ \/ StopOK(FALSE) /\ answered' = "yes"
       \/ StopFails(FALSE) /\ UNCHANGED answered
    /\ UNCHANGED <<op, ops, cancelled, sched, closing, drain, mon, rec, last>>

-----------------------------------------------------------------------------
(* begin: the latch is published before anything is cancelled. *)
Shutdown ==
    /\ closing = "no" /\ closing' = "yes" /\ drain' = [pc |-> "cancel", ctx |-> 0]
    /\ UNCHANGED <<opmu, app, sys, op, ops, cancelled, sched, disc, mon, rec, last, answered, faults>>

(* drainControllerOwner, in a loop until it succeeds. *)
DrainReads ==
    /\ drain.pc = "cancel" /\ sched' = SchedCancelled /\ drain' = [pc |-> "call", ctx |-> app.conn]
    /\ UNCHANGED <<opmu, app, sys, op, ops, cancelled, disc, closing, mon, rec, last, answered, faults>>

DrainCancels ==
    /\ drain.pc = "call" /\ cancelled' = cancelled \cup ({drain.ctx} \ {0})
    /\ drain' = [drain EXCEPT !.pc = "lock"]
    /\ UNCHANGED <<opmu, app, sys, op, ops, sched, disc, closing, mon, rec, last, answered, faults>>

DrainLocks ==
    /\ drain.pc = "lock" /\ opmu = "free" /\ opmu' = "drain"
    /\ drain' = [drain EXCEPT !.pc = "stop"]
    /\ UNCHANGED <<app, sys, op, ops, cancelled, sched, disc, closing, mon, rec, last, answered, faults>>

NeedsStop == app.cmd # 0 \/ app.connected = "yes" \/ app.mode # "off" \/ app.phase # "off"

(* Mutant: a drain that failed is not tried again. *)
MutDrainStops ==
    /\ drain.pc = "stop" /\ opmu' = "free"
    /\ \/ ~NeedsStop /\ drain' = [drain EXCEPT !.pc = "done"] /\ UNCHANGED <<app, sys, faults>>
       \/ NeedsStop /\ StopOK(FALSE) /\ drain' = [drain EXCEPT !.pc = "done"]
       \/ NeedsStop /\ StopFails(FALSE) /\ drain' = [drain EXCEPT !.pc = "idle"]
    /\ UNCHANGED <<op, ops, cancelled, sched, disc, closing, mon, rec, last, answered>>

DrainStops ==
    /\ drain.pc = "stop" /\ opmu' = "free"
    /\ \/ ~NeedsStop /\ drain' = [drain EXCEPT !.pc = "done"] /\ UNCHANGED <<app, sys, faults>>
       \/ NeedsStop /\ StopOK(FALSE) /\ drain' = [drain EXCEPT !.pc = "done"]
       \/ NeedsStop /\ StopFails(FALSE) /\ drain' = [drain EXCEPT !.pc = "cancel"]
    /\ UNCHANGED <<op, ops, cancelled, sched, disc, closing, mon, rec, last, answered>>

-----------------------------------------------------------------------------
(* beginMutationOperation, and the release. *)
SettingsBegin ==
    /\ closing = "no" /\ opmu = "free" /\ ~Busy /\ opmu' = "settings"
    /\ UNCHANGED <<app, sys, op, ops, cancelled, sched, disc, closing, drain, mon, rec, last, answered, faults>>

SettingsEnd ==
    /\ opmu = "settings" /\ opmu' = "free"
    /\ UNCHANGED <<app, sys, op, ops, cancelled, sched, disc, closing, drain, mon, rec, last, answered, faults>>

(* The monitor of a connected runtime starts, and sees its proof fail. *)
MonitorStarts ==
    /\ mon.pc = "off" /\ app.connected = "yes" /\ app.cmd # 0 /\ Fault
    /\ mon' = [pc |-> "claim", cmd |-> app.cmd]
    /\ UNCHANGED <<opmu, app, sys, op, ops, cancelled, sched, disc, closing, drain, rec, last, answered>>

(* claimRuntimeMonitorOperation: only while this exact child is current; a lock
   that is taken is tried again. *)
MonitorClaims ==
    /\ mon.pc = "claim"
    /\ IF app.cmd # mon.cmd THEN mon' = [pc |-> "off", cmd |-> 0] /\ UNCHANGED opmu
       ELSE opmu = "free" /\ opmu' = "mon" /\ mon' = [mon EXCEPT !.pc = "stop"]
    /\ UNCHANGED <<app, sys, op, ops, cancelled, sched, disc, closing, drain, rec, last, answered, faults>>

(* It stops its runtime and holds the kill switch, then labels the state. *)
MonitorStops ==
    /\ mon.pc = "stop" /\ mon' = [mon EXCEPT !.pc = "label"] /\ Stop(TRUE)
    /\ UNCHANGED <<opmu, op, ops, cancelled, sched, disc, closing, drain, rec, last, answered>>

MonitorLabels ==
    /\ mon.pc = "label" /\ mon' = [pc |-> "off", cmd |-> 0] /\ opmu' = "free"
    /\ app' = [app EXCEPT !.connected = "no", !.phase = "failed"]
    /\ UNCHANGED <<sys, op, ops, cancelled, sched, disc, closing, drain, rec, last, answered, faults>>

-----------------------------------------------------------------------------
(* recordLastSuccessfulRuntime: sample under a.mu, then everything is compared
   again under operationMu before it is saved. *)
RecordSample ==
    /\ closing = "no" /\ rec = 0 /\ app.connected = "yes" /\ app.phase = "connected" /\ last # app.cmd
    /\ rec' = app.cmd
    /\ UNCHANGED <<opmu, app, sys, op, ops, cancelled, sched, disc, closing, drain, mon, last, answered, faults>>

RecordSave ==
    /\ rec # 0 /\ opmu = "free" /\ rec' = 0
    /\ last' = IF app.connected = "yes" /\ app.phase = "connected" /\ app.cmd = rec THEN rec ELSE last
    /\ UNCHANGED <<opmu, app, sys, op, ops, cancelled, sched, disc, closing, drain, mon, answered, faults>>

-----------------------------------------------------------------------------
Init ==
    /\ opmu = "free" /\ app = [conn |-> 0, cmd |-> 0, mode |-> "off", connected |-> "no", phase |-> "off"]
    /\ sys = [child |-> 0, left |-> "none", ks |-> "off"]
    /\ op = [kind |-> "connect", pc |-> "idle", plan |-> <<"plain">>, ctx |-> 0]
    /\ ops = 0 /\ cancelled = {}
    /\ sched = [pc |-> IF "startup" \in Actors THEN "timer" ELSE "done", ctx |-> "live"]
    /\ disc = [pc |-> "idle", ctx |-> 0] /\ closing = "no" /\ drain = disc
    /\ mon = [pc |-> "off", cmd |-> 0] /\ rec = 0 /\ last = 0 /\ answered = "no" /\ faults = MaxFaults

Cancels == DisconnectCancels \/ DrainReads \/ DrainCancels \/ HookRuns
Locks   == DisconnectLocks \/ DrainLocks
Returns == DisconnectStops \/ DrainStops \/ SettingsEnd \/ MonitorStops \/ MonitorLabels

Next ==
    \/ \E kind \in {"connect", "auto"} : Connect(kind)
    \/ OpStep \/ StartupFires \/ StartupLocks \/ Cancels \/ Locks \/ Returns
    \/ Disconnect
    \/ "shutdown" \in Actors /\ Shutdown
    \/ "settings" \in Actors /\ SettingsBegin
    \/ "monitor" \in Actors /\ (MonitorStarts \/ MonitorClaims)
    \/ "recorder" \in Actors /\ (RecordSample \/ RecordSave)

Spec == Init /\ [][Next]_vars

(* The steps of a transaction end, and so do those of whoever holds the lock: most
   have a time limit, but that a mode's StopCommand exits, and that a child is gone
   once it was killed, is an assumption about the environment, since the code waits
   for both without a limit.  A sync.Mutex is handed to a waiter in the end, before
   any TryLock. *)
FairSpec ==
    /\ Spec
    /\ WF_vars(OpStep) /\ WF_vars(Returns) /\ WF_vars(Cancels)
    /\ SF_vars(DisconnectLocks) /\ SF_vars(DrainLocks)

-----------------------------------------------------------------------------
(* The lock is held by exactly the transaction that is under way, and the
   connection context is that transaction's: none is left behind. *)
TypeOK ==
    /\ opmu \in {"free", "op", "disc", "drain", "mon", "settings"} /\ ops \in 0 .. MaxOps
    /\ app \in [conn : 0 .. MaxOps, cmd : 0 .. MaxOps, mode : {"off", "on"}, connected : {"no", "yes"},
                 phase : {"off", "requested", "trying", "starting", "checking", "connected", "stopping", "failed"}]
    /\ sys \in [child : 0 .. MaxOps, left : {"none", "up"}, ks : {"off", "on"}]
    /\ cancelled \subseteq 1 .. MaxOps /\ last \in 0 .. MaxOps /\ rec \in 0 .. MaxOps
    /\ sched \in [pc : {"timer", "fired", "running", "done"}, ctx : {"live", "cancelled"}]
    /\ op.pc \in {"idle", "guard", "hook", "try", "launch", "publish", "undo", "wait", "probe", "unproved",
                   "adopt", "won", "cancelled", "failed", "finish"}
    /\ disc \in [pc : {"idle", "cancel", "lock", "stop"}, ctx : 0 .. MaxOps]
    /\ drain \in [pc : {"idle", "cancel", "call", "lock", "stop", "done"}, ctx : 0 .. MaxOps]
    /\ (opmu = "op") = (op.pc # "idle")
    /\ app.conn = (IF op.pc \in {"idle", "guard"} THEN 0 ELSE op.ctx)

(* Whatever a connection has left on the host, a later Disconnect, Connect or
   shutdown knows about: a stop that failed half way is never forgotten (the
   comment in stopModeWithIntent, main.go). *)
NothingIsForgotten ==
    sys.child # 0 \/ sys.left = "up" => app.mode = "on" \/ op.pc = "publish"

(* A phase in which the guards refuse everything is never left behind by a
   transaction that has ended, unless there is a runtime to disconnect. *)
NotStuck == opmu = "free" /\ app.connected = "no" /\ Busy => app.mode = "on"

(* After the drain nothing runs and nothing is left, and no transaction that was
   under way when the latch was set brings anything back. *)
DrainedIsGone == drain.pc = "done" => sys.child = 0 /\ sys.left = "none" /\ op.pc \in {"idle", "guard"}

(* Once the controller closes, no connection is published any more. *)
ClosingNeverConnects ==
    [][closing = "yes" /\ app.connected = "no" => app'.connected = "no"]_vars

(* Disconnect also means not to connect a moment later: once it was answered, the
   startup that was pending connects nothing (the comment in
   cancelConnectionOperation). *)
DisconnectStopsStartup ==
    [][answered = "yes" /\ op.kind = "startup" /\ app.connected = "no" => app'.connected = "no"]_vars

(* A monitor holds the lock for its own runtime only, never for a replacement. *)
MonitorOwnsWhatItStops == mon.pc = "stop" => app.cmd = mon.cmd

(* What is saved as the last good runtime is up at that moment, however old the
   sample it was taken from. *)
LastGoodWasUp ==
    [][last' # last => app.connected = "yes" /\ app.cmd = last' /\ sys.child = last']_vars

(* A shutdown ends with an empty host, for good: everybody the drain waits for
   ends, what fails is tried again, and no transaction that was under way brings
   anything back. *)
ShutdownDrains ==
    closing = "yes" ~> [](drain.pc = "done" /\ sys.child = 0 /\ sys.left = "none")

-----------------------------------------------------------------------------
(* Settings change only in a state that is fully idle (the refusal in
   beginMutationOperation, operation_guard.go:73). *)
SettingsOnlyWhenIdle == opmu = "settings" => sys.child = 0 /\ sys.left = "none"

(* With no owned connection there is nothing to reconfigure when the process
   exits (the comment in drainControllerOwner, controller_shutdown.go:154). *)
NothingToReconfigure == drain.pc = "done" => sys.ks = "off"
=============================================================================
