------------------------- MODULE ClientOperationsProofs -------------------------
(***************************************************************************)
(* Proofs about ClientOperations, for any number of transactions and faults *)
(* and any of the optional actors.                                          *)
(***************************************************************************)
EXTENDS ClientOperations, TLAPS

Plans == {<<"plain">>, <<"held">>, <<"held", "held">>, <<"plain", "held">>}
Pcs   == {"idle", "guard", "hook", "try", "launch", "publish", "undo", "wait", "probe", "unproved",
          "adopt", "won", "cancelled", "failed", "finish"}
Phases == {"off", "requested", "trying", "starting", "checking", "connected", "stopping", "failed"}

App == [conn : 0 .. MaxOps, cmd : 0 .. MaxOps, mode : {"off", "on"}, connected : {"no", "yes"},
        phase : Phases]
Sys == [child : 0 .. MaxOps, left : {"none", "up"}, ks : {"off", "on"}]
Op  == [kind : {"connect", "auto", "startup"}, pc : Pcs, plan : Plans, ctx : 0 .. MaxOps]

(* The types, in full. *)
ClientTypes ==
    /\ opmu \in {"free", "op", "disc", "drain", "mon", "settings"} /\ ops \in 0 .. MaxOps
    /\ app \in App /\ sys \in Sys /\ op \in Op
    /\ cancelled \subseteq 1 .. MaxOps /\ last \in 0 .. MaxOps /\ rec \in 0 .. MaxOps
    /\ sched \in [pc : {"timer", "fired", "running", "done"}, ctx : {"live", "cancelled"}]
    /\ disc \in [pc : {"idle", "cancel", "lock", "stop"}, ctx : 0 .. MaxOps]
    /\ drain \in [pc : {"idle", "cancel", "call", "lock", "stop", "done"}, ctx : 0 .. MaxOps]
    /\ mon \in [pc : {"off", "claim", "stop", "label"}, cmd : 0 .. MaxOps]
    /\ closing \in {"no", "yes"} /\ answered \in {"no", "yes"} /\ faults \in Nat

(* operationMu is held by exactly one of those who say they hold it. *)
LockInv ==
    /\ opmu = "op" <=> op.pc # "idle"
    /\ opmu = "disc" <=> disc.pc = "stop"
    /\ opmu = "drain" <=> drain.pc = "stop"
    /\ opmu = "mon" <=> mon.pc \in {"stop", "label"}

(* The context of the transaction is the published one. *)
ContextInv ==
    /\ op.pc = "guard" => ops < MaxOps
    /\ op.pc \notin {"idle", "guard"} => op.ctx # 0
    /\ app.conn = IF op.pc \in {"idle", "guard"} THEN 0 ELSE op.ctx

(* What the controller knows of the host: the child is the one it holds, but for
   the moment between its start and its publication. *)
HostInv ==
    /\ NothingIsForgotten
    /\ sys.child = IF op.pc = "publish" THEN op.ctx ELSE app.cmd
    /\ op.pc \in {"hook", "try", "launch", "publish", "wait", "probe", "adopt", "undo", "unproved",
                 "failed"} => app.connected = "no"
    /\ op.pc \in {"wait", "probe", "adopt", "undo", "unproved", "won"} => app.mode = "on" /\ app.cmd = op.ctx
    /\ op.pc = "won" => app.connected = "yes"
    /\ mon.pc = "stop" => app.cmd = mon.cmd

(* The phase: one that refuses every guard has a runtime behind it, or the
   transaction that will end it. *)
Settled == app.connected = "yes" \/ app.mode = "on" \/ app.phase \in {"off", "failed"}

PhaseInv ==
    /\ op.pc \in {"idle", "guard", "launch", "publish"} => Settled
    /\ op.pc = "hook" => app.phase = "requested"
    /\ op.pc = "try" => app.phase = "requested" \/ (app.phase = "trying" /\ Held)
    /\ op.pc \in {"cancelled", "failed"}
          => Settled \/ app.phase = "requested" \/ (app.phase = "trying" /\ Held)
    /\ op.pc = "finish" => Settled \/ (app.phase = "requested" /\ app.connected = "no")

(* The startup that a Disconnect found pending, and the drain. *)
EndInv ==
    /\ disc.pc # "idle" \/ answered = "yes" => sched.ctx = "cancelled"
    /\ answered = "yes" /\ op.kind = "startup" => op.pc \in {"idle", "guard", "hook", "finish"}
    /\ drain.pc # "idle" => closing = "yes"
    /\ DrainedIsGone

ClientInv == ClientTypes /\ LockInv /\ ContextInv /\ HostInv /\ PhaseInv /\ EndInv

-----------------------------------------------------------------------------
(* What any stopModeWithIntent leaves, whether it succeeds or fails half way. *)
Stopped ==
    /\ app' \in App /\ sys' \in Sys /\ faults' \in Nat /\ app'.conn = app.conn
    /\ app' = app \/ (app'.connected = "no" /\ app'.phase \in {"off", "failed"})
    /\ sys.child = app.cmd => sys'.child = app'.cmd
    /\ app'.mode = app.mode \/ (sys'.child = 0 /\ sys'.left = "none")
    /\ (sys'.child # 0 => sys.child # 0) /\ (sys'.left = "up" => sys.left = "up")

(* What a successful one leaves. *)
Cleared ==
    /\ app'.cmd = 0 /\ app'.mode = "off" /\ app'.connected = "no" /\ app'.phase = "off"
    /\ sys'.child = 0 /\ sys'.left = "none"

(* The transaction moves to pc. *)
Moves(pc) == op' \in Op /\ op'.pc = pc /\ op'.ctx = op.ctx /\ op'.kind = op.kind

-----------------------------------------------------------------------------
(* The records of the type invariant, one by one. *)
LEMMA TypeParts ==
    ASSUME ClientTypes
    PROVE  app \in App /\ sys \in Sys /\ op \in Op /\ faults \in Nat
BY DEF ClientTypes, App, Sys, Op

(* The ways in which stopModeWithIntent ends. *)
StopEnds ==
    \/ UNCHANGED <<app, sys>>
    \/ app' = [app EXCEPT !.connected = "no", !.phase = "failed"] /\ UNCHANGED sys
    \/ /\ app' = [app EXCEPT !.cmd = 0, !.connected = "no", !.phase = "failed"]
       /\ sys' = [sys EXCEPT !.child = 0] \/ sys' = [sys EXCEPT !.child = 0, !.left = "none"]
    \/ /\ \E phase \in {"off", "failed"} :
             app' = [app EXCEPT !.cmd = 0, !.mode = "off", !.connected = "no", !.phase = phase]
       /\ \E ks \in {"off", "on"} : sys' = [child |-> 0, left |-> "none", ks |-> ks]

(* However a stop of the host ends, the operation that called it is left alone. *)
LEMMA StopLeaves == ASSUME ClientTypes, StopEnds, faults' \in Nat PROVE Stopped
<1>1. app \in App /\ sys \in Sys /\ 0 \in 0 .. MaxOps
  BY TypeParts, ClientAssumption
<1>2. CASE UNCHANGED <<app, sys>>
  BY <1>1, <1>2 DEF Stopped
<1>3. CASE app' = [app EXCEPT !.connected = "no", !.phase = "failed"] /\ UNCHANGED sys
  <2>1. app' \in App
    BY <1>1, <1>3 DEF App, Phases
  <2>2. /\ app'.conn = app.conn /\ app'.cmd = app.cmd /\ app'.mode = app.mode
        /\ app'.connected = "no" /\ app'.phase = "failed"
    BY <1>1, <1>3 DEF App
  <2> QED
    BY <1>1, <1>3, <2>1, <2>2 DEF Stopped
<1>4. CASE /\ app' = [app EXCEPT !.cmd = 0, !.connected = "no", !.phase = "failed"]
           /\ sys' = [sys EXCEPT !.child = 0] \/ sys' = [sys EXCEPT !.child = 0, !.left = "none"]
  <2>1. app' \in App
    BY <1>1, <1>4 DEF App, Phases
  <2>2. sys' \in Sys /\ sys'.child = 0 /\ sys'.left \in {sys.left, "none"}
    BY <1>1, <1>4 DEF Sys
  <2>3. /\ app'.conn = app.conn /\ app'.cmd = 0 /\ app'.mode = app.mode
        /\ app'.connected = "no" /\ app'.phase = "failed"
    BY <1>1, <1>4 DEF App
  <2> QED
    BY <2>1, <2>2, <2>3 DEF Stopped
<1>5. ASSUME NEW phase \in {"off", "failed"}, NEW ks \in {"off", "on"},
             app' = [app EXCEPT !.cmd = 0, !.mode = "off", !.connected = "no", !.phase = phase],
             sys' = [child |-> 0, left |-> "none", ks |-> ks]
      PROVE  Stopped
  <2>1. app' \in App
    BY <1>1, <1>5 DEF App, Phases
  <2>2. sys' \in Sys /\ sys'.child = 0 /\ sys'.left = "none"
    BY <1>1, <1>5 DEF Sys
  <2>3. /\ app'.conn = app.conn /\ app'.cmd = 0 /\ app'.mode = "off"
        /\ app'.connected = "no" /\ app'.phase = phase
    BY <1>1, <1>5 DEF App
  <2> QED
    BY <2>1, <2>2, <2>3 DEF Stopped
<1> QED
  BY <1>2, <1>3, <1>4, <1>5 DEF StopEnds

(* A step that may fail leaves the count of failures a number. *)
LEMMA FaultTypes == ASSUME ClientTypes, Fault \/ NoFault PROVE faults' \in Nat
BY DEF ClientTypes, Fault, NoFault

(* The stop that keeps the kill switch clears the host when it succeeds. *)
LEMMA StopHolding == ASSUME ClientTypes, Stop(TRUE) PROVE Stopped /\ (StopOK(TRUE) => Cleared)
<1>1. app \in App /\ sys.ks \in {"off", "on"}
  BY TypeParts DEF Sys
<1>2. StopEnds /\ faults' \in Nat
  BY <1>1, FaultTypes DEF Stop, StopOK, StopFails, StopEnds
<1>3. StopOK(TRUE) => Cleared
  BY <1>1 DEF StopOK, Cleared, App
<1> QED
  BY <1>2, <1>3, StopLeaves

(* The stop that lifts the kill switch does, too. *)
LEMMA StopReleasing == ASSUME ClientTypes, Stop(FALSE) PROVE Stopped /\ (StopOK(FALSE) => Cleared)
<1>1. app \in App /\ sys.ks \in {"off", "on"}
  BY TypeParts DEF Sys
<1>2. StopEnds /\ faults' \in Nat
  BY <1>1, FaultTypes DEF Stop, StopOK, StopFails, StopEnds
<1>3. StopOK(FALSE) => Cleared
  BY <1>1 DEF StopOK, Cleared, App
<1> QED
  BY <1>2, <1>3, StopLeaves

(* The stop of a failed attempt keeps the kill switch as it is. *)
LEMMA StopAttempt == ASSUME ClientTypes, Stop(Held) PROVE Stopped
<1>1. sys.ks \in {"off", "on"}
  BY TypeParts DEF Sys
<1>2. StopEnds /\ faults' \in Nat
  BY <1>1, FaultTypes DEF Stop, StopOK, StopFails, StopEnds
<1> QED
  BY <1>2, StopLeaves

(* The plans of an operation: every attempt but the first holds the kill switch. *)
LEMMA PlanFacts ==
    /\ \A kind \in {"connect", "auto", "startup"} : Plan(kind) \in Plans
    /\ \A p \in Plans : Len(p) > 1 => Tail(p) \in Plans /\ Head(Tail(p)) = "held"
<1>1. \A kind \in {"connect", "auto", "startup"} : Plan(kind) \in Plans
  BY DEF Plan, Plans
<1>2. ASSUME NEW p \in Plans, Len(p) > 1 PROVE Tail(p) \in Plans /\ Head(Tail(p)) = "held"
  <2>1. p = <<"held", "held">> \/ p = <<"plain", "held">>
    BY <1>2 DEF Plans
  <2>2. Tail(p) = <<"held">>
    <3>1. Tail(<<"held", "held">>) = <<"held">> /\ Tail(<<"plain", "held">>) = <<"held">>
      OBVIOUS
    <3> QED
      BY <2>1, <3>1
  <2>3. Head(<<"held">>) = "held"
    OBVIOUS
  <2> QED
    BY <2>2, <2>3 DEF Plans
<1> QED
  BY <1>1, <1>2

(* A move of the operation to another label changes nothing else of it. *)
LEMMA GotoMoves ==
    ASSUME ClientTypes, NEW pc \in Pcs, Goto(pc) PROVE Moves(pc) /\ op'.plan = op.plan
BY TypeParts DEF Goto, Moves, Op

(* The client as it starts. *)
LEMMA ClientInitInv == Init => ClientInv
<1> SUFFICES ASSUME Init PROVE ClientInv
  OBVIOUS
<1>1. ClientTypes
  BY ClientAssumption DEF App, Sys, Op, Init, ClientTypes, Plans, Pcs, Phases
<1>2. LockInv /\ ContextInv /\ HostInv /\ PhaseInv /\ EndInv
  BY DEF Init, LockInv, ContextInv, HostInv, PhaseInv, EndInv, NothingIsForgotten, Settled,
         DrainedIsGone
<1> QED
  BY <1>1, <1>2 DEF ClientInv

(* A step of the transaction that holds operationMu: nobody else's state changes,
   and what is left to show is about the host and the phase. *)
LEMMA OpMove ==
    ASSUME ClientInv, Others, NEW pc \in Pcs \ {"idle", "guard"}, Moves(pc),
           op.pc \notin {"idle", "guard", "finish"},
           app' \in App, sys' \in Sys, faults' \in Nat, app'.conn = app.conn,
           op.pc = "hook" /\ sched.ctx = "cancelled" => pc = "finish",
           HostInv', PhaseInv'
    PROVE  ClientInv'
<1>1. ClientTypes'
  BY DEF ClientInv, ClientTypes, Others, Moves, App, Sys, Op
<1>2. LockInv' /\ ContextInv'
  BY DEF ClientInv, LockInv, ContextInv, Others, Moves
<1>3. EndInv'
  BY DEF ClientInv, ClientTypes, EndInv, DrainedIsGone, Others, Moves
<1> QED
  BY <1>1, <1>2, <1>3 DEF ClientInv

(* While it holds the lock no monitor stops anything. *)
LEMMA OpExcludesMonitor ==
    ASSUME ClientInv, Others, op.pc # "idle" PROVE mon'.pc # "stop"
BY DEF ClientInv, LockInv, Others

-----------------------------------------------------------------------------
(* The start-up hooks, after which a cancelled schedule ends the operation. *)
LEMMA StartupHooksInv == ASSUME ClientInv, StartupHooks PROVE ClientInv'
<1> DEFINE pc == IF sched.ctx = "cancelled" THEN "finish" ELSE "try"
<1>1. ClientTypes /\ app \in App /\ sys \in Sys /\ faults \in Nat
  BY TypeParts DEF ClientInv
<1>2. pc \in Pcs \ {"idle", "guard"} /\ Moves(pc) /\ Others /\ UNCHANGED <<app, sys, faults>>
  BY <1>1, GotoMoves DEF StartupHooks, Pcs
<1>3. HostInv'
  BY <1>2, OpExcludesMonitor DEF StartupHooks, Moves, ClientInv, HostInv, NothingIsForgotten
<1>4. PhaseInv'
  BY <1>2 DEF StartupHooks, Moves, ClientInv, HostInv, PhaseInv
<1> QED
  BY <1>1, <1>2, <1>3, <1>4, OpMove DEF StartupHooks

(* The next attempt of the plan, or the end when there is none. *)
LEMMA TryInv == ASSUME ClientInv, Try PROVE ClientInv'
<1>1. ClientTypes /\ app \in App /\ sys \in Sys /\ faults \in Nat /\ Others /\ op.pc = "try"
  BY TypeParts DEF ClientInv, Try
<1>2. mon'.pc # "stop"
  BY <1>1, OpExcludesMonitor
<1>3. CASE Goto("cancelled") /\ UNCHANGED <<app, sys, faults>>
  <2>1. Moves("cancelled") /\ op'.plan = op.plan /\ "cancelled" \in Pcs \ {"idle", "guard"}
    BY <1>1, <1>3, GotoMoves DEF Pcs
  <2>2. HostInv' /\ PhaseInv'
    BY <1>1, <1>2, <1>3, <2>1 DEF Moves, ClientInv, HostInv, PhaseInv, NothingIsForgotten, Held
  <2> QED
    BY <1>1, <1>3, <2>1, <2>2, OpMove
<1>4. CASE StopOK(TRUE) /\ Goto("launch")
  <2>1. Moves("launch") /\ "launch" \in Pcs \ {"idle", "guard"}
    BY <1>1, <1>4, GotoMoves DEF Pcs
  <2>2. Stopped /\ Cleared
    BY <1>1, <1>4, StopHolding DEF Stop
  <2>3. HostInv' /\ PhaseInv'
    BY <1>2, <2>1, <2>2 DEF Cleared, Moves, HostInv, PhaseInv, NothingIsForgotten, Settled
  <2> QED
    BY <1>1, <2>1, <2>2, <2>3, OpMove DEF Stopped
<1>5. CASE StopFails(TRUE) /\ Goto("failed")
  <2>1. Moves("failed") /\ op'.plan = op.plan /\ "failed" \in Pcs \ {"idle", "guard"}
    BY <1>1, <1>5, GotoMoves DEF Pcs
  <2>2. Stopped
    BY <1>1, <1>5, StopHolding DEF Stop
  <2>3. HostInv'
    BY <1>1, <1>2, <2>1, <2>2 DEF Stopped, Moves, ClientInv, HostInv, NothingIsForgotten
  <2>4. PhaseInv'
    BY <1>1, <2>1, <2>2 DEF Stopped, Moves, ClientInv, PhaseInv, Settled, Held
  <2> QED
    BY <1>1, <2>1, <2>2, <2>3, <2>4, OpMove DEF Stopped
<1> QED
  BY <1>3, <1>4, <1>5 DEF Try

(* The engine starts; it is not published yet. *)
LEMMA LaunchInv == ASSUME ClientInv, Launch PROVE ClientInv'
<1>1. /\ ClientTypes /\ app \in App /\ sys \in Sys /\ faults \in Nat /\ Others
      /\ op.pc = "launch" /\ UNCHANGED app
  BY TypeParts DEF ClientInv, Launch
<1>2. mon'.pc # "stop"
  BY <1>1, OpExcludesMonitor
<1>3. op \in Op /\ op.ctx \in 0 .. MaxOps
  BY <1>1, TypeParts DEF Op
<1>4. ASSUME NEW pc \in {"cancelled", "failed"}, Goto(pc), faults' \in Nat,
             sys' = sys \/ sys' = [sys EXCEPT !.ks = "off"]
      PROVE  ClientInv'
  <2>1. Moves(pc) /\ pc \in Pcs \ {"idle", "guard"}
    BY <1>1, <1>4, GotoMoves DEF Pcs
  <2>2. sys' \in Sys /\ sys'.child = sys.child /\ sys'.left = sys.left
    BY <1>1, <1>4 DEF Sys
  <2>3. HostInv' /\ PhaseInv'
    BY <1>1, <1>2, <2>1, <2>2
       DEF Moves, ClientInv, HostInv, PhaseInv, NothingIsForgotten, Settled
  <2> QED
    BY <1>1, <1>4, <2>1, <2>2, <2>3, OpMove
<1>5. CASE NoFault /\ Goto("publish") /\ sys' = [child |-> op.ctx, left |-> "up", ks |-> "on"]
  <2>1. Moves("publish") /\ "publish" \in Pcs \ {"idle", "guard"} /\ faults' \in Nat
    BY <1>1, <1>5, GotoMoves, FaultTypes DEF Pcs
  <2>2. sys' \in Sys /\ sys'.child = op.ctx
    BY <1>3, <1>5 DEF Sys
  <2>3. HostInv' /\ PhaseInv'
    BY <1>1, <1>2, <2>1, <2>2
       DEF Moves, ClientInv, HostInv, PhaseInv, NothingIsForgotten, Settled
  <2> QED
    BY <1>1, <2>1, <2>2, <2>3, OpMove
<1>6. CASE /\ Goto("cancelled")
           /\ IF Held THEN UNCHANGED <<sys, faults>> ELSE ReleaseIgnored
  <2>1. faults' \in Nat
    BY <1>1, <1>6, FaultTypes DEF ReleaseIgnored
  <2> QED
    BY <1>4, <1>6, <2>1 DEF ReleaseIgnored
<1>7. CASE /\ faults > 0 /\ Goto("failed")
           /\ IF Held THEN faults' = faults - 1 /\ UNCHANGED sys
              ELSE \/ faults' = faults - 1 /\ sys' = [sys EXCEPT !.ks = "off"]
                   \/ faults > 1 /\ faults' = faults - 2 /\ UNCHANGED sys
  <2>1. faults' \in Nat
    BY <1>1, <1>7
  <2> QED
    BY <1>4, <1>7, <2>1
<1> QED
  BY <1>5, <1>6, <1>7 DEF Launch

(* The command is published under the lock; a cancellation seen there undoes it. *)
LEMMA PublishInv == ASSUME ClientInv, Publish PROVE ClientInv'
<1> DEFINE pc == IF Cancelled THEN "undo" ELSE "wait"
<1>1. /\ ClientTypes /\ app \in App /\ sys \in Sys /\ faults \in Nat /\ Others
      /\ op.pc = "publish" /\ UNCHANGED <<sys, faults>>
  BY TypeParts DEF ClientInv, Publish
<1>2. mon'.pc # "stop"
  BY <1>1, OpExcludesMonitor
<1>3. op \in Op /\ op.ctx \in 0 .. MaxOps
  BY <1>1, TypeParts DEF Op
<1>4. Moves(pc) /\ pc \in Pcs \ {"idle", "guard"} /\ pc \in {"undo", "wait"}
  BY <1>1, GotoMoves DEF Pcs, Publish
<1>5. app' \in App
  BY <1>1, <1>3 DEF Publish, App, Phases
<1>6. app'.conn = app.conn /\ app'.cmd = op.ctx /\ app'.mode = "on" /\ app'.connected = "no"
  BY <1>1 DEF Publish, App
<1>7. HostInv'
  BY <1>1, <1>2, <1>4, <1>6 DEF Moves, ClientInv, HostInv, NothingIsForgotten
<1>8. PhaseInv'
  BY <1>4 DEF Moves, PhaseInv
<1> QED
  BY <1>1, <1>4, <1>5, <1>6, <1>7, <1>8, OpMove

(* stopAttempt, at whatever place: the runtime is stopped, or known. *)
LEMMA StopMoves ==
    ASSUME ClientInv, Others, Stopped, op.pc \in {"undo", "unproved", "won"},
           NEW pc \in {"cancelled", "failed", "finish"}, Goto(pc), op.pc = "won" => pc # "failed"
    PROVE  ClientInv'
<1>1. Moves(pc) /\ pc \in Pcs \ {"idle", "guard"}
  BY GotoMoves DEF ClientInv, Pcs
<1>2. mon'.pc # "stop"
  BY OpExcludesMonitor
<1>3. HostInv'
  BY <1>1, <1>2 DEF Stopped, Moves, ClientInv, HostInv, NothingIsForgotten
<1>4. PhaseInv'
  BY <1>1 DEF Stopped, Moves, ClientInv, HostInv, PhaseInv, Settled
<1> QED
  BY <1>1, <1>3, <1>4, OpMove DEF Stopped

(* A cancelled attempt stops what it has published. *)
LEMMA UndoInv == ASSUME ClientInv, Undo PROVE ClientInv'
<1>1. app.cmd = op.ctx
  BY DEF ClientInv, HostInv, Undo
<1>2. Stopped
  BY <1>1, StopAttempt DEF ClientInv, Undo
<1> QED
  BY <1>2, StopMoves DEF Undo

(* The wait for the tunnel, which a cancellation ends. *)
LEMMA WaitInv == ASSUME ClientInv, Wait PROVE ClientInv'
<1> DEFINE pc == IF Cancelled THEN "undo" ELSE "probe"
<1>1. /\ ClientTypes /\ app \in App /\ sys \in Sys /\ faults \in Nat /\ Others
      /\ op.pc = "wait" /\ UNCHANGED <<sys, faults>>
  BY TypeParts DEF ClientInv, Wait
<1>2. mon'.pc # "stop"
  BY <1>1, OpExcludesMonitor
<1>3. Moves(pc) /\ pc \in Pcs \ {"idle", "guard"} /\ pc \in {"undo", "probe"}
  BY <1>1, GotoMoves DEF Pcs, Wait
<1>4. app' \in App
  BY <1>1 DEF Wait, App, Phases
<1>5. app'.conn = app.conn /\ app'.cmd = app.cmd /\ app'.mode = app.mode
      /\ app'.connected = app.connected
  BY <1>1 DEF Wait, App
<1>6. HostInv'
  BY <1>1, <1>2, <1>3, <1>5 DEF Moves, ClientInv, HostInv, NothingIsForgotten
<1>7. PhaseInv'
  BY <1>3 DEF Moves, PhaseInv
<1> QED
  BY <1>1, <1>3, <1>4, <1>5, <1>6, <1>7, OpMove

(* The probe of the exit, which may fail. *)
LEMMA ProbeInv == ASSUME ClientInv, Probe PROVE ClientInv'
<1>1. /\ ClientTypes /\ app \in App /\ sys \in Sys /\ Others
      /\ op.pc = "probe" /\ UNCHANGED <<app, sys>> /\ faults' \in Nat
  BY TypeParts, FaultTypes DEF ClientInv, Probe
<1>2. mon'.pc # "stop"
  BY <1>1, OpExcludesMonitor
<1>3. PICK pc \in {"adopt", "undo", "unproved"} : Goto(pc)
  BY DEF Probe
<1>4. Moves(pc) /\ pc \in Pcs \ {"idle", "guard"}
  BY <1>1, <1>3, GotoMoves DEF Pcs
<1>5. HostInv' /\ PhaseInv'
  BY <1>1, <1>2, <1>4 DEF Moves, ClientInv, HostInv, PhaseInv, NothingIsForgotten
<1> QED
  BY <1>1, <1>4, <1>5, OpMove

(* An attempt without proof is stopped; a stop that fails ends the operation. *)
LEMMA UnprovedInv == ASSUME ClientInv, Unproved PROVE ClientInv'
<1>1. ClientTypes /\ sys.ks \in {"off", "on"}
  BY TypeParts DEF ClientInv, Sys
<1>2. CASE StopFails(Held)
  BY <1>1, <1>2, StopAttempt, StopMoves DEF Stop, Unproved
<1>3. CASE ~StopFails(Held)
  <2>1. StopEnds /\ faults' \in Nat
    BY <1>1, <1>3, FaultTypes DEF Unproved, StopEnds
  <2> QED
    BY <1>1, <2>1, StopLeaves, StopMoves DEF Unproved
<1> QED
  BY <1>2, <1>3

(* The connection is adopted unless a cancellation came first. *)
LEMMA AdoptInv == ASSUME ClientInv, Adopt PROVE ClientInv'
<1> DEFINE pc == IF Cancelled THEN "undo" ELSE "won"
<1>1. /\ ClientTypes /\ app \in App /\ sys \in Sys /\ faults \in Nat /\ Others
      /\ op.pc = "adopt" /\ UNCHANGED <<sys, faults>>
  BY TypeParts DEF ClientInv, Adopt
<1>2. mon'.pc # "stop"
  BY <1>1, OpExcludesMonitor
<1>3. Moves(pc) /\ pc \in Pcs \ {"idle", "guard"} /\ pc \in {"undo", "won"}
  BY <1>1, GotoMoves DEF Pcs, Adopt
<1>4. app' \in App
  BY <1>1 DEF Adopt, App, Phases
<1>5. app'.conn = app.conn /\ app'.cmd = app.cmd /\ app'.mode = app.mode
      /\ app'.connected = IF pc = "won" THEN "yes" ELSE app.connected
  BY <1>1 DEF Adopt, App
<1>6. HostInv'
  BY <1>1, <1>2, <1>3, <1>5 DEF Moves, ClientInv, HostInv, NothingIsForgotten
<1>7. PhaseInv'
  BY <1>3 DEF Moves, PhaseInv
<1> QED
  BY <1>1, <1>3, <1>4, <1>5, <1>6, <1>7, OpMove

(* The operation that has connected starts the monitor. *)
LEMMA WonInv == ASSUME ClientInv, Won PROVE ClientInv'
<1>1. ClientTypes /\ app \in App /\ sys \in Sys /\ faults \in Nat /\ Others /\ op.pc = "won"
  BY TypeParts DEF ClientInv, Won
<1>2. CASE Goto("finish") /\ UNCHANGED <<app, sys, faults>>
  <2>1. Moves("finish") /\ "finish" \in Pcs \ {"idle", "guard"} /\ mon'.pc # "stop"
    BY <1>1, <1>2, GotoMoves, OpExcludesMonitor DEF Pcs
  <2>2. HostInv' /\ PhaseInv'
    BY <1>1, <1>2, <2>1 DEF Moves, ClientInv, HostInv, PhaseInv, NothingIsForgotten, Settled
  <2> QED
    BY <1>1, <1>2, <2>1, <2>2, OpMove
<1>3. CASE Goto(IF Held THEN "cancelled" ELSE "finish") /\ Stop(FALSE)
  BY <1>1, <1>3, StopReleasing, StopMoves
<1> QED
  BY <1>2, <1>3 DEF Won

(* The end of a cancelled operation. *)
LEMMA CancelledEndInv == ASSUME ClientInv, CancelledEnd PROVE ClientInv'
<1>1. /\ ClientTypes /\ app \in App /\ sys \in Sys /\ faults \in Nat /\ Others
      /\ op.pc = "cancelled" /\ Goto("finish")
  BY TypeParts DEF ClientInv, CancelledEnd
<1>2. Moves("finish") /\ "finish" \in Pcs \ {"idle", "guard"} /\ mon'.pc # "stop"
  BY <1>1, GotoMoves, OpExcludesMonitor DEF Pcs
<1>3. CASE ~Held
  <2>1. UNCHANGED <<app, sys, faults>>
    BY <1>3 DEF CancelledEnd
  <2>2. HostInv'
    BY <1>1, <1>2, <2>1 DEF Moves, ClientInv, HostInv, NothingIsForgotten
  <2>3. PhaseInv'
    BY <1>1, <1>2, <1>3, <2>1 DEF Moves, ClientInv, PhaseInv, Settled, App
  <2> QED
    BY <1>1, <1>2, <2>1, <2>2, <2>3, OpMove
<1>4. CASE Held
  <2>1. PICK phase \in {"off", "failed"} :
           app' = [app EXCEPT !.connected = "no", !.phase = phase]
    BY <1>4 DEF CancelledEnd
  <2>2. sys' = sys \/ sys' = [sys EXCEPT !.ks = "off"]
    BY <1>4 DEF CancelledEnd
  <2>3. faults' \in Nat
    BY <1>1, <1>4, FaultTypes DEF CancelledEnd
  <2>4. app' \in App
    BY <1>1, <2>1 DEF App, Phases
  <2>5. /\ app'.conn = app.conn /\ app'.cmd = app.cmd /\ app'.mode = app.mode
        /\ app'.connected = "no" /\ app'.phase \in {"off", "failed"}
    BY <1>1, <2>1 DEF App
  <2>6. sys' \in Sys /\ sys'.child = sys.child /\ sys'.left = sys.left
    BY <1>1, <2>2 DEF Sys
  <2>7. HostInv' /\ PhaseInv'
    BY <1>1, <1>2, <2>5, <2>6 DEF Moves, ClientInv, HostInv, PhaseInv, NothingIsForgotten, Settled
  <2> QED
    BY <1>1, <1>2, <2>3, <2>4, <2>5, <2>6, <2>7, OpMove
<1> QED
  BY <1>3, <1>4

(* The end of an operation whose attempts have all failed. *)
LEMMA FailedEndInv == ASSUME ClientInv, FailedEnd PROVE ClientInv'
<1>1. /\ ClientTypes /\ app \in App /\ sys \in Sys /\ op \in Op /\ faults \in Nat /\ Others
      /\ op.pc = "failed" /\ mon'.pc # "stop"
  BY TypeParts, OpExcludesMonitor DEF ClientInv, FailedEnd
<1>2. CASE /\ Len(op.plan) > 1 /\ UNCHANGED <<sys, faults>>
           /\ op' = [op EXCEPT !.plan = Tail(@), !.pc = "try"]
           /\ app' = [app EXCEPT !.phase = "trying"]
  <2>1. Moves("try") /\ op'.plan = Tail(op.plan) /\ "try" \in Pcs \ {"idle", "guard"}
    BY <1>1, <1>2, PlanFacts DEF Moves, Op, Pcs
  <2>2. Held'
    BY <1>1, <1>2, <2>1, PlanFacts DEF Held, Op
  <2>3. app' \in App
    BY <1>1, <1>2 DEF App, Phases
  <2>4. /\ app'.conn = app.conn /\ app'.cmd = app.cmd /\ app'.mode = app.mode
        /\ app'.connected = app.connected /\ app'.phase = "trying"
    BY <1>1, <1>2 DEF App
  <2>5. HostInv'
    BY <1>1, <1>2, <2>1, <2>4 DEF Moves, ClientInv, HostInv, NothingIsForgotten
  <2>6. PhaseInv'
    BY <2>1, <2>2, <2>4 DEF Moves, PhaseInv
  <2> QED
    BY <1>1, <1>2, <2>1, <2>3, <2>4, <2>5, <2>6, OpMove
<1>3. CASE Goto("cancelled") /\ UNCHANGED <<app, sys, faults>>
  <2>1. Moves("cancelled") /\ op'.plan = op.plan /\ "cancelled" \in Pcs \ {"idle", "guard"}
    BY <1>1, <1>3, GotoMoves DEF Pcs
  <2>2. HostInv' /\ PhaseInv'
    BY <1>1, <1>3, <2>1
       DEF Moves, ClientInv, HostInv, PhaseInv, NothingIsForgotten, Held, Settled
  <2> QED
    BY <1>1, <1>3, <2>1, <2>2, OpMove
<1>4. CASE /\ Goto("finish")
           /\ IF Held THEN ReleaseIgnored /\ app' = [app EXCEPT !.connected = "no", !.phase = "failed"]
              ELSE UNCHANGED <<app, sys, faults>>
  <2>1. Moves("finish") /\ "finish" \in Pcs \ {"idle", "guard"}
    BY <1>1, <1>4, GotoMoves DEF Pcs
  <2>2. CASE Held
    <3>1. app' \in App
      BY <1>1, <1>4, <2>2 DEF App, Phases
    <3>2. /\ app'.conn = app.conn /\ app'.cmd = app.cmd /\ app'.mode = app.mode
          /\ app'.connected = "no" /\ app'.phase = "failed"
      BY <1>1, <1>4, <2>2 DEF App
    <3>3. sys' \in Sys /\ sys'.child = sys.child /\ sys'.left = sys.left
      BY <1>1, <1>4, <2>2 DEF ReleaseIgnored, Sys
    <3>4. faults' \in Nat
      BY <1>1, <1>4, <2>2, FaultTypes DEF ReleaseIgnored
    <3>5. HostInv' /\ PhaseInv'
      BY <1>1, <2>1, <3>2, <3>3 DEF Moves, ClientInv, HostInv, PhaseInv, NothingIsForgotten, Settled
    <3> QED
      BY <1>1, <2>1, <3>1, <3>2, <3>3, <3>4, <3>5, OpMove
  <2>3. CASE ~Held
    <3>1. HostInv'
      BY <1>1, <1>4, <2>1, <2>3 DEF Moves, ClientInv, HostInv, NothingIsForgotten
    <3>2. PhaseInv'
      BY <1>1, <1>4, <2>1, <2>3 DEF Moves, ClientInv, PhaseInv, Settled, App
    <3> QED
      BY <1>1, <1>4, <2>1, <2>3, <3>1, <3>2, OpMove
  <2> QED
    BY <2>2, <2>3
<1> QED
  BY <1>2, <1>3, <1>4 DEF FailedEnd

(* The operation gives the lock back. *)
LEMMA FinishInv == ASSUME ClientInv, Finish PROVE ClientInv'
<1>1. /\ ClientTypes /\ app \in App /\ op \in Op /\ op.pc = "finish" /\ 0 \in 0 .. MaxOps
      /\ opmu = "op" /\ op.ctx \in 1 .. MaxOps
  BY TypeParts, ClientAssumption DEF ClientInv, LockInv, ContextInv, Finish, Op
<1>2. op' \in Op /\ op'.pc = "idle" /\ op'.kind = op.kind /\ op'.ctx = op.ctx
  BY <1>1 DEF Finish, Op, Pcs
<1>3. app' \in App
  BY <1>1 DEF Finish, App, Phases
<1>4. /\ app'.conn = 0 /\ app'.cmd = app.cmd /\ app'.mode = app.mode
      /\ app'.connected = app.connected
      /\ app'.phase = IF app.connected = "no" /\ app.phase = "requested" THEN "off" ELSE app.phase
  BY <1>1 DEF Finish, App
<1>5. ClientTypes'
  <2>1. sched' \in [pc : {"timer", "fired", "running", "done"}, ctx : {"live", "cancelled"}]
    BY <1>1 DEF Finish, ClientTypes
  <2>2. cancelled' \subseteq 1 .. MaxOps
    BY <1>1 DEF Finish, ClientTypes
  <2> QED
    BY <1>1, <1>2, <1>3, <2>1, <2>2 DEF Finish, ClientTypes, App, Op
<1>6. LockInv' /\ ContextInv'
  BY <1>1, <1>2, <1>4 DEF Finish, ClientInv, LockInv, ContextInv
<1>7. HostInv'
  BY <1>1, <1>2, <1>4 DEF Finish, ClientInv, LockInv, HostInv, NothingIsForgotten
<1>8. PhaseInv'
  BY <1>1, <1>2, <1>4 DEF Finish, ClientInv, PhaseInv, Settled
<1>9. EndInv'
  <2>1. sched'.ctx = sched.ctx
    BY <1>1 DEF Finish, ClientTypes
  <2> QED
    BY <1>1, <1>2, <2>1 DEF Finish, ClientInv, EndInv, DrainedIsGone
<1> QED
  BY <1>5, <1>6, <1>7, <1>8, <1>9 DEF ClientInv

(* The operation gets its context under the guard. *)
LEMMA BeginInv == ASSUME ClientInv, Begin PROVE ClientInv'
<1>1. /\ ClientTypes /\ app \in App /\ op \in Op /\ op.pc = "guard" /\ opmu = "op"
      /\ ops \in 0 .. MaxOps /\ ops < MaxOps /\ MaxOps \in Nat
  BY TypeParts, ClientAssumption DEF ClientInv, ClientTypes, LockInv, ContextInv, Begin
<1>2. CASE closing = "yes" \/ Busy
  <2>1. op' \in Op /\ op'.pc = "idle" /\ op'.kind = op.kind
    BY <1>1, <1>2 DEF Begin, Op, Pcs
  <2>2. /\ sched' \in [pc : {"timer", "fired", "running", "done"}, ctx : {"live", "cancelled"}]
        /\ sched'.ctx = sched.ctx
    BY <1>1, <1>2 DEF Begin, ClientTypes
  <2>3. ClientTypes'
    BY <1>1, <1>2, <2>1, <2>2 DEF Begin, ClientTypes, Op
  <2>4. LockInv' /\ ContextInv' /\ EndInv'
    BY <1>1, <1>2, <2>1, <2>2
       DEF Begin, ClientInv, LockInv, ContextInv, EndInv, DrainedIsGone
  <2>5. HostInv' /\ PhaseInv'
    BY <1>1, <1>2, <2>1
       DEF Begin, ClientInv, LockInv, HostInv, PhaseInv, NothingIsForgotten, Settled
  <2> QED
    BY <2>3, <2>4, <2>5 DEF ClientInv
<1>3. CASE ~(closing = "yes" \/ Busy)
  <2> DEFINE pc == IF op.kind = "startup" THEN "hook" ELSE "try"
  <2>1. /\ ops + 1 \in 1 .. MaxOps /\ ops + 1 \in 0 .. MaxOps /\ ops + 1 # 0
        /\ app.connected = "no" /\ closing = "no"
    BY <1>1, <1>3 DEF Busy, App, ClientTypes
  <2>2. op' \in Op /\ op'.pc = pc /\ op'.kind = op.kind /\ op'.ctx = ops + 1
    BY <1>1, <1>3, <2>1 DEF Begin, Op, Pcs
  <2>3. app' \in App
    BY <1>1, <1>3, <2>1 DEF Begin, App, Phases
  <2>4. /\ app'.conn = ops + 1 /\ app'.cmd = app.cmd /\ app'.mode = app.mode
        /\ app'.connected = "no" /\ app'.phase = "requested"
    BY <1>1, <1>3, <2>1 DEF Begin, App
  <2>5. ClientTypes'
    BY <1>1, <1>3, <2>1, <2>2, <2>3 DEF Begin, ClientTypes, Op, App
  <2>6. LockInv' /\ ContextInv'
    BY <1>1, <1>3, <2>1, <2>2, <2>4 DEF Begin, ClientInv, LockInv, ContextInv
  <2>7. HostInv' /\ PhaseInv'
    BY <1>1, <1>3, <2>2, <2>4
       DEF Begin, ClientInv, LockInv, HostInv, PhaseInv, NothingIsForgotten
  <2>8. EndInv'
    BY <1>1, <1>3, <2>1, <2>2 DEF Begin, ClientInv, EndInv, DrainedIsGone
  <2> QED
    BY <2>5, <2>6, <2>7, <2>8 DEF ClientInv
<1> QED
  BY <1>2, <1>3

(* The operation, action by action. *)
LEMMA OpStepInv == ASSUME ClientInv, OpStep PROVE ClientInv'
BY BeginInv, StartupHooksInv, TryInv, LaunchInv, PublishInv, UndoInv, WaitInv, ProbeInv,
   UnprovedInv, AdoptInv, WonInv, CancelledEndInv, FailedEndInv, FinishInv DEF OpStep

-----------------------------------------------------------------------------
(* beginConnectionOperation and the startup goroutine take a lock that is free. *)
LEMMA LockTaken ==
    ASSUME ClientInv, NEW kind \in {"connect", "auto", "startup"}, opmu = "free", opmu' = "op",
           op' = [kind |-> kind, pc |-> "guard", plan |-> Plan(kind), ctx |-> 0], ops < MaxOps,
           sched' \in [pc : {"timer", "fired", "running", "done"}, ctx : {"live", "cancelled"}],
           sched.ctx = "cancelled" => sched'.ctx = "cancelled",
           UNCHANGED <<app, sys, ops, cancelled, disc, closing, drain, mon, rec, last, answered, faults>>
    PROVE  ClientInv'
<1>1. op' \in Op /\ op'.pc = "guard"
  BY PlanFacts, ClientAssumption DEF Op, Pcs
<1>2. ClientTypes'
  BY <1>1 DEF ClientInv, ClientTypes, Op
<1>3. LockInv' /\ ContextInv'
  BY <1>1 DEF ClientInv, LockInv, ContextInv
<1>4. HostInv' /\ PhaseInv'
  BY <1>1 DEF ClientInv, LockInv, HostInv, PhaseInv, NothingIsForgotten, Settled
<1>5. EndInv'
  BY <1>1 DEF ClientInv, EndInv, DrainedIsGone
<1> QED
  BY <1>2, <1>3, <1>4, <1>5 DEF ClientInv

(* Only the startup schedule changes, and is not brought back. *)
LEMMA ScheduleStep ==
    ASSUME ClientInv,
           sched' \in [pc : {"timer", "fired", "running", "done"}, ctx : {"live", "cancelled"}],
           sched.ctx = "cancelled" => sched'.ctx = "cancelled",
           UNCHANGED <<opmu, op, app, sys, ops, cancelled, disc, closing, drain, mon, rec, last,
                       answered, faults>>
    PROVE  ClientInv'
<1>1. ClientTypes' /\ LockInv' /\ ContextInv'
  BY DEF ClientInv, ClientTypes, LockInv, ContextInv
<1>2. HostInv' /\ PhaseInv' /\ EndInv'
  BY DEF ClientInv, HostInv, PhaseInv, EndInv, NothingIsForgotten, Settled, Held, DrainedIsGone
<1> QED
  BY <1>1, <1>2 DEF ClientInv

(* A cancelled schedule is one, and stays one. *)
LEMMA ScheduleTypes ==
    ASSUME ClientInv
    PROVE  /\ SchedCancelled \in [pc : {"timer", "fired", "running", "done"}, ctx : {"live", "cancelled"}]
           /\ SchedCancelled.ctx = "cancelled"
           /\ \A pc \in {"timer", "fired", "running", "done"} :
                /\ [sched EXCEPT !.pc = pc]
                      \in [pc : {"timer", "fired", "running", "done"}, ctx : {"live", "cancelled"}]
                /\ [sched EXCEPT !.pc = pc].ctx = sched.ctx
BY DEF ClientInv, ClientTypes, SchedCancelled

(* A request to connect, which finds the lock free or is refused. *)
LEMMA ConnectInv ==
    ASSUME ClientInv, NEW kind \in {"connect", "auto"}, Connect(kind) PROVE ClientInv'
<1>1. CASE opmu = "free"
  BY <1>1, ScheduleTypes, LockTaken DEF Connect
<1>2. CASE opmu # "free"
  BY <1>2, ScheduleTypes, ScheduleStep DEF Connect
<1> QED
  BY <1>1, <1>2

(* The timer of the connection at start-up. *)
LEMMA StartupFiresInv == ASSUME ClientInv, StartupFires PROVE ClientInv'
BY ScheduleTypes, ScheduleStep DEF StartupFires

(* ... and its wait for the lock. *)
LEMMA StartupLocksInv == ASSUME ClientInv, StartupLocks PROVE ClientInv'
<1>1. CASE opmu = "free" /\ ops < MaxOps
  BY <1>1, ScheduleTypes, LockTaken DEF StartupLocks
<1>2. CASE ~(opmu = "free" /\ ops < MaxOps)
  BY <1>2, ScheduleTypes, ScheduleStep DEF StartupLocks
<1> QED
  BY <1>1, <1>2

(* Contexts are cancelled. *)
LEMMA CancelStep ==
    ASSUME ClientInv, cancelled' \subseteq 1 .. MaxOps,
           disc' \in [pc : {"idle", "cancel", "lock", "stop"}, ctx : 0 .. MaxOps],
           drain' \in [pc : {"idle", "cancel", "call", "lock", "stop", "done"}, ctx : 0 .. MaxOps],
           disc'.pc = disc.pc \/ (disc.pc = "cancel" /\ disc'.pc = "lock"),
           drain'.pc = drain.pc \/ (drain.pc = "call" /\ drain'.pc = "lock"),
           UNCHANGED <<opmu, app, sys, op, ops, sched, closing, mon, rec, last, answered, faults>>
    PROVE  ClientInv'
<1>1. ClientTypes' /\ LockInv' /\ ContextInv'
  BY DEF ClientInv, ClientTypes, LockInv, ContextInv
<1>2. HostInv' /\ PhaseInv' /\ EndInv'
  BY DEF ClientInv, HostInv, PhaseInv, EndInv, NothingIsForgotten, Settled, Held, DrainedIsGone
<1> QED
  BY <1>1, <1>2 DEF ClientInv

(* Disconnect and shutdown cancel the context they have sampled. *)
LEMMA CancelsInv == ASSUME ClientInv, Cancels PROVE ClientInv'
<1>1. /\ cancelled \subseteq 1 .. MaxOps /\ MaxOps \in Nat /\ app.conn \in 0 .. MaxOps
      /\ disc \in [pc : {"idle", "cancel", "lock", "stop"}, ctx : 0 .. MaxOps]
      /\ drain \in [pc : {"idle", "cancel", "call", "lock", "stop", "done"}, ctx : 0 .. MaxOps]
  BY ClientAssumption DEF App, Sys, Op, ClientInv, ClientTypes
<1>2. CASE DisconnectCancels
  <2>1. cancelled' \subseteq 1 .. MaxOps
    BY <1>1, <1>2 DEF DisconnectCancels
  <2>2. disc' \in [pc : {"idle", "cancel", "lock", "stop"}, ctx : 0 .. MaxOps] /\ disc'.pc = "lock"
    BY <1>1, <1>2 DEF DisconnectCancels
  <2> QED
    BY <1>1, <1>2, <2>1, <2>2, CancelStep DEF DisconnectCancels
<1>3. CASE DrainCancels
  <2>1. cancelled' \subseteq 1 .. MaxOps
    BY <1>1, <1>3 DEF DrainCancels
  <2>2. /\ drain' \in [pc : {"idle", "cancel", "call", "lock", "stop", "done"}, ctx : 0 .. MaxOps]
        /\ drain'.pc = "lock"
    BY <1>1, <1>3 DEF DrainCancels
  <2> QED
    BY <1>1, <1>3, <2>1, <2>2, CancelStep DEF DrainCancels
<1>4. CASE HookRuns
  <2>1. op.ctx \in 1 .. MaxOps
    BY <1>1, <1>4, TypeParts DEF HookRuns, ClientInv, ContextInv, Op
  <2>2. cancelled' \subseteq 1 .. MaxOps
    BY <1>1, <1>4, <2>1 DEF HookRuns
  <2> QED
    BY <1>1, <1>4, <2>2, CancelStep DEF HookRuns
<1>5. CASE DrainReads
  <2>1. /\ drain' \in [pc : {"idle", "cancel", "call", "lock", "stop", "done"}, ctx : 0 .. MaxOps]
        /\ drain'.pc = "call" /\ drain.pc = "cancel"
    BY <1>1, <1>5 DEF DrainReads
  <2>2. ClientTypes' /\ sched'.ctx = "cancelled"
    BY <1>5, <2>1, ScheduleTypes DEF DrainReads, ClientInv, ClientTypes
  <2>3. LockInv' /\ ContextInv' /\ EndInv'
    BY <1>5, <2>1, <2>2 DEF DrainReads, ClientInv, LockInv, ContextInv, EndInv, DrainedIsGone
  <2>4. HostInv' /\ PhaseInv'
    BY <1>5 DEF DrainReads, ClientInv, HostInv, PhaseInv, NothingIsForgotten, Settled, Held
  <2> QED
    BY <2>2, <2>3, <2>4 DEF ClientInv
<1> QED
  BY <1>2, <1>3, <1>4, <1>5 DEF Cancels

(* A disconnect samples the running operation. *)
LEMMA DisconnectInv == ASSUME ClientInv, Disconnect PROVE ClientInv'
<1>1. /\ disc' \in [pc : {"idle", "cancel", "lock", "stop"}, ctx : 0 .. MaxOps]
      /\ disc'.pc = "cancel" /\ disc.pc = "idle"
  BY DEF App, Sys, Op, Disconnect, ClientInv, ClientTypes
<1>2. ClientTypes' /\ sched'.ctx = "cancelled"
  BY <1>1, ScheduleTypes DEF Disconnect, ClientInv, ClientTypes
<1>3. LockInv' /\ ContextInv' /\ EndInv'
  BY <1>1, <1>2 DEF Disconnect, ClientInv, LockInv, ContextInv, EndInv, DrainedIsGone
<1>4. HostInv' /\ PhaseInv'
  BY DEF Disconnect, ClientInv, HostInv, PhaseInv, NothingIsForgotten, Settled, Held
<1> QED
  BY <1>2, <1>3, <1>4 DEF ClientInv

(* The shutdown closes the guard and samples the running operation. *)
LEMMA ShutdownInv == ASSUME ClientInv, Shutdown PROVE ClientInv'
<1>1. /\ drain' \in [pc : {"idle", "cancel", "call", "lock", "stop", "done"}, ctx : 0 .. MaxOps]
      /\ drain'.pc = "cancel" /\ drain.pc = "idle"
  BY ClientAssumption DEF Shutdown, ClientInv, ClientTypes, EndInv
<1>2. ClientTypes'
  BY <1>1 DEF Shutdown, ClientInv, ClientTypes
<1>3. LockInv' /\ ContextInv' /\ EndInv'
  BY <1>1 DEF Shutdown, ClientInv, LockInv, ContextInv, EndInv, DrainedIsGone
<1>4. HostInv' /\ PhaseInv'
  BY DEF Shutdown, ClientInv, HostInv, PhaseInv, NothingIsForgotten, Settled, Held
<1> QED
  BY <1>2, <1>3, <1>4 DEF ClientInv

(* Somebody else than a transaction takes the lock, or gives it back untouched. *)
LEMMA LocksInv == ASSUME ClientInv, Locks PROVE ClientInv'
<1>1. CASE DisconnectLocks
  <2>1. /\ disc' \in [pc : {"idle", "cancel", "lock", "stop"}, ctx : 0 .. MaxOps]
        /\ disc'.pc = "stop" /\ disc.pc = "lock"
    BY <1>1 DEF DisconnectLocks, ClientInv, ClientTypes
  <2>2. ClientTypes'
    BY <1>1, <2>1 DEF DisconnectLocks, ClientInv, ClientTypes
  <2>3. LockInv' /\ ContextInv' /\ EndInv'
    BY <1>1, <2>1 DEF DisconnectLocks, ClientInv, LockInv, ContextInv, EndInv, DrainedIsGone
  <2>4. HostInv' /\ PhaseInv'
    BY <1>1 DEF DisconnectLocks, ClientInv, HostInv, PhaseInv, NothingIsForgotten, Settled, Held
  <2> QED
    BY <2>2, <2>3, <2>4 DEF ClientInv
<1>2. CASE DrainLocks
  <2>1. /\ drain' \in [pc : {"idle", "cancel", "call", "lock", "stop", "done"}, ctx : 0 .. MaxOps]
        /\ drain'.pc = "stop" /\ drain.pc = "lock"
    BY <1>2 DEF DrainLocks, ClientInv, ClientTypes
  <2>2. ClientTypes'
    BY <1>2, <2>1 DEF DrainLocks, ClientInv, ClientTypes
  <2>3. LockInv' /\ ContextInv' /\ EndInv'
    BY <1>2, <2>1 DEF DrainLocks, ClientInv, LockInv, ContextInv, EndInv, DrainedIsGone
  <2>4. HostInv' /\ PhaseInv'
    BY <1>2 DEF DrainLocks, ClientInv, HostInv, PhaseInv, NothingIsForgotten, Settled, Held
  <2> QED
    BY <2>2, <2>3, <2>4 DEF ClientInv
<1> QED
  BY <1>1, <1>2 DEF Locks

(* A change of settings holds the lock for its time. *)
LEMMA SettingsInv == ASSUME ClientInv, SettingsBegin \/ SettingsEnd PROVE ClientInv'
<1>1. /\ \/ opmu = "free" /\ opmu' = "settings"
         \/ opmu = "settings" /\ opmu' = "free"
      /\ UNCHANGED <<app, sys, op, ops, cancelled, sched, disc, closing, drain, mon, rec, last,
                     answered, faults>>
  BY DEF SettingsBegin, SettingsEnd
<1>2. ClientTypes' /\ LockInv' /\ ContextInv'
  BY <1>1 DEF ClientInv, ClientTypes, LockInv, ContextInv
<1>3. HostInv' /\ PhaseInv' /\ EndInv'
  BY <1>1 DEF ClientInv, HostInv, PhaseInv, EndInv, NothingIsForgotten, Settled, Held, DrainedIsGone
<1> QED
  BY <1>2, <1>3 DEF ClientInv

(* The last good connection is sampled, and saved later. *)
LEMMA RecordInv == ASSUME ClientInv, RecordSample \/ RecordSave PROVE ClientInv'
<1>1. /\ rec' \in 0 .. MaxOps /\ last' \in 0 .. MaxOps
      /\ UNCHANGED <<opmu, app, sys, op, ops, cancelled, sched, disc, closing, drain, mon,
                     answered, faults>>
  BY ClientAssumption DEF App, Sys, Op, RecordSample, RecordSave, ClientInv, ClientTypes
<1>2. ClientTypes' /\ LockInv' /\ ContextInv'
  BY <1>1 DEF ClientInv, ClientTypes, LockInv, ContextInv
<1>3. HostInv' /\ PhaseInv' /\ EndInv'
  BY <1>1 DEF ClientInv, HostInv, PhaseInv, EndInv, NothingIsForgotten, Settled, Held, DrainedIsGone
<1> QED
  BY <1>2, <1>3 DEF ClientInv

-----------------------------------------------------------------------------
(* Somebody else than a transaction stops the runtime, with the lock held. *)
LEMMA OtherStops ==
    ASSUME ClientInv, Stopped, op.pc = "idle", UNCHANGED <<op, ops>>, mon'.pc # "stop"
    PROVE  ContextInv' /\ HostInv' /\ PhaseInv'
<1>1. ContextInv'
  BY DEF Stopped, ClientInv, ContextInv
<1>2. HostInv'
  BY DEF Stopped, ClientInv, HostInv, NothingIsForgotten
<1>3. PhaseInv'
  BY DEF Stopped, ClientInv, PhaseInv, Settled
<1> QED
  BY <1>1, <1>2, <1>3

(* The disconnect stops the host under the lock. *)
LEMMA DisconnectStopsInv == ASSUME ClientInv, DisconnectStops PROVE ClientInv'
<1>1. ClientTypes /\ op.pc = "idle" /\ opmu = "disc" /\ mon.pc # "stop" /\ disc.pc = "stop"
  BY DEF DisconnectStops, ClientInv, LockInv
<1>2. Stopped
  BY <1>1, StopReleasing DEF DisconnectStops, Stop
<1>3. ContextInv' /\ HostInv' /\ PhaseInv'
  BY <1>1, <1>2, OtherStops DEF DisconnectStops
<1>4. ClientTypes'
  <2>1. disc' \in [pc : {"idle", "cancel", "lock", "stop"}, ctx : 0 .. MaxOps]
    BY ClientAssumption DEF DisconnectStops
  <2>2. answered' \in {"no", "yes"}
    BY <1>1 DEF DisconnectStops, ClientTypes
  <2>3. app' \in App /\ sys' \in Sys /\ faults' \in Nat
    BY <1>2 DEF Stopped
  <2> QED
    BY <1>1, <2>1, <2>2, <2>3 DEF DisconnectStops, ClientTypes, App, Sys
<1>5. LockInv'
  BY <1>1 DEF DisconnectStops, ClientInv, LockInv
<1>6. EndInv'
  <2>1. disc'.pc = "idle"
    BY DEF DisconnectStops
  <2>2. drain.pc = "done" => sys'.child = 0 /\ sys'.left = "none"
    BY <1>2, <1>4 DEF App, Sys, Op, ClientInv, EndInv, DrainedIsGone, Stopped, ClientTypes
  <2> QED
    BY <1>1, <2>1, <2>2 DEF DisconnectStops, ClientInv, EndInv, DrainedIsGone
<1> QED
  BY <1>3, <1>4, <1>5, <1>6 DEF ClientInv

(* The drain is done when there was nothing to stop, or when the stop succeeded:
   what it does not know of does not exist. *)
LEMMA DrainStopsInv == ASSUME ClientInv, DrainStops PROVE ClientInv'
<1>1. ClientTypes /\ op.pc = "idle" /\ opmu = "drain" /\ mon.pc # "stop" /\ drain.pc = "stop"
      /\ app \in App /\ sys \in Sys /\ faults \in Nat
  BY TypeParts DEF DrainStops, ClientInv, LockInv
<1>2. Stopped
  <2>1. CASE UNCHANGED <<app, sys, faults>>
    BY <1>1, <2>1 DEF Stopped
  <2>2. CASE Stop(FALSE)
    BY <1>1, <2>2, StopReleasing
  <2> QED
    BY <2>1, <2>2 DEF DrainStops, Stop
<1>3. ContextInv' /\ HostInv' /\ PhaseInv'
  BY <1>1, <1>2, OtherStops DEF DrainStops
<1>4. /\ drain' \in [pc : {"idle", "cancel", "call", "lock", "stop", "done"}, ctx : 0 .. MaxOps]
      /\ drain'.pc \in {"done", "cancel"}
  BY <1>1 DEF DrainStops, ClientTypes
<1>5. drain'.pc = "done" => sys'.child = 0 /\ sys'.left = "none"
  <2>1. CASE ~NeedsStop /\ UNCHANGED <<app, sys, faults>>
    BY <1>1, <2>1 DEF NeedsStop, ClientInv, HostInv, NothingIsForgotten, Sys, App
  <2>2. CASE StopOK(FALSE)
    BY <1>1, <2>2, StopReleasing DEF Stop, Cleared
  <2>3. CASE drain' = [drain EXCEPT !.pc = "cancel"]
    BY <1>1, <2>3 DEF ClientTypes
  <2> QED
    BY <2>1, <2>2, <2>3 DEF DrainStops
<1>6. ClientTypes'
  BY <1>1, <1>2, <1>4 DEF DrainStops, ClientTypes, Stopped, App, Sys
<1>7. LockInv'
  BY <1>1, <1>4 DEF DrainStops, ClientInv, LockInv
<1>8. EndInv'
  BY <1>1, <1>4, <1>5 DEF DrainStops, ClientInv, EndInv, DrainedIsGone
<1> QED
  BY <1>3, <1>6, <1>7, <1>8 DEF ClientInv

(* The monitor stops the tunnel that it has claimed. *)
LEMMA MonitorStopsInv == ASSUME ClientInv, MonitorStops PROVE ClientInv'
<1>1. ClientTypes /\ op.pc = "idle" /\ opmu = "mon" /\ mon.pc = "stop"
  BY DEF MonitorStops, ClientInv, LockInv
<1>2. Stopped
  BY <1>1, StopHolding DEF MonitorStops
<1>3. mon' \in [pc : {"off", "claim", "stop", "label"}, cmd : 0 .. MaxOps] /\ mon'.pc = "label"
  BY <1>1 DEF MonitorStops, ClientTypes
<1>4. ContextInv' /\ HostInv' /\ PhaseInv'
  BY <1>1, <1>2, <1>3, OtherStops DEF MonitorStops
<1>5. ClientTypes'
  BY <1>1, <1>2, <1>3 DEF MonitorStops, ClientTypes, Stopped, App, Sys
<1>6. LockInv'
  BY <1>1, <1>3 DEF MonitorStops, ClientInv, LockInv
<1>7. EndInv'
  <2>1. drain.pc = "done" => sys'.child = 0 /\ sys'.left = "none"
    BY <1>2, <1>5 DEF App, Sys, Op, ClientInv, EndInv, DrainedIsGone, Stopped, ClientTypes
  <2> QED
    BY <1>1, <2>1 DEF MonitorStops, ClientInv, EndInv, DrainedIsGone
<1> QED
  BY <1>4, <1>5, <1>6, <1>7 DEF ClientInv

(* ... and says so, while it still has the lock. *)
LEMMA MonitorLabelsInv == ASSUME ClientInv, MonitorLabels PROVE ClientInv'
<1>1. ClientTypes /\ app \in App /\ op.pc = "idle" /\ opmu = "mon" /\ mon.pc = "label"
  BY TypeParts DEF MonitorLabels, ClientInv, LockInv
<1>2. app' \in App
  BY <1>1 DEF MonitorLabels, App, Phases
<1>3. /\ app'.conn = app.conn /\ app'.cmd = app.cmd /\ app'.mode = app.mode
      /\ app'.connected = "no" /\ app'.phase = "failed"
  BY <1>1 DEF MonitorLabels, App
<1>4. mon' \in [pc : {"off", "claim", "stop", "label"}, cmd : 0 .. MaxOps] /\ mon'.pc = "off"
  BY ClientAssumption DEF MonitorLabels
<1>5. ClientTypes'
  BY <1>1, <1>2, <1>4 DEF MonitorLabels, ClientTypes, App
<1>6. LockInv' /\ ContextInv' /\ EndInv'
  BY <1>1, <1>3, <1>4 DEF MonitorLabels, ClientInv, LockInv, ContextInv, EndInv, DrainedIsGone
<1>7. HostInv' /\ PhaseInv'
  BY <1>1, <1>3, <1>4 DEF MonitorLabels, ClientInv, HostInv, PhaseInv, NothingIsForgotten, Settled
<1> QED
  BY <1>5, <1>6, <1>7 DEF ClientInv

(* The monitor notices that the tunnel is down. *)
LEMMA MonitorStartsInv == ASSUME ClientInv, MonitorStarts PROVE ClientInv'
<1>1. /\ mon' \in [pc : {"off", "claim", "stop", "label"}, cmd : 0 .. MaxOps]
      /\ mon.pc = "off" /\ mon'.pc = "claim" /\ faults' \in Nat
  BY FaultTypes DEF App, Sys, Op, MonitorStarts, ClientInv, ClientTypes
<1>2. ClientTypes' /\ LockInv' /\ ContextInv'
  BY <1>1 DEF MonitorStarts, ClientInv, ClientTypes, LockInv, ContextInv
<1>3. HostInv' /\ PhaseInv' /\ EndInv'
  BY <1>1 DEF MonitorStarts, ClientInv, HostInv, PhaseInv, EndInv, NothingIsForgotten, Settled, Held,
              DrainedIsGone
<1> QED
  BY <1>2, <1>3 DEF ClientInv

(* The monitor claims the lock, or finds its tunnel replaced. *)
LEMMA MonitorClaimsInv == ASSUME ClientInv, MonitorClaims PROVE ClientInv'
<1>1. mon \in [pc : {"off", "claim", "stop", "label"}, cmd : 0 .. MaxOps] /\ mon.pc = "claim"
  BY DEF MonitorClaims, ClientInv, ClientTypes
<1>2. /\ mon' \in [pc : {"off", "claim", "stop", "label"}, cmd : 0 .. MaxOps]
      /\ \/ mon'.pc = "off" /\ UNCHANGED opmu
         \/ /\ mon'.pc = "stop" /\ opmu = "free" /\ opmu' = "mon"
            /\ app.cmd = mon.cmd /\ mon'.cmd = mon.cmd
  BY <1>1, ClientAssumption DEF MonitorClaims
<1>3. ClientTypes'
  BY <1>2 DEF MonitorClaims, ClientInv, ClientTypes
<1>4. LockInv' /\ ContextInv'
  BY <1>1, <1>2 DEF MonitorClaims, ClientInv, LockInv, ContextInv
<1>5. HostInv'
  BY <1>1, <1>2 DEF MonitorClaims, ClientInv, HostInv, NothingIsForgotten
<1>6. PhaseInv' /\ EndInv'
  BY DEF MonitorClaims, ClientInv, PhaseInv, EndInv, Settled, Held, DrainedIsGone
<1> QED
  BY <1>3, <1>4, <1>5, <1>6 DEF ClientInv

-----------------------------------------------------------------------------
(* Every step of the client keeps the invariant. *)
LEMMA ClientNextInv == ClientInv /\ [Next]_vars => ClientInv'
<1> SUFFICES ASSUME ClientInv, [Next]_vars PROVE ClientInv'
  OBVIOUS
<1>1. ASSUME NEW kind \in {"connect", "auto"}, Connect(kind) PROVE ClientInv'
  BY <1>1, ConnectInv
<1>2. CASE OpStep
  BY <1>2, OpStepInv
<1>3. CASE StartupFires \/ StartupLocks
  BY <1>3, StartupFiresInv, StartupLocksInv
<1>4. CASE Cancels \/ Locks
  BY <1>4, CancelsInv, LocksInv
<1>5. CASE Returns
  BY <1>5, DisconnectStopsInv, DrainStopsInv, SettingsInv, MonitorStopsInv, MonitorLabelsInv
     DEF Returns
<1>6. CASE Disconnect \/ Shutdown
  BY <1>6, DisconnectInv, ShutdownInv
<1>7. CASE SettingsBegin \/ RecordSample \/ RecordSave
  BY <1>7, SettingsInv, RecordInv
<1>8. CASE MonitorStarts \/ MonitorClaims
  BY <1>8, MonitorStartsInv, MonitorClaimsInv
<1>9. CASE UNCHANGED vars
  <2>1. ClientTypes' /\ LockInv' /\ ContextInv'
    BY <1>9 DEF vars, ClientInv, ClientTypes, LockInv, ContextInv
  <2>2. HostInv' /\ PhaseInv' /\ EndInv'
    BY <1>9 DEF vars, ClientInv, HostInv, PhaseInv, EndInv, NothingIsForgotten, Settled, Held,
                DrainedIsGone
  <2> QED
    BY <2>1, <2>2 DEF ClientInv
<1> QED
  BY <1>1, <1>2, <1>3, <1>4, <1>5, <1>6, <1>7, <1>8, <1>9 DEF Next

(* Lock, context, host and phase stay consistent, whoever of the client's actors
   runs when (operation_guard.go, main.go, controller_shutdown.go). *)
THEOREM ClientInvariant == Spec => []ClientInv
BY ClientInitInv, ClientNextInv, PTL DEF Spec

(* operationMu is held by exactly the transaction that is under way, and
   connectionContext is that transaction's. *)
THEOREM ClientTypeTheorem == Spec => []TypeOK
<1>1. ClientInv => TypeOK
  <2> SUFFICES ASSUME ClientInv PROVE TypeOK
    OBVIOUS
  <2>1. (opmu = "op") = (op.pc # "idle")
    BY DEF ClientInv, LockInv
  <2>2. op.pc \in Pcs
    BY TypeParts DEF ClientInv, Op
  <2> QED
    BY <2>1, <2>2 DEF App, Sys, Op, ClientInv, ClientTypes, ContextInv, TypeOK, Pcs, Phases
<1> QED
  BY <1>1, ClientInvariant, PTL

(* What a connection has left on the host is known to a later Disconnect, Connect
   or shutdown, however often stopModeWithIntent failed half way. *)
THEOREM ForgottenTheorem == Spec => []NothingIsForgotten
<1>1. ClientInv => NothingIsForgotten
  BY DEF ClientInv, HostInv
<1> QED
  BY <1>1, ClientInvariant, PTL

(* Every transaction that ends leaves a phase in which the guards let the next one
   in, or a runtime to disconnect. *)
THEOREM NotStuckTheorem == Spec => []NotStuck
<1>1. ClientInv => NotStuck
  BY DEF ClientInv, LockInv, PhaseInv, Settled, NotStuck, Busy
<1> QED
  BY <1>1, ClientInvariant, PTL

(* After drainControllerOwner has succeeded the host is empty, and no transaction
   that was under way, and no startup that fires late, gets past its guard. *)
THEOREM DrainedTheorem == Spec => []DrainedIsGone
<1>1. ClientInv => DrainedIsGone
  BY DEF ClientInv, EndInv
<1> QED
  BY <1>1, ClientInvariant, PTL

(* The monitor that holds operationMu stops the runtime it has watched, never its
   replacement (claimRuntimeMonitorOperation). *)
THEOREM MonitorTheorem == Spec => []MonitorOwnsWhatItStops
<1>1. ClientInv => MonitorOwnsWhatItStops
  BY DEF ClientInv, HostInv, MonitorOwnsWhatItStops
<1> QED
  BY <1>1, ClientInvariant, PTL

(* recordLastSuccessfulRuntime saves a runtime that is up at that moment. *)
THEOREM LastGoodTheorem == Spec => LastGoodWasUp
<1>1. ASSUME ClientInv, [Next]_vars, last' # last
      PROVE  app.connected = "yes" /\ app.cmd = last' /\ sys.child = last'
  <2>1. RecordSave
    BY <1>1 DEF Next, vars, Connect, OpStep, Begin, StartupHooks, Try, Launch, Publish, Undo, Wait,
       Probe, Unproved, Adopt, Won, CancelledEnd, FailedEnd, Finish, Others, StartupFires,
       StartupLocks, Cancels, DisconnectCancels, DrainReads, DrainCancels, HookRuns, Locks,
       DisconnectLocks, DrainLocks, Returns, DisconnectStops, DrainStops, SettingsEnd, MonitorStops,
       MonitorLabels, Disconnect, Shutdown, SettingsBegin, MonitorStarts, MonitorClaims, RecordSample
  <2>2. op.pc = "idle"
    BY <1>1, <2>1 DEF RecordSave, ClientInv, LockInv
  <2> QED
    BY <1>1, <2>1, <2>2 DEF RecordSave, ClientInv, HostInv
<1>2. ClientInv /\ [Next]_vars =>
        [last' # last => app.connected = "yes" /\ app.cmd = last' /\ sys.child = last']_vars
  BY <1>1
<1> QED
  BY <1>2, ClientInvariant, PTL DEF Spec, LastGoodWasUp

-----------------------------------------------------------------------------
(* Connected is published by Adopt alone, and only with a good context. *)
LEMMA OnlyAdoptConnects ==
    ASSUME ClientInv, [Next]_vars, app.connected = "no", app'.connected # "no"
    PROVE  op.pc = "adopt" /\ ~Cancelled
<1>1. ClientTypes /\ app \in App
  BY TypeParts DEF ClientInv
<1>2. CASE UNCHANGED app
  BY <1>2
<1>3. CASE Stopped
  BY <1>3 DEF Stopped
<1>4. CASE OpStep
  <2>1. CASE Begin \/ StartupHooks
    BY <1>1, <2>1 DEF Begin, StartupHooks, App
  <2>2. CASE Try
    BY <1>1, <1>2, <1>3, <2>2, StopHolding DEF Try, Stop
  <2>3. CASE Launch \/ Probe
    BY <1>2, <2>3 DEF Launch, Probe
  <2>4. CASE Publish \/ Wait
    BY <1>1, <2>4 DEF Publish, Wait, App
  <2>5. CASE Undo
    BY <1>1, <1>2, <1>3, <2>5, StopAttempt DEF Undo
  <2>6. CASE Unproved
    <3>1. CASE StopFails(Held)
      BY <1>1, <1>3, <3>1, StopAttempt DEF Stop
    <3>2. CASE app' = [app EXCEPT !.cmd = 0, !.mode = "off", !.connected = "no", !.phase = "failed"]
      BY <1>1, <3>2 DEF App
    <3> QED
      BY <2>6, <3>1, <3>2 DEF Unproved
  <2>7. CASE Adopt
    BY <1>2, <2>7 DEF Adopt
  <2>8. CASE Won
    BY <1>1, <1>2, <1>3, <2>8, StopReleasing DEF Won
  <2>9. CASE CancelledEnd \/ FailedEnd \/ Finish
    BY <1>1, <2>9 DEF CancelledEnd, FailedEnd, Finish, App
  <2> QED
    BY <1>4, <2>1, <2>2, <2>3, <2>4, <2>5, <2>6, <2>7, <2>8, <2>9 DEF OpStep
<1>5. CASE Returns
  <2>1. CASE DisconnectStops
    BY <1>1, <1>3, <2>1, StopReleasing DEF DisconnectStops, Stop
  <2>2. CASE DrainStops
    BY <1>1, <1>2, <1>3, <2>2, StopReleasing DEF DrainStops, Stop
  <2>3. CASE MonitorStops
    BY <1>1, <1>3, <2>3, StopHolding DEF MonitorStops
  <2>4. CASE MonitorLabels
    BY <1>1, <2>4 DEF MonitorLabels, App
  <2>5. CASE SettingsEnd
    BY <1>2, <2>5 DEF SettingsEnd
  <2> QED
    BY <1>5, <2>1, <2>2, <2>3, <2>4, <2>5 DEF Returns
<1>6. CASE \/ \E kind \in {"connect", "auto"} : Connect(kind)
           \/ StartupFires \/ StartupLocks \/ Cancels \/ Locks \/ Disconnect \/ Shutdown
           \/ SettingsBegin \/ MonitorStarts \/ MonitorClaims \/ RecordSample \/ RecordSave
           \/ UNCHANGED vars
  <2>1. UNCHANGED app
    BY <1>6 DEF Connect, StartupFires, StartupLocks, Cancels, DisconnectCancels, DrainReads,
       DrainCancels, HookRuns, Locks, DisconnectLocks, DrainLocks, Disconnect, Shutdown,
       SettingsBegin, MonitorStarts, MonitorClaims, RecordSample, RecordSave, vars
  <2> QED
    BY <1>2, <2>1
<1> QED
  BY <1>4, <1>5, <1>6 DEF Next

(* Once the latch of begin() is set no connection is published. *)
THEOREM ClosingTheorem == Spec => ClosingNeverConnects
<1>1. ASSUME ClientInv, [Next]_vars, closing = "yes", app.connected = "no"
      PROVE  app'.connected = "no"
  BY <1>1, OnlyAdoptConnects DEF Cancelled
<1>2. ClientInv /\ [Next]_vars =>
        [closing = "yes" /\ app.connected = "no" => app'.connected = "no"]_vars
  BY <1>1
<1> QED
  BY <1>2, ClientInvariant, PTL DEF Spec, ClosingNeverConnects

(* Once a Disconnect was answered the delayed startup connects nothing, wherever
   it was when the Disconnect arrived (cancelConnectionOperation). *)
THEOREM StartupTheorem == Spec => DisconnectStopsStartup
<1>1. ASSUME ClientInv, [Next]_vars, answered = "yes", op.kind = "startup", app.connected = "no"
      PROVE  app'.connected = "no"
  <2>1. op.pc # "adopt"
    BY <1>1 DEF ClientInv, EndInv
  <2> QED
    BY <1>1, <2>1, OnlyAdoptConnects
<1>2. ClientInv /\ [Next]_vars =>
        [answered = "yes" /\ op.kind = "startup" /\ app.connected = "no" => app'.connected = "no"]_vars
  BY <1>1
<1> QED
  BY <1>2, ClientInvariant, PTL DEF Spec, DisconnectStopsStartup
===============================================================================
