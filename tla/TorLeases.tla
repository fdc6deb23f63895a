------------------------------- MODULE TorLeases -------------------------------
(***************************************************************************)
(* Asynchronous Tor leases of one tunnel peer (internal/multihoprelay/     *)
(* tor_lease.go).  Unlike the other relays, a Tor worker starts and        *)
(* bootstraps outside the manager's lock: its goroutine (run), its timers, *)
(* the Stop calls of DELETE, of abandoned PUTs, of the sweep and of the    *)
(* worker's own clean-up, and delayed status reads all overlap.            *)
(*                                                                         *)
(* A step is one section under a lock, or the return of one blocking call. *)
(* Receipts, secrets, sources and ports are left out; receipts only say    *)
(* pending or ready.  Times are whether they have passed.                  *)
(***************************************************************************)
EXTENDS Integers, FiniteSets

CONSTANTS
    Requests,  \* the peer's Tor requests, one owner each
    Calls,     \* what the peer sends besides PUT: "delete", "status"
    MaxFaults  \* bound: workers that do not start, fail to bootstrap or to stop

ASSUME TorAssumption ==
    MaxFaults \in Nat /\ "none" \notin Requests /\ Calls \subseteq {"delete", "status"}

VARIABLES
    own,      \* torOwnedProcess, by request
    stop,     \* the Stop calls: who is where
    active,   \* the request whose owner m.leases holds for the peer
    lease,    \* that lease: its retired flag, and whether it has expired
    mu,       \* Manager.mu: "free", or held by the sweep during a Stop
    attempt,  \* m.torAttempts
    window,   \* whether AcquireExpiresAt has passed
    put, read, \* CreateTor behind owner.launch(), and torStatus outside the lock
    stopped,  \* history: requests whose DELETE was answered with "stopped"
    faults

vars == <<own, stop, active, lease, mu, attempt, window, put, read, stopped, faults>>

Callers == {"cleanup", "late", "delete", "put", "sweep"}
Stages  == {"idle", "revoke", "gate", "started", "child", "done", "ok", "failed"}
Flag    == {"no", "yes"}
Owner   == [phase : {"none", "pending", "ready", "failed", "retired"}, cancelled : Flag,
            run : {"none", "start", "front", "bootstrap", "prove", "exit", "done"},
            started : Flag, child : {"none", "alive", "dead"}, front : Flag, booted : Flag,
            drained : Flag, overdue : Flag, gate : Callers \cup {"none"}]

Fresh == [phase |-> "none", cancelled |-> "no", run |-> "none", started |-> "no", child |-> "none",
          front |-> "no", booted |-> "no", drained |-> "no", overdue |-> "no", gate |-> "none"]

Fault   == faults > 0 /\ faults' = faults - 1
NoFault == UNCHANGED faults
At(q, c, stage) == stop' = [stop EXCEPT ![q][c] = stage]

-----------------------------------------------------------------------------
(* rememberTorAttemptLocked: purge what has expired and is not active, then
   record the attempt; a retired one is refused to an acquisition. *)
Purged == [q \in Requests |-> IF window[q] = "past" /\ active # q THEN "none" ELSE attempt[q]]
Remembered(q, as) == IF window[q] = "past" THEN Purged ELSE [Purged EXCEPT ![q] = as]

(* CreateTor up to the launch: the peer's slot is free. *)
Acquire(q) ==
    /\ mu = "free" /\ put[q] = "idle" /\ active = "none"
    /\ window[q] = "open" /\ Purged[q] # "retired"
    /\ attempt' = Remembered(q, "live")
    /\ active' = q /\ lease' = [retired |-> "no", expired |-> "no"]
    /\ own' = [own EXCEPT ![q] = [Fresh EXCEPT !.phase = "pending", !.run = "start"]]
    /\ put' = [put EXCEPT ![q] = "waiting"]
    /\ UNCHANGED <<stop, mu, window, read, stopped, faults>>

Usable(o) ==
    /\ o.drained = "no" /\ o.front = "yes" /\ o.cancelled = "no" /\ o.child = "alive"
    /\ o.phase = "ready" \/ (o.phase = "pending" /\ o.overdue = "no")

(* The rest of CreateTor: the worker has started and the lease is checked again,
   or the caller is gone; a lease that is not good is deleted (DeleteTor). *)
Created(q) ==
    /\ put[q] = "waiting" /\ mu = "free"
    /\ \/ /\ own[q].started = "yes"
          /\ put' = [put EXCEPT ![q] = IF active = q /\ lease.retired = "no" /\ lease.expired = "no"
                                            /\ Usable(own[q]) THEN "idle" ELSE "abandon"]
       \/ put' = [put EXCEPT ![q] = "abandon"]
    /\ UNCHANGED <<own, stop, active, lease, mu, attempt, window, read, stopped, faults>>

-----------------------------------------------------------------------------
(* fail(): the first failure cancels the worker and starts a clean-up. *)
Failing(o) == IF o.phase \in {"failed", "retired"} THEN o
              ELSE [o EXCEPT !.phase = "failed", !.cancelled = "yes"]
Cleaning(q, o) == IF o.phase \in {"failed", "retired"} THEN stop
                  ELSE [stop EXCEPT ![q]["cleanup"] = "revoke"]

Fail(q, o) == own' = [own EXCEPT ![q] = [Failing(o) EXCEPT !.run = "exit"]] /\ stop' = Cleaning(q, o)

(* run: StartTor returns, with a worker or without, in time or not. *)
RunStart(q) ==
    /\ own[q].run = "start"
    /\ LET up == [own[q] EXCEPT !.child = "alive"] IN
        \/ NoFault /\ own[q].cancelled = "no" /\ own' = [own EXCEPT ![q] = [up EXCEPT !.run = "front"]]
                   /\ UNCHANGED stop
        \/ Fault /\ \E o \in {own[q], up} : Fail(q, o)
        \/ NoFault /\ own[q].cancelled = "yes" /\ \E o \in {own[q], up} : Fail(q, o)
    /\ UNCHANGED <<active, lease, mu, attempt, window, put, read, stopped>>

(* The first receipt: the front of the worker is ready, CreateTor may answer. *)
RunFront(q) ==
    /\ own[q].run = "front"
    /\ \/ /\ own[q].phase = "pending" /\ own[q].child = "alive" /\ UNCHANGED stop
          /\ own' = [own EXCEPT ![q].front = "yes", ![q].started = "yes", ![q].run = "bootstrap"]
       \/ (own[q].phase # "pending" \/ own[q].child # "alive") /\ Fail(q, own[q])
    /\ UNCHANGED <<active, lease, mu, attempt, window, put, read, stopped, faults>>

(* Bootstrap returns; it ends early when its context is cancelled. *)
RunBootstrap(q) ==
    /\ own[q].run = "bootstrap"
    /\ \/ /\ NoFault /\ own[q].cancelled = "no" /\ own[q].child = "alive"
          /\ own' = [own EXCEPT ![q].run = "prove"] /\ UNCHANGED stop
       \/ /\ IF own[q].cancelled = "yes" \/ own[q].child # "alive" THEN NoFault ELSE Fault
          /\ Fail(q, own[q])
    /\ UNCHANGED <<active, lease, mu, attempt, window, put, read, stopped>>

RunProve(q) ==
    /\ own[q].run = "prove"
    /\ IF own[q].phase = "pending" /\ own[q].child = "alive" /\ own[q].overdue = "no"
       THEN own' = [own EXCEPT ![q].booted = "yes", ![q].run = "exit"] /\ UNCHANGED stop
       ELSE Fail(q, own[q])
    /\ UNCHANGED <<active, lease, mu, attempt, window, put, read, stopped, faults>>

(* The deferred end of run: both channels are closed; a worker that is no longer
   wanted is cleaned up once more. *)
RunExit(q) ==
    /\ own[q].run = "exit"
    /\ own' = [own EXCEPT ![q].started = "yes", ![q].run = "done"]
    /\ stop' = IF own[q].cancelled = "yes" THEN [stop EXCEPT ![q]["late"] = "revoke"] ELSE stop
    /\ UNCHANGED <<active, lease, mu, attempt, window, put, read, stopped, faults>>

(* expire: the start-up timer, while the front is not ready, and the bootstrap
   timer, once its deadline has passed. *)
Expire(q) ==
    /\ own[q].phase = "pending"
    /\ own[q].front = "no" \/ own[q].overdue = "yes"
    /\ own' = [own EXCEPT ![q] = Failing(own[q])] /\ stop' = Cleaning(q, own[q])
    /\ UNCHANGED <<active, lease, mu, attempt, window, put, read, stopped, faults>>

-----------------------------------------------------------------------------
(* Stop, called by c.  Revocation is immediate; the join is not. *)
StopRevoke(q, c) ==
    /\ stop[q][c] = "revoke"
    /\ own' = [own EXCEPT ![q].phase = "retired", ![q].cancelled = "yes"]
    /\ At(q, c, "gate")
    /\ UNCHANGED <<active, lease, mu, attempt, window, put, read, stopped, faults>>

(* A Stop that ends leaves the gate; the two clean-ups have no one to tell. *)
End(q, c, result) ==
    /\ own' = [own EXCEPT ![q].gate = IF @ = c THEN "none" ELSE @,
                          ![q].drained = IF result = "ok" THEN "yes" ELSE @]
    /\ At(q, c, IF c \in {"cleanup", "late"} THEN "idle" ELSE result)

StopGate(q, c) ==
    /\ stop[q][c] = "gate"
    /\ IF own[q].gate # "none" THEN End(q, c, "failed")   \* the wait times out
       ELSE IF own[q].drained = "yes" THEN End(q, c, "ok")
       ELSE own' = [own EXCEPT ![q].gate = c] /\ At(q, c, "started")
    /\ UNCHANGED <<active, lease, mu, attempt, window, put, read, stopped, faults>>

StopStarted(q, c) ==
    /\ stop[q][c] = "started"
    /\ IF own[q].started = "yes" THEN At(q, c, "child") /\ UNCHANGED own
       ELSE End(q, c, "failed")
    /\ UNCHANGED <<active, lease, mu, attempt, window, put, read, stopped, faults>>

StopChild(q, c) ==
    /\ stop[q][c] = "child"
    /\ \/ /\ NoFault /\ At(q, c, "done")
          /\ own' = [own EXCEPT ![q].child = IF @ = "alive" THEN "dead" ELSE @]
       \/ Fault /\ own[q].child = "alive" /\ End(q, c, "failed")
    /\ UNCHANGED <<active, lease, mu, attempt, window, put, read, stopped>>

(* Mutant: the child's exit is taken for the end of the worker. *)
MutStopDone(q, c) ==
    /\ stop[q][c] = "done" /\ End(q, c, "ok")
    /\ UNCHANGED <<active, lease, mu, attempt, window, put, read, stopped, faults>>

StopDone(q, c) ==
    /\ stop[q][c] = "done"
    /\ End(q, c, IF own[q].run = "done" THEN "ok" ELSE "failed")
    /\ UNCHANGED <<active, lease, mu, attempt, window, put, read, stopped, faults>>

StopStep(q, c) ==
    StopRevoke(q, c) \/ StopGate(q, c) \/ StopStarted(q, c) \/ StopChild(q, c) \/ StopDone(q, c)

-----------------------------------------------------------------------------
(* DeleteTor up to owner.Stop, for a DELETE request and for an abandoned PUT.
   The attempt is retired whether or not its PUT has arrived. *)
DeleteTor(q, c) ==
    /\ mu = "free" /\ stop[q][c] = "idle"
    /\ IF c = "put" THEN put[q] = "abandon" /\ put' = [put EXCEPT ![q] = "idle"] ELSE UNCHANGED put
    /\ \/ /\ active = q
          /\ attempt' = Remembered(q, "retired") /\ lease' = [lease EXCEPT !.retired = "yes"]
          /\ At(q, c, "revoke") /\ UNCHANGED stopped
       \/ /\ active = "none" /\ attempt' = Remembered(q, "retired")
          /\ stopped' = IF c = "delete" THEN stopped \cup {q} ELSE stopped
          /\ UNCHANGED <<stop, lease>>
       \/ active \notin {q, "none"} /\ UNCHANGED <<attempt, lease, stop, stopped>>
    /\ UNCHANGED <<own, active, mu, window, read, faults>>

(* The rest of DeleteTor, under the manager's lock again. *)
Deleted(q, c) ==
    /\ mu = "free" /\ stop[q][c] \in {"ok", "failed"}
    /\ At(q, c, "idle")
    /\ active' = IF own[q].drained = "yes" /\ stop[q][c] = "ok" /\ active = q THEN "none" ELSE active
    /\ stopped' = IF stop[q][c] = "ok" /\ c = "delete" THEN stopped \cup {q} ELSE stopped
    /\ UNCHANGED <<own, lease, mu, attempt, window, put, read, faults>>

Terminal(o) ==
    \/ o.phase \in {"failed", "retired"} \/ o.cancelled = "yes"
    \/ (o.phase = "pending" /\ o.overdue = "yes") \/ o.child = "dead"

(* Mutant: only expired leases are swept. *)
MutSweepExpired(q) ==
    /\ mu = "free" /\ active = q /\ lease.expired = "yes"
    /\ mu' = "sweep" /\ At(q, "sweep", "revoke")
    /\ lease' = [lease EXCEPT !.retired = "yes"] /\ attempt' = Remembered(q, "retired")
    /\ UNCHANGED <<own, active, window, put, read, stopped, faults>>

(* Sweep, and the reaping in Create and CreateTor: Stop is called with the
   manager's lock held. *)
Sweep(q) ==
    /\ mu = "free" /\ active = q /\ (lease.expired = "yes" \/ Terminal(own[q]))
    /\ mu' = "sweep" /\ At(q, "sweep", "revoke")
    /\ lease' = [lease EXCEPT !.retired = "yes"] /\ attempt' = Remembered(q, "retired")
    /\ UNCHANGED <<own, active, window, put, read, stopped, faults>>

Swept(q) ==
    /\ stop[q]["sweep"] \in {"ok", "failed"} /\ mu = "sweep"
    /\ At(q, "sweep", "idle") /\ mu' = "free"
    /\ active' = IF stop[q]["sweep"] = "ok" THEN "none" ELSE active
    /\ UNCHANGED <<own, lease, attempt, window, put, read, stopped, faults>>

-----------------------------------------------------------------------------
(* torStatus: the checks, then the worker is asked outside the lock. *)
StatusBegin(q) ==
    /\ mu = "free" /\ read[q] = "idle"
    /\ active = q /\ lease.retired = "no" /\ lease.expired = "no"
    /\ read' = [read EXCEPT ![q] = "asking"]
    /\ UNCHANGED <<own, stop, active, lease, mu, attempt, window, put, stopped, faults>>

(* snapshot: a worker may say ready before its Bootstrap call has returned, and
   pending after it; a live caller fails one that does not answer properly, and a
   caller that has gone, or finds it revoked, changes nothing. *)
Snapshot(q) ==
    /\ read[q] = "asking"
    /\ LET o == own[q]
           asked == o.front = "yes" /\ o.phase \in {"pending", "ready"} IN
        \/ /\ asked /\ o.child = "alive" /\ NoFault /\ UNCHANGED <<own, stop>>
           /\ \E r \in {"pending", "ready"} :
                 (r = "ready" => o.run \in {"bootstrap", "prove", "exit", "done"})
                 /\ read' = [read EXCEPT ![q] = r]
        \/ /\ asked /\ IF o.child = "alive" THEN Fault ELSE NoFault
           /\ read' = [read EXCEPT ![q] = "idle"]
           /\ own' = [own EXCEPT ![q] = Failing(o)] /\ stop' = Cleaning(q, o)
        \/ read' = [read EXCEPT ![q] = "idle"] /\ NoFault /\ UNCHANGED <<own, stop>>
    /\ UNCHANGED <<active, lease, mu, attempt, window, put, stopped>>

(* Mutant: the owner is not looked at again after the read, its lease only. *)
MutAdopt(q) ==
    /\ read[q] \in {"pending", "ready"} /\ mu = "free"
    /\ own' = IF active = q /\ lease.retired = "no" /\ lease.expired = "no"
                 /\ read[q] = "ready" /\ own[q].booted = "yes"
              THEN [own EXCEPT ![q].phase = "ready"] ELSE own
    /\ read' = [read EXCEPT ![q] = "idle"]
    /\ UNCHANGED <<stop, active, lease, mu, attempt, window, put, stopped, faults>>

(* Back under the lock: everything is checked again, and adoptReceipt publishes
   Ready once the bootstrap is proved. *)
Adopt(q) ==
    /\ read[q] \in {"pending", "ready"} /\ mu = "free"
    /\ own' = IF active = q /\ lease.retired = "no" /\ lease.expired = "no" /\ Usable(own[q])
                 /\ read[q] = "ready" /\ own[q].booted = "yes"
              THEN [own EXCEPT ![q].phase = "ready"] ELSE own
    /\ read' = [read EXCEPT ![q] = "idle"]
    /\ UNCHANGED <<stop, active, lease, mu, attempt, window, put, stopped, faults>>

(* Time: the lease, the bootstrap deadline, the acquisition window.  A worker
   may also die. *)
Pass(q) ==
    /\ \/ /\ active = q /\ lease.expired = "no" /\ lease' = [lease EXCEPT !.expired = "yes"]
          /\ UNCHANGED <<own, window>>
       \/ /\ own[q].phase = "pending" /\ own[q].overdue = "no"
          /\ own' = [own EXCEPT ![q].overdue = "yes"] /\ UNCHANGED <<lease, window>>
       \/ /\ window[q] = "open" /\ window' = [window EXCEPT ![q] = "past"] /\ UNCHANGED <<own, lease>>
       \/ /\ own[q].child = "alive" /\ own' = [own EXCEPT ![q].child = "dead"]
          /\ UNCHANGED <<lease, window>>
    /\ UNCHANGED <<stop, active, mu, attempt, put, read, stopped, faults>>

-----------------------------------------------------------------------------
Init ==
    /\ own = [q \in Requests |-> Fresh] /\ stop = [q \in Requests |-> [c \in Callers |-> "idle"]]
    /\ active = "none" /\ lease = [retired |-> "no", expired |-> "no"] /\ mu = "free"
    /\ attempt = [q \in Requests |-> "none"] /\ window = [q \in Requests |-> "open"]
    /\ put = [q \in Requests |-> "idle"] /\ read = put /\ stopped = {} /\ faults = MaxFaults

Run(q)    == RunStart(q) \/ RunFront(q) \/ RunBootstrap(q) \/ RunProve(q) \/ RunExit(q)
Finish(q) == Created(q) \/ Snapshot(q) \/ Adopt(q) \/ DeleteTor(q, "put")

Next ==
    \E q \in Requests :
        \/ Acquire(q) \/ Finish(q) \/ Run(q) \/ Expire(q) \/ Sweep(q) \/ Swept(q)
        \/ "delete" \in Calls /\ DeleteTor(q, "delete")
        \/ "status" \in Calls /\ StatusBegin(q)
        \/ Pass(q)
        \/ \E c \in Callers : StopStep(q, c)
        \/ \E c \in {"delete", "put"} : Deleted(q, c)

Spec == Init /\ [][Next]_vars

(* Goroutines run and blocking calls return: StartTor and Bootstrap when their
   context is cancelled at the latest, waits of a Stop after three seconds.  The
   sweep fires every second, but has to compete for the lock. *)
FairSpec ==
    /\ Spec
    /\ \A q \in Requests : WF_vars(Run(q)) /\ SF_vars(Sweep(q)) /\ WF_vars(Swept(q))
    /\ \A q \in Requests : \A c \in Callers : WF_vars(StopStep(q, c))

-----------------------------------------------------------------------------
(* The owners are well formed; one that has drained holds nothing any more: its
   worker's goroutine is over and its process is dead. *)
TypeOK ==
    /\ own \in [Requests -> Owner] /\ stop \in [Requests -> [Callers -> Stages]]
    /\ active \in Requests \cup {"none"} /\ lease \in [retired : Flag, expired : Flag]
    /\ mu \in {"free", "sweep"} /\ attempt \in [Requests -> {"none", "live", "retired"}]
    /\ window \in [Requests -> {"open", "past"}]
    /\ put \in [Requests -> {"idle", "waiting", "abandon"}]
    /\ read \in [Requests -> {"idle", "asking", "pending", "ready"}]
    /\ stopped \subseteq Requests /\ faults \in Nat
    /\ \A q \in Requests : stop[q]["sweep"] # "idle" => mu = "sweep" /\ active = q

(* A lease leaves the table, and its port is free, only when the worker's
   goroutine has ended and its process is dead: also for a worker that came up
   after the Stop that should have ended it (the comment at Alive). *)
ReleasedIsJoined ==
    \A q \in Requests : own[q].phase # "none" /\ active # q
        => own[q].run = "done" /\ own[q].child # "alive"

(* An owner that failed or was revoked never offers anything again, although the
   receipts of its worker are read without a lock and arrive late: delayed receipts,
   timers and a bootstrap that succeeds late come to nothing (torStatus, fail). *)
RevokedForGood ==
    [][\A q \in Requests : own[q].cancelled = "yes"
          => own'[q].cancelled = "yes" /\ own'[q].phase \in {"failed", "retired"}]_vars

(* After a DELETE was answered its PUT acquires nothing, in whatever order the
   two arrive, and however late (the comment in DeleteTor). *)
NoTorResurrection == \A q \in stopped : active # q

(* An owner that failed or was revoked is released in the end: no Stop call and
   no lock waits for ever, and a worker that comes up late is found. *)
RevokedIsReleased ==
    \A q \in Requests : own[q].cancelled = "yes" ~> active # q
=============================================================================
