-------------------------- MODULE UpdateController --------------------------
(***************************************************************************)
(* The exact-SHA update controller (cmd/update-controller): one process    *)
(* that replaces the Portainer stack of the production server in two       *)
(* phases and rolls it back when anything goes wrong.                      *)
(*                                                                         *)
(* The HTTP handler applyUpdate runs once per request, several requests at *)
(* a time; the goroutine reconcileRecovery runs once after every start of  *)
(* the process, next to the handlers.  A step of the model is one piece of *)
(* that code that nothing of the controller can interleave with: a section *)
(* under c.mu, one file operation, one Portainer call.                     *)
(*                                                                         *)
(* A compose file is what the controller distinguishes in it: the SHA of   *)
(* the updater image and the SHA that the header, the broker provenance    *)
(* and the other eight owned images carry.                                 *)
(***************************************************************************)
EXTENDS Integers, FiniteSets

CONSTANTS
    SHA,                   \* full commit SHAs of releases
    Descends,              \* <<a, b>>: GitHub compare proves b strictly ahead of a
    Requests,              \* concurrent POST /api/admin/update/apply handlers
    Recovery,              \* the goroutine reconcileFinalizing
    NoSHA,                 \* the empty string / no snapshot file
    Unknown,               \* composeSHA of a compose that is not one exact SHA
    Malformed,             \* a non-empty request target that is no full SHA
    MaxFaults              \* bound: I/O errors, timeouts and crashes in a behaviour

ASSUME ConstantsAssumption ==
    /\ Descends \subseteq SHA \X SHA
    /\ \A a \in SHA : <<a, a>> \notin Descends
    /\ {NoSHA, Unknown, Malformed} \cap SHA = {}
    /\ NoSHA # Malformed /\ Unknown # Malformed /\ NoSHA # Unknown
    /\ Recovery \notin Requests
    /\ MaxFaults \in Nat

VARIABLES
    disk,    \* the durable updateState (c.statePath)
    mem,     \* c.state
    snap,    \* SHA of the private rollback compose, or NoSHA when there is no file
    stack,   \* the compose file Portainer holds and deploys
    health,  \* history: "seen" once waitCoreHealthy succeeded after the last PUT
    pc,      \* where each goroutine is
    job,     \* each goroutine's local state, from and target
    faults,  \* faults the environment may still inject
    races    \* history: the unlocked interleavings that have happened

durable == <<disk, mem>>
world   == <<stack, health>>
vars    == <<disk, mem, snap, stack, health, pc, job, faults, races>>

Procs    == Requests \cup {Recovery}
Busy     == {"applying", "finalizing", "rolling-back"}
Terminal == {"complete", "failed"}
Statuses == {"idle"} \cup Busy \cup Terminal

UpdateState(status, from, target) ==
    [status |-> status, from |-> from, target |-> target]

States  == [status : Statuses, from : SHA \cup {NoSHA},
            target : SHA \cup {NoSHA, Malformed}]
Compose == [core : SHA, updater : SHA]
Idle    == UpdateState("idle", NoSHA, NoSHA)

(***************************************************************************)
(* The compose files.                                                      *)
(***************************************************************************)
Exact(sha) == [core |-> sha, updater |-> sha]

composeSHA(content) ==
    IF content.core = content.updater THEN content.core ELSE Unknown

preserveUpdater(target, current) ==
    [target EXCEPT !.updater = current.updater]

exactComposeIdentity(content, expected) ==
    expected \in SHA /\ composeSHA(content) = expected

(***************************************************************************)
(* The durable state.  A state that does not validate is neither written   *)
(* nor loaded.                                                             *)
(***************************************************************************)
validateUpdateState(s) ==
    /\ s.status \in Statuses
    /\ s.from \in SHA \cup {NoSHA}
    /\ s.target \in SHA \cup {NoSHA}
    /\ s.status = "idle" => s.from = NoSHA /\ s.target = NoSHA
    /\ s.status \in {"applying", "failed"} => s.target # NoSHA
    /\ s.status \in {"finalizing", "rolling-back", "complete"} =>
           s.from # NoSHA /\ s.target # NoSHA

(* An I/O error, a time-out or a crash, out of a bounded supply. *)
Fault   == faults > 0 /\ faults' = faults - 1
NoFault == UNCHANGED faults

(* A goroutine goes on with these locals, or with the ones it has; a goroutine
   that ends, or only has a file left to remove, has none. *)
Enter(p, label, locals) ==
    /\ pc' = [pc EXCEPT ![p] = label]
    /\ job' = [job EXCEPT ![p] = locals]

Goto(p, label) ==
    Enter(p, label, IF label \in {"free", "retire", "cleanRemove"} THEN Idle ELSE job[p])

(* persistStateLocked under c.mu: the rename is the commit point, c.state
   follows it, and an error leaves the file and c.state as they were. *)
persistStateLocked(next) ==
    /\ validateUpdateState(next)
    /\ disk' = next
    /\ mem' = next

persistRecoveryState(p, next, ok, err) ==
    \/ persistStateLocked(next) /\ Goto(p, ok) /\ NoFault
    \/ Fault /\ UNCHANGED durable /\ Goto(p, err)

(* Portainer calls.  A PUT that reports an error (the client gives up after
   90 s) may have taken effect or not. *)
putStack(p, content, ok, err) ==
    /\ health' = "unseen"
    /\ \/ stack' = content /\ Goto(p, ok) /\ NoFault
       \/ stack' \in {stack, content} /\ Goto(p, err) /\ Fault

waitCoreHealthy(p, ok, err) ==
    /\ UNCHANGED stack
    /\ \/ health' = "seen" /\ Goto(p, ok)
       \/ UNCHANGED health /\ Goto(p, err)

(* clearTerminalRollbackSnapshot(state) reaches os.Remove only for a snapshot
   that the terminal state names; it refuses any other one. *)
snapshotClearable(state) ==
    snap = NoSHA \/ (state.status \in Terminal /\ state.from \in SHA /\ snap = state.from)

-----------------------------------------------------------------------------
(***************************************************************************)
(* applyUpdate.                                                            *)
(***************************************************************************)

(* Nothing in the code makes a request wait for a goroutine that still has to
   remove a snapshot without holding c.mu: the recovery goroutine after its
   copy of a terminal state, or the one that wrote the last terminal state. *)
Cleanup == {"cleanCheck", "cleanRemove", "retire"}

(* The goroutine is between the admission, or recovery's copy of an unfinished
   state, and the write that ends the update or gives it up. *)
InUpdate(p) == pc[p] \notin {"free", "boot"} \cup Cleanup

(* The request is admitted while such a removal is still to come. *)
OvertakesCleanup ==
    races' = races \cup (IF \E p \in Procs : pc[p] \in Cleanup THEN {"overtaken"} ELSE {})

(* Recovery takes the state of a running request for that of an update that a
   restart interrupted. *)
AdoptsLiveRequest ==
    races' = races \cup
             (IF mem.status \in Busy /\ \E r \in Requests : InUpdate(r) THEN {"adopted"} ELSE {})

(* Mutant: an update that is still being verified does not count as busy. *)
MutAdmitForgetsApplying(r, sha) ==
    /\ pc[r] = "free"
    /\ OvertakesCleanup
    /\ mem.status \notin {"finalizing", "rolling-back"}
    /\ snapshotClearable(mem)
    /\ snap' = NoSHA
    /\ persistStateLocked(UpdateState("applying", NoSHA, sha))
    /\ Enter(r, "discover", UpdateState("applying", NoSHA, sha))
    /\ UNCHANGED <<world, faults>>

(* The section under c.mu that admits a request. *)
applyAdmit(r, sha) ==
    /\ pc[r] = "free"
    /\ OvertakesCleanup
    /\ mem.status \notin Busy
    /\ snapshotClearable(mem)
    /\ snap' = NoSHA
    /\ \/ /\ persistStateLocked(UpdateState("applying", NoSHA, sha))
          /\ Enter(r, "discover", UpdateState("applying", NoSHA, sha))
          /\ NoFault
       \/ /\ ~ validateUpdateState(UpdateState("applying", NoSHA, sha))
          /\ UNCHANGED <<durable, pc, job, faults>>
       \/ /\ Fault
          /\ UNCHANGED <<durable, pc, job>>
    /\ UNCHANGED world

(* findStack, stackFile, composeSHA(previous). *)
applyDiscover(r) ==
    /\ pc[r] = "discover"
    /\ LET from == composeSHA(stack) IN
       \/ /\ from \in SHA
          /\ Enter(r, IF from = job[r].target THEN "noop" ELSE "verify", [job[r] EXCEPT !.from = from])
          /\ NoFault
       \/ from \notin SHA /\ Goto(r, "fail") /\ NoFault
       \/ Fault /\ Goto(r, "fail")
    /\ UNCHANGED <<durable, snap, world, races>>

(* The requested SHA is already deployed. *)
applyNoop(r) ==
    /\ pc[r] = "noop"
    /\ persistRecoveryState(r, [job[r] EXCEPT !.status = "complete"], "free", "free")
    /\ UNCHANGED <<snap, world, races>>

(* verifyStrictUpgrade and targetCompose: GitHub may refuse any target, and
   accepts only a strict descendant. *)
applyVerify(r) ==
    /\ pc[r] = "verify"
    /\ \/ <<job[r].from, job[r].target>> \in Descends /\ Goto(r, "save")
       \/ Goto(r, "fail")
    /\ UNCHANGED <<durable, snap, world, faults, races>>

(* saveRollbackCompose refuses to overwrite a snapshot. *)
applySave(r) ==
    /\ pc[r] = "save"
    /\ \/ snap = NoSHA /\ snap' = job[r].from /\ Goto(r, "checkpoint") /\ NoFault
       \/ snap # NoSHA /\ UNCHANGED snap /\ Goto(r, "fail") /\ NoFault
       \/ Fault /\ UNCHANGED snap /\ Goto(r, "fail")
    /\ UNCHANGED <<durable, world, races>>

(* Mutant: the error of the checkpoint is ignored. *)
MutCheckpointErrorIgnored(r) ==
    /\ pc[r] = "checkpoint"
    /\ persistRecoveryState(r, job[r], "put1", "put1")
    /\ UNCHANGED <<snap, world, races>>

(* The checkpoint that names from_sha, before the first PUT. *)
applyCheckpoint(r) ==
    /\ pc[r] = "checkpoint"
    /\ persistRecoveryState(r, job[r], "put1", "unsave")
    /\ UNCHANGED <<snap, world, races>>

(* clearRollbackCompose after the checkpoint failed; its error is ignored. *)
applyUnsave(r) ==
    /\ pc[r] = "unsave"
    /\ \/ snap' = NoSHA /\ NoFault
       \/ Fault /\ UNCHANGED snap
    /\ Goto(r, "fail")
    /\ UNCHANGED <<durable, world, races>>

(* failState takes from_sha out of c.state. *)
failState(r) ==
    /\ pc[r] = "fail"
    /\ persistRecoveryState(r, UpdateState("failed", mem.from, job[r].target), "free", "free")
    /\ UNCHANGED <<snap, world, races>>

applyPhaseOne(r) ==
    /\ pc[r] = "put1"
    /\ putStack(r, preserveUpdater(Exact(job[r].target), Exact(job[r].from)), "wait1", "rollback")
    /\ UNCHANGED <<durable, snap, races>>

applyWaitOne(r) ==
    /\ pc[r] = "wait1"
    /\ waitCoreHealthy(r, "finalize", "rollback")
    /\ UNCHANGED <<durable, snap, faults, races>>

applyFinalize(r) ==
    /\ pc[r] = "finalize"
    /\ persistRecoveryState(r, [job[r] EXCEPT !.status = "finalizing"], "put2", "rollback")
    /\ UNCHANGED <<snap, world, races>>

applyPhaseTwo(r) ==
    /\ pc[r] = "put2"
    /\ putStack(r, Exact(job[r].target), "wait2", "rollback")
    /\ UNCHANGED <<durable, snap, races>>

applyWaitTwo(r) ==
    /\ pc[r] = "wait2"
    /\ waitCoreHealthy(r, "identify", "rollback")
    /\ UNCHANGED <<durable, snap, faults, races>>

applyIdentify(r) ==
    /\ pc[r] = "identify"
    /\ \/ /\ Goto(r, IF composeSHA(stack) = job[r].target THEN "complete" ELSE "rollback")
          /\ NoFault
       \/ Fault /\ Goto(r, "rollback")
    /\ UNCHANGED <<durable, snap, world, races>>

-----------------------------------------------------------------------------
(***************************************************************************)
(* Shared by the handler and the recovery goroutine.                       *)
(***************************************************************************)

(* Mutant: the snapshot is removed along with the attempt to persist complete. *)
MutCompleteClearsFirst(p) ==
    /\ pc[p] = "complete"
    /\ persistRecoveryState(p, [job[p] EXCEPT !.status = "complete"], "free", "free")
    /\ snap' = NoSHA
    /\ UNCHANGED <<world, races>>

completeRecoveredUpdate(p) ==
    /\ pc[p] = "complete"
    /\ persistRecoveryState(p, [job[p] EXCEPT !.status = "complete"], "retire", "free")
    /\ UNCHANGED <<snap, world, races>>

clearRollbackCompose(p) ==
    /\ pc[p] = "retire"
    /\ \/ snap' = NoSHA /\ NoFault
       \/ Fault /\ UNCHANGED snap
    /\ Goto(p, "free")
    /\ UNCHANGED <<durable, world, races>>

(* rollbackAfterDeploymentFailure goes on when this first write fails. *)
rollbackBegin(p) ==
    /\ pc[p] = "rollback"
    /\ persistRecoveryState(p, [job[p] EXCEPT !.status = "rolling-back"], "load", "load")
    /\ UNCHANGED <<snap, world, races>>

loadRollbackCompose(p) ==
    /\ pc[p] = "load"
    /\ \/ Goto(p, IF snap = job[p].from THEN "probe" ELSE "incomplete") /\ NoFault
       \/ Fault /\ Goto(p, "incomplete")
    /\ UNCHANGED <<durable, snap, world, races>>

(* Is the previous stack already back? *)
restoreProbe(p) ==
    /\ pc[p] = "probe"
    /\ \/ /\ Goto(p, IF exactComposeIdentity(stack, job[p].from) THEN "probeWait" ELSE "restore")
          /\ NoFault
       \/ Fault /\ Goto(p, "restore")
    /\ UNCHANGED <<durable, snap, world, races>>

restoreProbeWait(p) ==
    /\ pc[p] = "probeWait"
    /\ waitCoreHealthy(p, "restored", "restore")
    /\ UNCHANGED <<durable, snap, faults, races>>

restorePut(p) ==
    /\ pc[p] = "restore"
    /\ putStack(p, Exact(job[p].from), "restoreWait", "incomplete")
    /\ UNCHANGED <<durable, snap, races>>

(* The previous release was healthy; that it is not when restored is a fault. *)
restoreWait(p) ==
    /\ pc[p] = "restoreWait"
    /\ \/ Goto(p, "restoreIdentify") /\ health' = "seen" /\ NoFault
       \/ Goto(p, "incomplete") /\ UNCHANGED health /\ Fault
    /\ UNCHANGED <<durable, snap, stack, races>>

restoreIdentify(p) ==
    /\ pc[p] = "restoreIdentify"
    /\ \/ /\ Goto(p, IF exactComposeIdentity(stack, job[p].from) THEN "restored" ELSE "incomplete")
          /\ NoFault
       \/ Fault /\ Goto(p, "incomplete")
    /\ UNCHANGED <<durable, snap, world, races>>

(* Mutant: a rollback that did not complete is called failed. *)
MutIncompleteIsFailed(p) ==
    /\ pc[p] = "incomplete"
    /\ persistRecoveryState(p, [job[p] EXCEPT !.status = "failed"], "free", "free")
    /\ UNCHANGED <<snap, world, races>>

rollbackIncomplete(p) ==
    /\ pc[p] = "incomplete"
    /\ persistRecoveryState(p, [job[p] EXCEPT !.status = "rolling-back"], "free", "free")
    /\ UNCHANGED <<snap, world, races>>

rollbackComplete(p) ==
    /\ pc[p] = "restored"
    /\ persistRecoveryState(p, [job[p] EXCEPT !.status = "failed"], "retire", "free")
    /\ UNCHANGED <<snap, world, races>>

-----------------------------------------------------------------------------
(***************************************************************************)
(* reconcileRecovery.  The goroutine copies c.state under c.mu and acts on *)
(* the copy after releasing it.  main starts it right before it serves     *)
(* HTTP, so a request may be admitted before the copy is taken.            *)
(***************************************************************************)
(* Mutant: an interrupted rollback is not resumed. *)
MutDispatchDropsRollback(p) ==
    /\ p = Recovery
    /\ pc[p] = "boot"
    /\ AdoptsLiveRequest
    /\ Enter(p, CASE mem.status \notin {"applying", "finalizing"} -> "cleanCheck"
                  [] mem.status = "applying" /\ mem.from = NoSHA -> "closeEarly"
                  [] OTHER -> "find", mem)
    /\ UNCHANGED <<durable, snap, world, faults>>

recoveryDispatch(p) ==
    /\ p = Recovery
    /\ pc[p] = "boot"
    /\ AdoptsLiveRequest
    /\ Enter(p, CASE mem.status \notin Busy -> "cleanCheck"
                  [] mem.status = "applying" /\ mem.from = NoSHA -> "closeEarly"
                  [] OTHER -> "find", mem)
    /\ UNCHANGED <<durable, snap, world, faults>>

(* clearTerminalRollbackSnapshot without the lock: inspect, then remove. *)
recoveryCleanCheck(p) ==
    /\ pc[p] = "cleanCheck"
    /\ \/ /\ Goto(p, IF snap # NoSHA /\ snapshotClearable(job[p]) THEN "cleanRemove" ELSE "free")
          /\ NoFault
       \/ Fault /\ Goto(p, "free")
    /\ UNCHANGED <<durable, snap, world, races>>

recoveryCleanRemove(p) ==
    /\ pc[p] = "cleanRemove"
    /\ \/ snap' = NoSHA /\ NoFault
       \/ Fault /\ UNCHANGED snap
    /\ Goto(p, "free")
    /\ UNCHANGED <<durable, world, races>>

(* An empty from_sha: the interrupted update had not reached Portainer. *)
recoveryCloseEarly(p) ==
    /\ pc[p] = "closeEarly"
    /\ persistRecoveryState(p, UpdateState("failed", NoSHA, job[p].target), "free", "free")
    /\ UNCHANGED <<snap, world, races>>

recoveryFind(p) ==
    /\ pc[p] = "find"
    /\ \/ /\ Goto(p, IF job[p].status = "finalizing" THEN "probeTarget" ELSE "rollback")
          /\ NoFault
       \/ Fault /\ Goto(p, "free")
    /\ UNCHANGED <<durable, snap, world, races>>

(* Mutant: a finalizing update is accepted on health alone. *)
MutProbeSkipsIdentity(p) ==
    /\ pc[p] = "probeTarget"
    /\ Goto(p, "waitTarget")
    /\ UNCHANGED <<durable, snap, world, faults, races>>

recoveryProbeTarget(p) ==
    /\ pc[p] = "probeTarget"
    /\ \/ /\ Goto(p, IF exactComposeIdentity(stack, job[p].target) THEN "waitTarget" ELSE "rollback")
          /\ NoFault
       \/ Fault /\ Goto(p, "rollback")
    /\ UNCHANGED <<durable, snap, world, races>>

recoveryWaitTarget(p) ==
    /\ pc[p] = "waitTarget"
    /\ waitCoreHealthy(p, "complete", "rollback")
    /\ UNCHANGED <<durable, snap, faults, races>>

(* The process dies anywhere (the second PUT replaces its own container), or is
   restarted while nothing runs, and starts again: every goroutine is gone,
   loadState reads the file back. *)
Restart ==
    /\ \/ Fault
       \/ (\A p \in Procs : pc[p] = "free") /\ NoFault
    /\ validateUpdateState(disk)
    /\ mem' = disk
    /\ pc' = [p \in Procs |-> IF p = Recovery THEN "boot" ELSE "free"]
    /\ job' = [p \in Procs |-> Idle]
    /\ UNCHANGED <<disk, snap, world, races>>

-----------------------------------------------------------------------------
Init ==
    /\ disk = Idle
    /\ mem = Idle
    /\ snap = NoSHA
    /\ stack \in Compose
    /\ health = "unseen"
    /\ pc = [p \in Procs |-> IF p = Recovery THEN "boot" ELSE "free"]
    /\ job = [p \in Procs |-> Idle]
    /\ faults = MaxFaults
    /\ races = {}

ApplyStep(r) ==
    \/ applyDiscover(r) \/ applyNoop(r) \/ applyVerify(r) \/ applySave(r)
    \/ applyCheckpoint(r) \/ applyUnsave(r) \/ failState(r)
    \/ applyPhaseOne(r) \/ applyWaitOne(r) \/ applyFinalize(r)
    \/ applyPhaseTwo(r) \/ applyWaitTwo(r) \/ applyIdentify(r)

RollbackStep(p) ==
    \/ rollbackBegin(p) \/ loadRollbackCompose(p) \/ restoreProbe(p)
    \/ restoreProbeWait(p) \/ restorePut(p) \/ restoreWait(p)
    \/ restoreIdentify(p) \/ rollbackIncomplete(p) \/ rollbackComplete(p)

RecoveryStep(p) ==
    \/ recoveryDispatch(p) \/ recoveryCleanCheck(p) \/ recoveryCleanRemove(p)
    \/ recoveryCloseEarly(p) \/ recoveryFind(p) \/ recoveryProbeTarget(p)
    \/ recoveryWaitTarget(p)

Step(p) ==
    \/ ApplyStep(p)
    \/ completeRecoveredUpdate(p) \/ clearRollbackCompose(p)
    \/ RollbackStep(p)
    \/ RecoveryStep(p)

Next ==
    \/ \E r \in Requests, sha \in SHA \cup {Malformed} : applyAdmit(r, sha)
    \/ \E p \in Procs : Step(p)
    \/ Restart

Spec == Init /\ [][Next]_vars

(* A goroutine that can run does run; requests and crashes are not promised. *)
FairSpec == Spec /\ \A p \in Procs : WF_vars(Step(p))

-----------------------------------------------------------------------------
(***************************************************************************)
(* Properties.                                                             *)
(***************************************************************************)
Labels ==
    {"free", "discover", "noop", "verify", "save", "checkpoint", "unsave", "fail",
     "put1", "wait1", "finalize", "put2", "wait2", "identify", "complete", "retire",
     "rollback", "load", "probe", "probeWait", "restore", "restoreWait",
     "restoreIdentify", "restored", "incomplete",
     "boot", "cleanCheck", "cleanRemove", "closeEarly", "find", "probeTarget", "waitTarget"}

(* The type invariant; what c.state and the state file hold always validates,
   so a restart can load it, and the two never differ. *)
TypeOK ==
    /\ disk \in States /\ validateUpdateState(disk)
    /\ mem = disk
    /\ snap \in SHA \cup {NoSHA}
    /\ stack \in Compose
    /\ health \in {"seen", "unseen"}
    /\ pc \in [Procs -> Labels]
    /\ job \in [Procs -> States]
    /\ faults \in 0..MaxFaults
    /\ races \subseteq {"adopted", "overtaken"}

(* The snapshot outlives the danger: whenever the durable state says that an
   update with a known previous SHA is unfinished, the private snapshot of
   exactly that SHA exists, so the rollback that a restart would run can load
   it (recovery.go, saveRollbackCompose ... clearRollbackCompose). *)
RollbackSnapshotRetained ==
    disk.status \in Busy /\ disk.from # NoSHA => snap = disk.from

(* The snapshot is lost in two ways only: a request was admitted while a removal
   of the previous snapshot was still to come, or recovery adopted a live request.
   Failed writes, crashes anywhere and rollbacks never lose it. *)
SnapshotRetainedUnlessRaced ==
    races = {} => RollbackSnapshotRetained

(* Terminal states tell the truth.  failed with a from_sha means that the
   previous exact stack is back and was seen healthy since the last PUT;
   complete means that the exact target is deployed, and that it was seen
   healthy and is a strict descendant unless nothing had to be deployed. *)
TerminalStateTruthful ==
    /\ disk.status = "failed" /\ disk.from # NoSHA =>
           stack = Exact(disk.from) /\ health = "seen"
    /\ disk.status = "complete" =>
           /\ stack = Exact(disk.target)
           /\ \/ disk.from = disk.target
              \/ health = "seen" /\ <<disk.from, disk.target>> \in Descends

(* They do so unless recovery has adopted a live request, also when a snapshot
   was lost to a request that overtook a clean-up: the rollback that misses it
   stays rolling-back. *)
TruthfulUnlessAdopted ==
    "adopted" \notin races => TerminalStateTruthful

(* c.mu is released between the steps of an update; what keeps a second request
   out is the busy status that every one of its writes leaves behind, until the
   last one.  It does not keep recovery out, whose copy comes when it comes: no
   two goroutines are inside an update unless it has adopted a live request. *)
SingleTransaction ==
    "adopted" \notin races =>
        \A p, q \in Procs : p # q => ~(InUpdate(p) /\ InUpdate(q))

(* Portainer is written only inside a durable transaction that names the
   previous SHA, so an empty from_sha proves after a restart that the mutation
   boundary was not reached (reconcileRecovery), unless recovery adopted a live
   request; and the snapshot is there, unless a clean-up was overtaken. *)
MutationIsCovered ==
    [][stack' # stack =>
         /\ "adopted" \notin races => disk.status \in Busy /\ disk.from \in SHA
         /\ races = {} => snap = disk.from]_vars

(* A snapshot that is left behind can be attributed to the terminal update that
   failed to remove it (the comment in applyUpdate). *)
StaleSnapshotAttributable ==
    disk.status \notin Busy => snapshotClearable(disk)

(* Once the environment stops failing, a restart that finds an unfinished
   update brings it to a terminal state, unless a race has cost the snapshot that
   it needs or had it adopt a live request. *)
RecoveryTerminates ==
    (faults = 0 /\ pc[Recovery] = "boot") ~> (disk.status \notin Busy \/ races # {})

(* The release that the server is at and the one it is moving to: while the
   durable state describes an open transaction, it is still at the previous
   one, whatever mixture Portainer holds. *)
InTransaction  == disk.status \in Busy /\ disk.from # NoSHA
CurrentRelease == IF InTransaction THEN disk.from ELSE composeSHA(stack)
PendingRelease == IF InTransaction THEN disk.target ELSE NoSHA

Deployment == INSTANCE AtomicDeployment
              WITH current <- CurrentRelease, pending <- PendingRelease,
                   void <- "adopted" \in races

(* Two PUTs, their failures, the restarts, the rollbacks and the overtaken
   clean-ups add up to atomic steps from one exact release to a strict
   descendant, or none, as long as recovery adopts no live request. *)
ImplementsAtomicDeployment == Deployment!Spec
=============================================================================
