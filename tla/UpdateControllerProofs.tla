----------------------- MODULE UpdateControllerProofs -----------------------
(***************************************************************************)
(* Proofs about UpdateController and AutoUpdate, for any set of releases   *)
(* and of requests, any number of faults and every interleaving: nothing   *)
(* but ConstantsAssumption is assumed.                                     *)
(***************************************************************************)
EXTENDS AutoUpdate, WellFoundedInduction, TLAPS

(* A goroutine before the checkpoint that names from_sha, and after it. *)
Early == {"discover", "noop", "verify", "save", "checkpoint", "unsave", "fail", "closeEarly"}
Late  == {"put1", "wait1", "finalize", "put2", "wait2", "identify", "complete",
          "rollback", "load", "probe", "probeWait", "restore", "restoreWait",
          "restoreIdentify", "restored", "incomplete", "find", "probeTarget", "waitTarget"}

(* What a goroutine's position says of its own locals, whatever the others do. *)
LocalInv(p) ==
    /\ pc[p] \in Early => job[p].target \in SHA
    /\ pc[p] \in Early \ {"fail", "closeEarly"} => job[p].status = "applying"
    /\ pc[p] \in {"noop", "verify"} => job[p].from \in SHA
    /\ pc[p] = "noop" => job[p].from = job[p].target
    /\ pc[p] \in {"save", "checkpoint", "unsave"} \cup Late =>
           <<job[p].from, job[p].target>> \in Descends

(* A durable transaction that names from_sha is a strict upgrade. *)
UpgradeOnly ==
    disk.status \in Busy /\ disk.from # NoSHA => <<disk.from, disk.target>> \in Descends

(* What its position says of the file, the stack and the health, as long as it
   is alone in its update. *)
GoroutineInv(p) ==
    /\ pc[p] \in Early =>
           disk = UpdateState("applying", NoSHA, job[p].target)
    /\ pc[p] \in {"noop", "verify", "save", "checkpoint", "unsave"} => stack = Exact(job[p].from)
    /\ pc[p] \in Late =>
           disk.status \in Busy /\ disk.from = job[p].from /\ disk.target = job[p].target
    /\ pc[p] \in {"identify", "complete", "restoreIdentify", "restored"} => health = "seen"
    /\ pc[p] \in {"complete", "waitTarget"} => stack = Exact(job[p].target)
    /\ pc[p] \in {"probeWait", "restored"} => stack = Exact(job[p].from)

(* Where the snapshot must be there, and where it may be removed. *)
SnapshotInv(p) ==
    /\ pc[p] \in {"checkpoint", "unsave"} => snap = job[p].from
    /\ pc[p] \in Cleanup => disk.status \notin Busy

(* The inductive invariant: what holds in any case, what holds until recovery
   adopts a live request, and what holds until a race of either kind. *)
IInv ==
    /\ TypeOK
    /\ UpgradeOnly
    /\ \A p \in Procs : LocalInv(p)
    /\ TruthfulUnlessAdopted
    /\ SingleTransaction
    /\ "adopted" \notin races => \A p \in Procs : GoroutineInv(p)
    /\ SnapshotRetainedUnlessRaced
    /\ races = {} => \A p \in Procs : SnapshotInv(p)

-----------------------------------------------------------------------------
(* A compose file identified by a full SHA is exactly that release. *)
LEMMA ComposeIdentity ==
    ASSUME NEW content \in Compose, NEW sha \in SHA
    PROVE  composeSHA(content) = sha <=> content = Exact(sha)
BY ConstantsAssumption DEF composeSHA, Exact, Compose

(* Exact(sha) is a compose file. *)
LEMMA ExactIsCompose ==
    ASSUME NEW core \in SHA, NEW updater \in SHA
    PROVE  /\ Exact(core) \in Compose
           /\ preserveUpdater(Exact(core), Exact(updater)) \in Compose
BY DEF Exact, Compose, preserveUpdater

(* A write of the state file, or its failure, keeps the types. *)
LEMMA PersistTypes ==
    ASSUME TypeOK, NEW p \in Procs, NEW next \in States, NEW ok \in Labels, NEW err \in Labels,
           persistRecoveryState(p, next, ok, err), UNCHANGED <<snap, stack, health, races>>
    PROVE  TypeOK'
<1>1. Idle \in States
  BY DEF Idle, UpdateState, States, Statuses
<1>2. pc' \in [Procs -> Labels] /\ job' \in [Procs -> States]
  BY <1>1 DEF persistRecoveryState, Goto, Enter, TypeOK
<1>3. disk' \in States /\ validateUpdateState(disk') /\ mem' = disk'
  BY DEF persistRecoveryState, persistStateLocked, durable, TypeOK
<1>4. faults' \in 0..MaxFaults
  BY ConstantsAssumption DEF persistRecoveryState, Fault, NoFault, TypeOK
<1> QED
  BY <1>2, <1>3, <1>4 DEF TypeOK, validateUpdateState

(* A goroutine is inside an update before its checkpoint or after it. *)
LEMMA UpdateLabels ==
    ASSUME TypeOK, NEW p \in Procs
    PROVE  InUpdate(p) <=> pc[p] \in Early \cup Late
BY DEF TypeOK, InUpdate, Labels, Cleanup, Early, Late

(* While a goroutine is inside an update, the file is busy. *)
LEMMA UpdateIsBusy ==
    ASSUME IInv, "adopted" \notin races, NEW p \in Procs, InUpdate(p)
    PROVE  disk.status \in Busy
BY UpdateLabels DEF IInv, GoroutineInv, UpdateState, Busy

(* A step of a goroutine inside an update keeps the invariant if it keeps the
   goroutine's own part: the others are outside of any update, and none of them
   is about to remove a snapshot. *)
LEMMA UpdateStepPreserves ==
    ASSUME IInv, NEW p \in Procs, InUpdate(p), NEW label, NEW locals, Enter(p, label, locals),
           UNCHANGED races, TypeOK', UpgradeOnly', LocalInv(p)',
           "adopted" \notin races => TerminalStateTruthful' /\ GoroutineInv(p)',
           races = {} => RollbackSnapshotRetained' /\ SnapshotInv(p)'
    PROVE  IInv'
<1>1. \A q \in Procs : q # p => pc'[q] = pc[q] /\ job'[q] = job[q]
  BY DEF Enter, IInv, TypeOK
<1>2. \A q \in Procs : LocalInv(q)'
  BY <1>1 DEF IInv, LocalInv
<1>3. ASSUME "adopted" \notin races
      PROVE  /\ TruthfulUnlessAdopted' /\ SingleTransaction'
             /\ \A q \in Procs : GoroutineInv(q)'
  <2>1. \A q \in Procs : q # p => ~InUpdate(q) /\ ~InUpdate(q)'
    BY <1>1, <1>3 DEF IInv, SingleTransaction, InUpdate
  <2>2. \A q \in Procs : q # p => pc'[q] \notin Early \cup Late
    BY <2>1, UpdateLabels DEF InUpdate, Early, Late, Cleanup
  <2>3. ASSUME NEW q \in Procs, q # p PROVE GoroutineInv(q)'
    BY <2>2, <2>3 DEF GoroutineInv, Early, Late
  <2> QED
    BY <1>3, <2>1, <2>3 DEF SingleTransaction, TruthfulUnlessAdopted
<1>4. ASSUME races = {} PROVE \A q \in Procs : SnapshotInv(q)'
  <2>0. "adopted" \notin races
    BY <1>4
  <2>1. disk.status \in Busy
    BY <2>0, UpdateIsBusy
  <2>2. \A q \in Procs : q # p => ~InUpdate(q) /\ pc[q] \notin Cleanup
    BY <1>4, <2>0, <2>1 DEF IInv, SingleTransaction, SnapshotInv
  <2>3. ASSUME NEW q \in Procs, q # p PROVE SnapshotInv(q)'
    BY <1>1, <2>2, <2>3 DEF SnapshotInv, InUpdate, Cleanup
  <2> QED
    BY <1>4, <2>3
<1> QED
  BY <1>2, <1>3, <1>4 DEF IInv, TruthfulUnlessAdopted, SingleTransaction,
                          SnapshotRetainedUnlessRaced

(* The unlocked clean-ups touch nothing but the snapshot, which nobody needs as
   long as no request has overtaken them. *)
LEMMA CleanupPreserves ==
    ASSUME IInv, NEW p \in Procs, pc[p] \in Cleanup, NEW label \in {"free", "cleanRemove"},
           Goto(p, label), UNCHANGED <<disk, mem, stack, health, races>>,
           snap' \in {snap, NoSHA}, faults' \in 0..MaxFaults
    PROVE  IInv'
<1>1. /\ \A q \in Procs : q # p => pc'[q] = pc[q] /\ job'[q] = job[q]
      /\ pc'[p] = label /\ label \notin Early \cup Late
  BY DEF Goto, Enter, IInv, TypeOK, Early, Late
<1>2. TypeOK'
  <2>1. Idle \in States
    BY DEF Idle, UpdateState, States, Statuses
  <2> QED
    BY <2>1 DEF Goto, Enter, IInv, TypeOK, Labels, validateUpdateState
<1>3. UpgradeOnly' /\ TruthfulUnlessAdopted'
  BY DEF IInv, UpgradeOnly, TruthfulUnlessAdopted, TerminalStateTruthful
<1>4. \A q \in Procs : LocalInv(q)'
  BY <1>1 DEF IInv, LocalInv, Early, Late
<1>5. SingleTransaction'
  BY <1>1 DEF IInv, SingleTransaction, InUpdate, Cleanup
<1>6. ASSUME "adopted" \notin races PROVE \A q \in Procs : GoroutineInv(q)'
  BY <1>1, <1>6 DEF IInv, GoroutineInv, Early, Late
<1>7. ASSUME races = {} PROVE RollbackSnapshotRetained' /\ \A q \in Procs : SnapshotInv(q)'
  <2>1. disk.status \notin Busy
    BY <1>7 DEF IInv, SnapshotInv
  <2>2. \A q \in Procs : ~InUpdate(q)
    BY <1>7, <2>1, UpdateIsBusy
  <2> QED
    BY <1>1, <2>1, <2>2 DEF RollbackSnapshotRetained, SnapshotInv, InUpdate, Cleanup
<1> QED
  BY <1>2, <1>3, <1>4, <1>5, <1>6, <1>7 DEF IInv, SnapshotRetainedUnlessRaced

(* Recovery's copy: it resumes what a restart interrupted, or cleans up, or
   adopts a live request, after which the invariant asks for little. *)
LEMMA DispatchPreserves ==
    ASSUME IInv, NEW p \in Procs, recoveryDispatch(p)
    PROVE  IInv'
<1> USE DEF recoveryDispatch, Enter, durable, world
<1>1. /\ \A q \in Procs : q # p => pc'[q] = pc[q] /\ job'[q] = job[q]
      /\ job'[p] = disk /\ races \subseteq races'
      /\ UNCHANGED <<disk, mem, snap, stack, health>>
  BY DEF IInv, TypeOK, AdoptsLiveRequest
<1>2. /\ disk.status \notin Busy => pc'[p] = "cleanCheck"
      /\ disk.status \in Busy /\ disk.status = "applying" /\ disk.from = NoSHA =>
             pc'[p] = "closeEarly"
      /\ disk.status \in Busy /\ ~(disk.status = "applying" /\ disk.from = NoSHA) =>
             pc'[p] = "find"
  <2>1. mem = disk /\ pc \in [Procs -> Labels] /\ pc[p] = "boot"
    BY DEF IInv, TypeOK
  <2>2. pc'[p] = CASE disk.status \notin Busy -> "cleanCheck"
                   [] disk.status = "applying" /\ disk.from = NoSHA -> "closeEarly"
                   [] OTHER -> "find"
    BY <2>1
  <2> QED
    BY <2>2 DEF Busy
<1>3. TypeOK'
  <2>1. races' \subseteq {"adopted", "overtaken"}
    BY DEF IInv, TypeOK, AdoptsLiveRequest
  <2>2. pc' \in [Procs -> Labels] /\ job' \in [Procs -> States]
    BY <1>2 DEF IInv, TypeOK, Labels
  <2> QED
    BY <1>1, <2>1, <2>2 DEF IInv, TypeOK, validateUpdateState
<1>4. UpgradeOnly' /\ TruthfulUnlessAdopted' /\ SnapshotRetainedUnlessRaced'
  BY <1>1 DEF IInv, UpgradeOnly, TruthfulUnlessAdopted, TerminalStateTruthful,
              SnapshotRetainedUnlessRaced, RollbackSnapshotRetained
<1>5. LocalInv(p)'
  BY <1>1, <1>2, ConstantsAssumption
  DEF IInv, TypeOK, States, validateUpdateState, UpgradeOnly, LocalInv, Early, Late, Busy
<1>6. \A q \in Procs : LocalInv(q)'
  BY <1>1, <1>5 DEF IInv, LocalInv
<1>7. ASSUME "adopted" \notin races'
      PROVE  SingleTransaction' /\ \A q \in Procs : GoroutineInv(q)'
  <2>1. "adopted" \notin races
    BY <1>1, <1>7
  <2>2. disk.status \in Busy => \A q \in Procs : q # p => ~InUpdate(q)
    BY <1>7 DEF AdoptsLiveRequest, IInv, TypeOK, Procs
  <2>3. SingleTransaction'
    <3>1. CASE disk.status \in Busy
      BY <1>1, <2>2, <3>1 DEF SingleTransaction, InUpdate
    <3>2. CASE disk.status \notin Busy
      <4>1. \A q \in Procs : ~InUpdate(q)
        BY <2>1, <3>2, UpdateIsBusy
      <4> QED
        BY <1>1, <1>2, <3>2, <4>1 DEF SingleTransaction, InUpdate, Cleanup
    <3> QED
      BY <3>1, <3>2
  <2>4. GoroutineInv(p)'
    BY <1>1, <1>2, ConstantsAssumption
    DEF IInv, TypeOK, States, validateUpdateState, GoroutineInv, Early, Late, Busy, UpdateState
  <2>5. ASSUME NEW q \in Procs, q # p PROVE GoroutineInv(q)'
    BY <1>1, <2>1, <2>5 DEF IInv, GoroutineInv
  <2> QED
    BY <2>3, <2>4, <2>5
<1>8. ASSUME races' = {} PROVE \A q \in Procs : SnapshotInv(q)'
  BY <1>1, <1>2, <1>8 DEF IInv, SnapshotInv, Cleanup
<1> QED
  BY <1>3, <1>4, <1>6, <1>7, <1>8 DEF IInv, SingleTransaction

(* Every step of a goroutine preserves the invariant. *)
LEMMA StepPreserves ==
    ASSUME IInv, NEW p \in Procs, Step(p)
    PROVE  IInv'
<1> USE DEF Goto, Enter, Fault, NoFault, durable, world
<1>0. /\ TypeOK /\ UpgradeOnly /\ LocalInv(p) /\ Idle \in States
      /\ "adopted" \notin races => TerminalStateTruthful /\ GoroutineInv(p)
      /\ races = {} => RollbackSnapshotRetained /\ SnapshotInv(p)
  BY DEF IInv, TruthfulUnlessAdopted, SnapshotRetainedUnlessRaced, Idle, UpdateState, States,
         Statuses
<1>1. CASE applyDiscover(p)
  <2>1. TypeOK'
    BY <1>0, <1>1, ConstantsAssumption
    DEF applyDiscover, TypeOK, Labels, States
  <2>2. LocalInv(p)'
    BY <1>0, <1>1, ComposeIdentity
    DEF applyDiscover, TypeOK, States, LocalInv, Early, Late
  <2>3. UpgradeOnly'
    BY <1>0, <1>1
    DEF applyDiscover, UpgradeOnly
  <2>4. "adopted" \notin races => TerminalStateTruthful' /\ GoroutineInv(p)'
    BY <1>0, <1>1, ConstantsAssumption, ComposeIdentity
    DEF applyDiscover, TerminalStateTruthful, TypeOK, States, LocalInv, GoroutineInv, Early, Late
  <2>5. races = {} => RollbackSnapshotRetained' /\ SnapshotInv(p)'
    BY <1>0, <1>1
    DEF applyDiscover, RollbackSnapshotRetained, SnapshotInv, Cleanup, TypeOK
  <2>6. UNCHANGED races /\ InUpdate(p)
    BY <1>1
    DEF applyDiscover, InUpdate, Cleanup
  <2>7. \E label, locals : Enter(p, label, locals)
    BY <1>1
    DEF applyDiscover
  <2> QED
    BY <2>1, <2>2, <2>3, <2>4, <2>5, <2>6, <2>7, UpdateStepPreserves
<1>2. CASE applyNoop(p)
  <2>1. TypeOK'
    <3>1. [job[p] EXCEPT !.status = "complete"] \in States
      BY <1>0 DEF TypeOK, States, Statuses, Busy, Terminal, UpdateState
    <3> QED
      BY <1>0, <1>2, <3>1, PersistTypes DEF applyNoop, Labels
  <2>2. LocalInv(p)'
    BY <1>0, <1>2
    DEF applyNoop, persistRecoveryState, persistStateLocked, TypeOK, States, LocalInv, Early, Late
  <2>3. UpgradeOnly'
    BY <1>0, <1>2
    DEF applyNoop, persistRecoveryState, persistStateLocked, UpgradeOnly, TypeOK, States,
        LocalInv, Late, Busy, UpdateState
  <2>4. "adopted" \notin races => TerminalStateTruthful' /\ GoroutineInv(p)'
    BY <1>0, <1>2, ConstantsAssumption
    DEF applyNoop, persistRecoveryState, persistStateLocked, TerminalStateTruthful, TypeOK,
        States, LocalInv, GoroutineInv, Early, Late, Busy, Terminal, UpdateState
  <2>5. races = {} => RollbackSnapshotRetained' /\ SnapshotInv(p)'
    BY <1>0, <1>2, ConstantsAssumption
    DEF applyNoop, persistRecoveryState, persistStateLocked, RollbackSnapshotRetained,
        SnapshotInv, Cleanup, TypeOK, States, Busy, Terminal, UpdateState, LocalInv, GoroutineInv,
        Early, Late
  <2>6. UNCHANGED races /\ InUpdate(p)
    BY <1>2
    DEF applyNoop, persistRecoveryState, persistStateLocked, InUpdate, Cleanup
  <2>7. \E label, locals : Enter(p, label, locals)
    BY <1>2
    DEF applyNoop, persistRecoveryState, persistStateLocked
  <2> QED
    BY <2>1, <2>2, <2>3, <2>4, <2>5, <2>6, <2>7, UpdateStepPreserves
<1>3. CASE applyVerify(p)
  <2>1. TypeOK'
    BY <1>0, <1>3, ConstantsAssumption
    DEF applyVerify, TypeOK, Labels, States
  <2>2. LocalInv(p)'
    BY <1>0, <1>3
    DEF applyVerify, TypeOK, States, LocalInv, Early, Late
  <2>3. UpgradeOnly'
    BY <1>0, <1>3
    DEF applyVerify, UpgradeOnly
  <2>4. "adopted" \notin races => TerminalStateTruthful' /\ GoroutineInv(p)'
    BY <1>0, <1>3, ConstantsAssumption
    DEF applyVerify, TerminalStateTruthful, TypeOK, States, LocalInv, GoroutineInv, Early, Late
  <2>5. races = {} => RollbackSnapshotRetained' /\ SnapshotInv(p)'
    BY <1>0, <1>3
    DEF applyVerify, RollbackSnapshotRetained, SnapshotInv, Cleanup, TypeOK
  <2>6. UNCHANGED races /\ InUpdate(p)
    BY <1>3
    DEF applyVerify, InUpdate, Cleanup
  <2>7. \E label, locals : Enter(p, label, locals)
    BY <1>3
    DEF applyVerify
  <2> QED
    BY <2>1, <2>2, <2>3, <2>4, <2>5, <2>6, <2>7, UpdateStepPreserves
<1>4. CASE applySave(p)
  <2>1. TypeOK'
    BY <1>0, <1>4, ConstantsAssumption
    DEF applySave, TypeOK, Labels, States
  <2>2. LocalInv(p)'
    BY <1>0, <1>4
    DEF applySave, TypeOK, States, LocalInv, Early, Late
  <2>3. UpgradeOnly'
    BY <1>0, <1>4
    DEF applySave, UpgradeOnly
  <2>4. "adopted" \notin races => TerminalStateTruthful' /\ GoroutineInv(p)'
    BY <1>0, <1>4, ConstantsAssumption
    DEF applySave, TerminalStateTruthful, TypeOK, States, LocalInv, GoroutineInv, Early, Late
  <2>5. races = {} => RollbackSnapshotRetained' /\ SnapshotInv(p)'
    BY <1>0, <1>4
    DEF applySave, RollbackSnapshotRetained, SnapshotInv, Cleanup, TypeOK, States, Busy, Terminal,
        UpdateState, LocalInv, GoroutineInv, Early, Late
  <2>6. UNCHANGED races /\ InUpdate(p)
    BY <1>4
    DEF applySave, InUpdate, Cleanup
  <2>7. \E label, locals : Enter(p, label, locals)
    BY <1>4
    DEF applySave
  <2> QED
    BY <2>1, <2>2, <2>3, <2>4, <2>5, <2>6, <2>7, UpdateStepPreserves
<1>5. CASE applyCheckpoint(p)
  <2>1. TypeOK'
    <3>1. job[p] \in States
      BY <1>0 DEF TypeOK, States, Statuses, Busy, Terminal, UpdateState
    <3> QED
      BY <1>0, <1>5, <3>1, PersistTypes DEF applyCheckpoint, Labels
  <2>2. LocalInv(p)'
    BY <1>0, <1>5
    DEF applyCheckpoint, persistRecoveryState, persistStateLocked, TypeOK, States, LocalInv,
        Early, Late
  <2>3. UpgradeOnly'
    BY <1>0, <1>5
    DEF applyCheckpoint, persistRecoveryState, persistStateLocked, UpgradeOnly, TypeOK, States,
        LocalInv, Late, Busy, UpdateState
  <2>4. "adopted" \notin races => TerminalStateTruthful' /\ GoroutineInv(p)'
    BY <1>0, <1>5, ConstantsAssumption
    DEF applyCheckpoint, persistRecoveryState, persistStateLocked, TerminalStateTruthful, TypeOK,
        States, LocalInv, GoroutineInv, Early, Late, Busy, Terminal, UpdateState
  <2>5. races = {} => RollbackSnapshotRetained' /\ SnapshotInv(p)'
    BY <1>0, <1>5, ConstantsAssumption
    DEF applyCheckpoint, persistRecoveryState, persistStateLocked, RollbackSnapshotRetained,
        SnapshotInv, Cleanup, TypeOK, States, Busy, Terminal, UpdateState, LocalInv, GoroutineInv,
        Early, Late
  <2>6. UNCHANGED races /\ InUpdate(p)
    BY <1>5
    DEF applyCheckpoint, persistRecoveryState, persistStateLocked, InUpdate, Cleanup
  <2>7. \E label, locals : Enter(p, label, locals)
    BY <1>5
    DEF applyCheckpoint, persistRecoveryState, persistStateLocked
  <2> QED
    BY <2>1, <2>2, <2>3, <2>4, <2>5, <2>6, <2>7, UpdateStepPreserves
<1>6. CASE applyUnsave(p)
  <2>1. TypeOK'
    BY <1>0, <1>6, ConstantsAssumption
    DEF applyUnsave, TypeOK, Labels, States
  <2>2. LocalInv(p)'
    BY <1>0, <1>6
    DEF applyUnsave, TypeOK, States, LocalInv, Early, Late
  <2>3. UpgradeOnly'
    BY <1>0, <1>6
    DEF applyUnsave, UpgradeOnly
  <2>4. "adopted" \notin races => TerminalStateTruthful' /\ GoroutineInv(p)'
    BY <1>0, <1>6, ConstantsAssumption
    DEF applyUnsave, TerminalStateTruthful, TypeOK, States, LocalInv, GoroutineInv, Early, Late
  <2>5. races = {} => RollbackSnapshotRetained' /\ SnapshotInv(p)'
    BY <1>0, <1>6
    DEF applyUnsave, RollbackSnapshotRetained, SnapshotInv, Cleanup, TypeOK, States, Busy,
        Terminal, UpdateState, LocalInv, GoroutineInv, Early, Late
  <2>6. UNCHANGED races /\ InUpdate(p)
    BY <1>6
    DEF applyUnsave, InUpdate, Cleanup
  <2>7. \E label, locals : Enter(p, label, locals)
    BY <1>6
    DEF applyUnsave
  <2> QED
    BY <2>1, <2>2, <2>3, <2>4, <2>5, <2>6, <2>7, UpdateStepPreserves
<1>7. CASE failState(p)
  <2>1. TypeOK'
    <3>1. UpdateState("failed", mem.from, job[p].target) \in States
      BY <1>0 DEF TypeOK, States, Statuses, Busy, Terminal, UpdateState
    <3> QED
      BY <1>0, <1>7, <3>1, PersistTypes DEF failState, Labels
  <2>2. LocalInv(p)'
    BY <1>0, <1>7
    DEF failState, persistRecoveryState, persistStateLocked, TypeOK, States, LocalInv, Early, Late
  <2>3. UpgradeOnly'
    BY <1>0, <1>7
    DEF failState, persistRecoveryState, persistStateLocked, UpgradeOnly, Busy, UpdateState
  <2>4. "adopted" \notin races => TerminalStateTruthful' /\ GoroutineInv(p)'
    BY <1>0, <1>7, ConstantsAssumption
    DEF failState, persistRecoveryState, persistStateLocked, TerminalStateTruthful, TypeOK,
        States, LocalInv, GoroutineInv, Early, Late, Busy, Terminal, UpdateState
  <2>5. races = {} => RollbackSnapshotRetained' /\ SnapshotInv(p)'
    BY <1>0, <1>7, ConstantsAssumption
    DEF failState, persistRecoveryState, persistStateLocked, RollbackSnapshotRetained,
        SnapshotInv, Cleanup, TypeOK, States, Busy, Terminal, UpdateState, LocalInv, GoroutineInv,
        Early, Late
  <2>6. UNCHANGED races /\ InUpdate(p)
    BY <1>7
    DEF failState, persistRecoveryState, persistStateLocked, InUpdate, Cleanup
  <2>7. \E label, locals : Enter(p, label, locals)
    BY <1>7
    DEF failState, persistRecoveryState, persistStateLocked
  <2> QED
    BY <2>1, <2>2, <2>3, <2>4, <2>5, <2>6, <2>7, UpdateStepPreserves
<1>8. CASE applyPhaseOne(p)
  <2>1. TypeOK'
    BY <1>0, <1>8, ConstantsAssumption, ExactIsCompose
    DEF applyPhaseOne, putStack, TypeOK, Labels, States, LocalInv, Early, Late
  <2>2. LocalInv(p)'
    BY <1>0, <1>8
    DEF applyPhaseOne, putStack, TypeOK, States, LocalInv, Early, Late
  <2>3. UpgradeOnly'
    BY <1>0, <1>8
    DEF applyPhaseOne, putStack, UpgradeOnly
  <2>4. "adopted" \notin races => TerminalStateTruthful' /\ GoroutineInv(p)'
    BY <1>0, <1>8, ConstantsAssumption
    DEF applyPhaseOne, putStack, TerminalStateTruthful, TypeOK, States, LocalInv, GoroutineInv,
        Early, Late, Busy, Terminal, UpdateState
  <2>5. races = {} => RollbackSnapshotRetained' /\ SnapshotInv(p)'
    BY <1>0, <1>8
    DEF applyPhaseOne, putStack, RollbackSnapshotRetained, SnapshotInv, Cleanup, TypeOK
  <2>6. UNCHANGED races /\ InUpdate(p)
    BY <1>8
    DEF applyPhaseOne, putStack, InUpdate, Cleanup
  <2>7. \E label, locals : Enter(p, label, locals)
    BY <1>8
    DEF applyPhaseOne, putStack
  <2> QED
    BY <2>1, <2>2, <2>3, <2>4, <2>5, <2>6, <2>7, UpdateStepPreserves
<1>9. CASE applyWaitOne(p)
  <2>1. TypeOK'
    BY <1>0, <1>9, ConstantsAssumption
    DEF applyWaitOne, waitCoreHealthy, TypeOK, Labels, States
  <2>2. LocalInv(p)'
    BY <1>0, <1>9
    DEF applyWaitOne, waitCoreHealthy, TypeOK, States, LocalInv, Early, Late
  <2>3. UpgradeOnly'
    BY <1>0, <1>9
    DEF applyWaitOne, waitCoreHealthy, UpgradeOnly
  <2>4. "adopted" \notin races => TerminalStateTruthful' /\ GoroutineInv(p)'
    BY <1>0, <1>9, ConstantsAssumption
    DEF applyWaitOne, waitCoreHealthy, TerminalStateTruthful, TypeOK, States, LocalInv,
        GoroutineInv, Early, Late
  <2>5. races = {} => RollbackSnapshotRetained' /\ SnapshotInv(p)'
    BY <1>0, <1>9
    DEF applyWaitOne, waitCoreHealthy, RollbackSnapshotRetained, SnapshotInv, Cleanup, TypeOK
  <2>6. UNCHANGED races /\ InUpdate(p)
    BY <1>9
    DEF applyWaitOne, waitCoreHealthy, InUpdate, Cleanup
  <2>7. \E label, locals : Enter(p, label, locals)
    BY <1>9
    DEF applyWaitOne, waitCoreHealthy
  <2> QED
    BY <2>1, <2>2, <2>3, <2>4, <2>5, <2>6, <2>7, UpdateStepPreserves
<1>10. CASE applyFinalize(p)
  <2>1. TypeOK'
    <3>1. [job[p] EXCEPT !.status = "finalizing"] \in States
      BY <1>0 DEF TypeOK, States, Statuses, Busy, Terminal, UpdateState
    <3> QED
      BY <1>0, <1>10, <3>1, PersistTypes DEF applyFinalize, Labels
  <2>2. LocalInv(p)'
    BY <1>0, <1>10
    DEF applyFinalize, persistRecoveryState, persistStateLocked, TypeOK, States, LocalInv, Early,
        Late
  <2>3. UpgradeOnly'
    BY <1>0, <1>10
    DEF applyFinalize, persistRecoveryState, persistStateLocked, UpgradeOnly, TypeOK, States,
        LocalInv, Late, Busy, UpdateState
  <2>4. "adopted" \notin races => TerminalStateTruthful' /\ GoroutineInv(p)'
    BY <1>0, <1>10, ConstantsAssumption
    DEF applyFinalize, persistRecoveryState, persistStateLocked, TerminalStateTruthful, TypeOK,
        States, LocalInv, GoroutineInv, Early, Late, Busy, Terminal, UpdateState
  <2>5. races = {} => RollbackSnapshotRetained' /\ SnapshotInv(p)'
    BY <1>0, <1>10, ConstantsAssumption
    DEF applyFinalize, persistRecoveryState, persistStateLocked, RollbackSnapshotRetained,
        SnapshotInv, Cleanup, TypeOK, States, Busy, Terminal, UpdateState, LocalInv, GoroutineInv,
        Early, Late
  <2>6. UNCHANGED races /\ InUpdate(p)
    BY <1>10
    DEF applyFinalize, persistRecoveryState, persistStateLocked, InUpdate, Cleanup
  <2>7. \E label, locals : Enter(p, label, locals)
    BY <1>10
    DEF applyFinalize, persistRecoveryState, persistStateLocked
  <2> QED
    BY <2>1, <2>2, <2>3, <2>4, <2>5, <2>6, <2>7, UpdateStepPreserves
<1>11. CASE applyPhaseTwo(p)
  <2>1. TypeOK'
    BY <1>0, <1>11, ConstantsAssumption, ExactIsCompose
    DEF applyPhaseTwo, putStack, TypeOK, Labels, States, LocalInv, Early, Late
  <2>2. LocalInv(p)'
    BY <1>0, <1>11
    DEF applyPhaseTwo, putStack, TypeOK, States, LocalInv, Early, Late
  <2>3. UpgradeOnly'
    BY <1>0, <1>11
    DEF applyPhaseTwo, putStack, UpgradeOnly
  <2>4. "adopted" \notin races => TerminalStateTruthful' /\ GoroutineInv(p)'
    BY <1>0, <1>11, ConstantsAssumption
    DEF applyPhaseTwo, putStack, TerminalStateTruthful, TypeOK, States, LocalInv, GoroutineInv,
        Early, Late, Busy, Terminal, UpdateState
  <2>5. races = {} => RollbackSnapshotRetained' /\ SnapshotInv(p)'
    BY <1>0, <1>11
    DEF applyPhaseTwo, putStack, RollbackSnapshotRetained, SnapshotInv, Cleanup, TypeOK
  <2>6. UNCHANGED races /\ InUpdate(p)
    BY <1>11
    DEF applyPhaseTwo, putStack, InUpdate, Cleanup
  <2>7. \E label, locals : Enter(p, label, locals)
    BY <1>11
    DEF applyPhaseTwo, putStack
  <2> QED
    BY <2>1, <2>2, <2>3, <2>4, <2>5, <2>6, <2>7, UpdateStepPreserves
<1>12. CASE applyWaitTwo(p)
  <2>1. TypeOK'
    BY <1>0, <1>12, ConstantsAssumption
    DEF applyWaitTwo, waitCoreHealthy, TypeOK, Labels, States
  <2>2. LocalInv(p)'
    BY <1>0, <1>12
    DEF applyWaitTwo, waitCoreHealthy, TypeOK, States, LocalInv, Early, Late
  <2>3. UpgradeOnly'
    BY <1>0, <1>12
    DEF applyWaitTwo, waitCoreHealthy, UpgradeOnly
  <2>4. "adopted" \notin races => TerminalStateTruthful' /\ GoroutineInv(p)'
    BY <1>0, <1>12, ConstantsAssumption
    DEF applyWaitTwo, waitCoreHealthy, TerminalStateTruthful, TypeOK, States, LocalInv,
        GoroutineInv, Early, Late
  <2>5. races = {} => RollbackSnapshotRetained' /\ SnapshotInv(p)'
    BY <1>0, <1>12
    DEF applyWaitTwo, waitCoreHealthy, RollbackSnapshotRetained, SnapshotInv, Cleanup, TypeOK
  <2>6. UNCHANGED races /\ InUpdate(p)
    BY <1>12
    DEF applyWaitTwo, waitCoreHealthy, InUpdate, Cleanup
  <2>7. \E label, locals : Enter(p, label, locals)
    BY <1>12
    DEF applyWaitTwo, waitCoreHealthy
  <2> QED
    BY <2>1, <2>2, <2>3, <2>4, <2>5, <2>6, <2>7, UpdateStepPreserves
<1>13. CASE applyIdentify(p)
  <2>1. TypeOK'
    BY <1>0, <1>13, ConstantsAssumption
    DEF applyIdentify, TypeOK, Labels, States
  <2>2. LocalInv(p)'
    BY <1>0, <1>13
    DEF applyIdentify, TypeOK, States, LocalInv, Early, Late
  <2>3. UpgradeOnly'
    BY <1>0, <1>13
    DEF applyIdentify, UpgradeOnly
  <2>4. "adopted" \notin races => TerminalStateTruthful' /\ GoroutineInv(p)'
    BY <1>0, <1>13, ConstantsAssumption, ComposeIdentity
    DEF applyIdentify, TerminalStateTruthful, TypeOK, States, LocalInv, GoroutineInv, Early, Late
  <2>5. races = {} => RollbackSnapshotRetained' /\ SnapshotInv(p)'
    BY <1>0, <1>13
    DEF applyIdentify, RollbackSnapshotRetained, SnapshotInv, Cleanup, TypeOK
  <2>6. UNCHANGED races /\ InUpdate(p)
    BY <1>13
    DEF applyIdentify, InUpdate, Cleanup
  <2>7. \E label, locals : Enter(p, label, locals)
    BY <1>13
    DEF applyIdentify
  <2> QED
    BY <2>1, <2>2, <2>3, <2>4, <2>5, <2>6, <2>7, UpdateStepPreserves
<1>14. CASE completeRecoveredUpdate(p)
  <2>1. TypeOK'
    <3>1. [job[p] EXCEPT !.status = "complete"] \in States
      BY <1>0 DEF TypeOK, States, Statuses, Busy, Terminal, UpdateState
    <3> QED
      BY <1>0, <1>14, <3>1, PersistTypes DEF completeRecoveredUpdate, Labels
  <2>2. LocalInv(p)'
    BY <1>0, <1>14
    DEF completeRecoveredUpdate, persistRecoveryState, persistStateLocked, TypeOK, States,
        LocalInv, Early, Late
  <2>3. UpgradeOnly'
    BY <1>0, <1>14
    DEF completeRecoveredUpdate, persistRecoveryState, persistStateLocked, UpgradeOnly, TypeOK,
        States, LocalInv, Late, Busy, UpdateState
  <2>4. "adopted" \notin races => TerminalStateTruthful' /\ GoroutineInv(p)'
    BY <1>0, <1>14, ConstantsAssumption
    DEF completeRecoveredUpdate, persistRecoveryState, persistStateLocked, TerminalStateTruthful,
        TypeOK, States, LocalInv, GoroutineInv, Early, Late, Busy, Terminal, UpdateState
  <2>5. races = {} => RollbackSnapshotRetained' /\ SnapshotInv(p)'
    BY <1>0, <1>14, ConstantsAssumption
    DEF completeRecoveredUpdate, persistRecoveryState, persistStateLocked,
        RollbackSnapshotRetained, SnapshotInv, Cleanup, TypeOK, States, Busy, Terminal,
        UpdateState, LocalInv, GoroutineInv, Early, Late
  <2>6. UNCHANGED races /\ InUpdate(p)
    BY <1>14
    DEF completeRecoveredUpdate, persistRecoveryState, persistStateLocked, InUpdate, Cleanup
  <2>7. \E label, locals : Enter(p, label, locals)
    BY <1>14
    DEF completeRecoveredUpdate, persistRecoveryState, persistStateLocked
  <2> QED
    BY <2>1, <2>2, <2>3, <2>4, <2>5, <2>6, <2>7, UpdateStepPreserves
<1>15. CASE rollbackBegin(p)
  <2>1. TypeOK'
    <3>1. [job[p] EXCEPT !.status = "rolling-back"] \in States
      BY <1>0 DEF TypeOK, States, Statuses, Busy, Terminal, UpdateState
    <3> QED
      BY <1>0, <1>15, <3>1, PersistTypes DEF rollbackBegin, Labels
  <2>2. LocalInv(p)'
    BY <1>0, <1>15
    DEF rollbackBegin, persistRecoveryState, persistStateLocked, TypeOK, States, LocalInv, Early,
        Late
  <2>3. UpgradeOnly'
    BY <1>0, <1>15
    DEF rollbackBegin, persistRecoveryState, persistStateLocked, UpgradeOnly, TypeOK, States,
        LocalInv, Late, Busy, UpdateState
  <2>4. "adopted" \notin races => TerminalStateTruthful' /\ GoroutineInv(p)'
    BY <1>0, <1>15, ConstantsAssumption
    DEF rollbackBegin, persistRecoveryState, persistStateLocked, TerminalStateTruthful, TypeOK,
        States, LocalInv, GoroutineInv, Early, Late, Busy, Terminal, UpdateState
  <2>5. races = {} => RollbackSnapshotRetained' /\ SnapshotInv(p)'
    BY <1>0, <1>15, ConstantsAssumption
    DEF rollbackBegin, persistRecoveryState, persistStateLocked, RollbackSnapshotRetained,
        SnapshotInv, Cleanup, TypeOK, States, Busy, Terminal, UpdateState, LocalInv, GoroutineInv,
        Early, Late
  <2>6. UNCHANGED races /\ InUpdate(p)
    BY <1>15
    DEF rollbackBegin, persistRecoveryState, persistStateLocked, InUpdate, Cleanup
  <2>7. \E label, locals : Enter(p, label, locals)
    BY <1>15
    DEF rollbackBegin, persistRecoveryState, persistStateLocked
  <2> QED
    BY <2>1, <2>2, <2>3, <2>4, <2>5, <2>6, <2>7, UpdateStepPreserves
<1>16. CASE loadRollbackCompose(p)
  <2>1. TypeOK'
    BY <1>0, <1>16, ConstantsAssumption
    DEF loadRollbackCompose, TypeOK, Labels, States
  <2>2. LocalInv(p)'
    BY <1>0, <1>16
    DEF loadRollbackCompose, TypeOK, States, LocalInv, Early, Late
  <2>3. UpgradeOnly'
    BY <1>0, <1>16
    DEF loadRollbackCompose, UpgradeOnly
  <2>4. "adopted" \notin races => TerminalStateTruthful' /\ GoroutineInv(p)'
    BY <1>0, <1>16, ConstantsAssumption
    DEF loadRollbackCompose, TerminalStateTruthful, TypeOK, States, LocalInv, GoroutineInv, Early,
        Late
  <2>5. races = {} => RollbackSnapshotRetained' /\ SnapshotInv(p)'
    BY <1>0, <1>16
    DEF loadRollbackCompose, RollbackSnapshotRetained, SnapshotInv, Cleanup, TypeOK
  <2>6. UNCHANGED races /\ InUpdate(p)
    BY <1>16
    DEF loadRollbackCompose, InUpdate, Cleanup
  <2>7. \E label, locals : Enter(p, label, locals)
    BY <1>16
    DEF loadRollbackCompose
  <2> QED
    BY <2>1, <2>2, <2>3, <2>4, <2>5, <2>6, <2>7, UpdateStepPreserves
<1>17. CASE restoreProbe(p)
  <2>1. TypeOK'
    BY <1>0, <1>17, ConstantsAssumption
    DEF restoreProbe, exactComposeIdentity, TypeOK, Labels, States
  <2>2. LocalInv(p)'
    BY <1>0, <1>17
    DEF restoreProbe, exactComposeIdentity, TypeOK, States, LocalInv, Early, Late
  <2>3. UpgradeOnly'
    BY <1>0, <1>17
    DEF restoreProbe, exactComposeIdentity, UpgradeOnly
  <2>4. "adopted" \notin races => TerminalStateTruthful' /\ GoroutineInv(p)'
    BY <1>0, <1>17, ConstantsAssumption, ComposeIdentity
    DEF restoreProbe, exactComposeIdentity, TerminalStateTruthful, TypeOK, States, LocalInv,
        GoroutineInv, Early, Late
  <2>5. races = {} => RollbackSnapshotRetained' /\ SnapshotInv(p)'
    BY <1>0, <1>17
    DEF restoreProbe, exactComposeIdentity, RollbackSnapshotRetained, SnapshotInv, Cleanup, TypeOK
  <2>6. UNCHANGED races /\ InUpdate(p)
    BY <1>17
    DEF restoreProbe, exactComposeIdentity, InUpdate, Cleanup
  <2>7. \E label, locals : Enter(p, label, locals)
    BY <1>17
    DEF restoreProbe, exactComposeIdentity
  <2> QED
    BY <2>1, <2>2, <2>3, <2>4, <2>5, <2>6, <2>7, UpdateStepPreserves
<1>18. CASE restoreProbeWait(p)
  <2>1. TypeOK'
    BY <1>0, <1>18, ConstantsAssumption
    DEF restoreProbeWait, waitCoreHealthy, TypeOK, Labels, States
  <2>2. LocalInv(p)'
    BY <1>0, <1>18
    DEF restoreProbeWait, waitCoreHealthy, TypeOK, States, LocalInv, Early, Late
  <2>3. UpgradeOnly'
    BY <1>0, <1>18
    DEF restoreProbeWait, waitCoreHealthy, UpgradeOnly
  <2>4. "adopted" \notin races => TerminalStateTruthful' /\ GoroutineInv(p)'
    BY <1>0, <1>18, ConstantsAssumption
    DEF restoreProbeWait, waitCoreHealthy, TerminalStateTruthful, TypeOK, States, LocalInv,
        GoroutineInv, Early, Late
  <2>5. races = {} => RollbackSnapshotRetained' /\ SnapshotInv(p)'
    BY <1>0, <1>18
    DEF restoreProbeWait, waitCoreHealthy, RollbackSnapshotRetained, SnapshotInv, Cleanup, TypeOK
  <2>6. UNCHANGED races /\ InUpdate(p)
    BY <1>18
    DEF restoreProbeWait, waitCoreHealthy, InUpdate, Cleanup
  <2>7. \E label, locals : Enter(p, label, locals)
    BY <1>18
    DEF restoreProbeWait, waitCoreHealthy
  <2> QED
    BY <2>1, <2>2, <2>3, <2>4, <2>5, <2>6, <2>7, UpdateStepPreserves
<1>19. CASE restorePut(p)
  <2>1. TypeOK'
    BY <1>0, <1>19, ConstantsAssumption, ExactIsCompose
    DEF restorePut, putStack, TypeOK, Labels, States, LocalInv, Early, Late
  <2>2. LocalInv(p)'
    BY <1>0, <1>19
    DEF restorePut, putStack, TypeOK, States, LocalInv, Early, Late
  <2>3. UpgradeOnly'
    BY <1>0, <1>19
    DEF restorePut, putStack, UpgradeOnly
  <2>4. "adopted" \notin races => TerminalStateTruthful' /\ GoroutineInv(p)'
    BY <1>0, <1>19, ConstantsAssumption
    DEF restorePut, putStack, TerminalStateTruthful, TypeOK, States, LocalInv, GoroutineInv,
        Early, Late, Busy, Terminal, UpdateState
  <2>5. races = {} => RollbackSnapshotRetained' /\ SnapshotInv(p)'
    BY <1>0, <1>19
    DEF restorePut, putStack, RollbackSnapshotRetained, SnapshotInv, Cleanup, TypeOK
  <2>6. UNCHANGED races /\ InUpdate(p)
    BY <1>19
    DEF restorePut, putStack, InUpdate, Cleanup
  <2>7. \E label, locals : Enter(p, label, locals)
    BY <1>19
    DEF restorePut, putStack
  <2> QED
    BY <2>1, <2>2, <2>3, <2>4, <2>5, <2>6, <2>7, UpdateStepPreserves
<1>20. CASE restoreWait(p)
  <2>1. TypeOK'
    BY <1>0, <1>20, ConstantsAssumption
    DEF restoreWait, TypeOK, Labels, States
  <2>2. LocalInv(p)'
    BY <1>0, <1>20
    DEF restoreWait, TypeOK, States, LocalInv, Early, Late
  <2>3. UpgradeOnly'
    BY <1>0, <1>20
    DEF restoreWait, UpgradeOnly
  <2>4. "adopted" \notin races => TerminalStateTruthful' /\ GoroutineInv(p)'
    BY <1>0, <1>20, ConstantsAssumption
    DEF restoreWait, TerminalStateTruthful, TypeOK, States, LocalInv, GoroutineInv, Early, Late
  <2>5. races = {} => RollbackSnapshotRetained' /\ SnapshotInv(p)'
    BY <1>0, <1>20
    DEF restoreWait, RollbackSnapshotRetained, SnapshotInv, Cleanup, TypeOK
  <2>6. UNCHANGED races /\ InUpdate(p)
    BY <1>20
    DEF restoreWait, InUpdate, Cleanup
  <2>7. \E label, locals : Enter(p, label, locals)
    BY <1>20
    DEF restoreWait
  <2> QED
    BY <2>1, <2>2, <2>3, <2>4, <2>5, <2>6, <2>7, UpdateStepPreserves
<1>21. CASE restoreIdentify(p)
  <2>1. TypeOK'
    BY <1>0, <1>21, ConstantsAssumption
    DEF restoreIdentify, exactComposeIdentity, TypeOK, Labels, States
  <2>2. LocalInv(p)'
    BY <1>0, <1>21
    DEF restoreIdentify, exactComposeIdentity, TypeOK, States, LocalInv, Early, Late
  <2>3. UpgradeOnly'
    BY <1>0, <1>21
    DEF restoreIdentify, exactComposeIdentity, UpgradeOnly
  <2>4. "adopted" \notin races => TerminalStateTruthful' /\ GoroutineInv(p)'
    BY <1>0, <1>21, ConstantsAssumption, ComposeIdentity
    DEF restoreIdentify, exactComposeIdentity, TerminalStateTruthful, TypeOK, States, LocalInv,
        GoroutineInv, Early, Late
  <2>5. races = {} => RollbackSnapshotRetained' /\ SnapshotInv(p)'
    BY <1>0, <1>21
    DEF restoreIdentify, exactComposeIdentity, RollbackSnapshotRetained, SnapshotInv, Cleanup,
        TypeOK
  <2>6. UNCHANGED races /\ InUpdate(p)
    BY <1>21
    DEF restoreIdentify, exactComposeIdentity, InUpdate, Cleanup
  <2>7. \E label, locals : Enter(p, label, locals)
    BY <1>21
    DEF restoreIdentify, exactComposeIdentity
  <2> QED
    BY <2>1, <2>2, <2>3, <2>4, <2>5, <2>6, <2>7, UpdateStepPreserves
<1>22. CASE rollbackIncomplete(p)
  <2>1. TypeOK'
    <3>1. [job[p] EXCEPT !.status = "rolling-back"] \in States
      BY <1>0 DEF TypeOK, States, Statuses, Busy, Terminal, UpdateState
    <3> QED
      BY <1>0, <1>22, <3>1, PersistTypes DEF rollbackIncomplete, Labels
  <2>2. LocalInv(p)'
    BY <1>0, <1>22
    DEF rollbackIncomplete, persistRecoveryState, persistStateLocked, TypeOK, States, LocalInv,
        Early, Late
  <2>3. UpgradeOnly'
    BY <1>0, <1>22
    DEF rollbackIncomplete, persistRecoveryState, persistStateLocked, UpgradeOnly, TypeOK, States,
        LocalInv, Late, Busy, UpdateState
  <2>4. "adopted" \notin races => TerminalStateTruthful' /\ GoroutineInv(p)'
    BY <1>0, <1>22, ConstantsAssumption
    DEF rollbackIncomplete, persistRecoveryState, persistStateLocked, TerminalStateTruthful,
        TypeOK, States, LocalInv, GoroutineInv, Early, Late, Busy, Terminal, UpdateState
  <2>5. races = {} => RollbackSnapshotRetained' /\ SnapshotInv(p)'
    BY <1>0, <1>22, ConstantsAssumption
    DEF rollbackIncomplete, persistRecoveryState, persistStateLocked, RollbackSnapshotRetained,
        SnapshotInv, Cleanup, TypeOK, States, Busy, Terminal, UpdateState, LocalInv, GoroutineInv,
        Early, Late
  <2>6. UNCHANGED races /\ InUpdate(p)
    BY <1>22
    DEF rollbackIncomplete, persistRecoveryState, persistStateLocked, InUpdate, Cleanup
  <2>7. \E label, locals : Enter(p, label, locals)
    BY <1>22
    DEF rollbackIncomplete, persistRecoveryState, persistStateLocked
  <2> QED
    BY <2>1, <2>2, <2>3, <2>4, <2>5, <2>6, <2>7, UpdateStepPreserves
<1>23. CASE rollbackComplete(p)
  <2>1. TypeOK'
    <3>1. [job[p] EXCEPT !.status = "failed"] \in States
      BY <1>0 DEF TypeOK, States, Statuses, Busy, Terminal, UpdateState
    <3> QED
      BY <1>0, <1>23, <3>1, PersistTypes DEF rollbackComplete, Labels
  <2>2. LocalInv(p)'
    BY <1>0, <1>23
    DEF rollbackComplete, persistRecoveryState, persistStateLocked, TypeOK, States, LocalInv,
        Early, Late
  <2>3. UpgradeOnly'
    BY <1>0, <1>23
    DEF rollbackComplete, persistRecoveryState, persistStateLocked, UpgradeOnly, TypeOK, States,
        LocalInv, Late, Busy, UpdateState
  <2>4. "adopted" \notin races => TerminalStateTruthful' /\ GoroutineInv(p)'
    BY <1>0, <1>23, ConstantsAssumption
    DEF rollbackComplete, persistRecoveryState, persistStateLocked, TerminalStateTruthful, TypeOK,
        States, LocalInv, GoroutineInv, Early, Late, Busy, Terminal, UpdateState
  <2>5. races = {} => RollbackSnapshotRetained' /\ SnapshotInv(p)'
    BY <1>0, <1>23, ConstantsAssumption
    DEF rollbackComplete, persistRecoveryState, persistStateLocked, RollbackSnapshotRetained,
        SnapshotInv, Cleanup, TypeOK, States, Busy, Terminal, UpdateState, LocalInv, GoroutineInv,
        Early, Late
  <2>6. UNCHANGED races /\ InUpdate(p)
    BY <1>23
    DEF rollbackComplete, persistRecoveryState, persistStateLocked, InUpdate, Cleanup
  <2>7. \E label, locals : Enter(p, label, locals)
    BY <1>23
    DEF rollbackComplete, persistRecoveryState, persistStateLocked
  <2> QED
    BY <2>1, <2>2, <2>3, <2>4, <2>5, <2>6, <2>7, UpdateStepPreserves
<1>24. CASE recoveryCloseEarly(p)
  <2>1. TypeOK'
    <3>1. UpdateState("failed", NoSHA, job[p].target) \in States
      BY <1>0 DEF TypeOK, States, Statuses, Busy, Terminal, UpdateState
    <3> QED
      BY <1>0, <1>24, <3>1, PersistTypes DEF recoveryCloseEarly, Labels
  <2>2. LocalInv(p)'
    BY <1>0, <1>24
    DEF recoveryCloseEarly, persistRecoveryState, persistStateLocked, TypeOK, States, LocalInv,
        Early, Late
  <2>3. UpgradeOnly'
    BY <1>0, <1>24
    DEF recoveryCloseEarly, persistRecoveryState, persistStateLocked, UpgradeOnly, Busy,
        UpdateState
  <2>4. "adopted" \notin races => TerminalStateTruthful' /\ GoroutineInv(p)'
    BY <1>0, <1>24, ConstantsAssumption
    DEF recoveryCloseEarly, persistRecoveryState, persistStateLocked, TerminalStateTruthful,
        TypeOK, States, LocalInv, GoroutineInv, Early, Late, Busy, Terminal, UpdateState
  <2>5. races = {} => RollbackSnapshotRetained' /\ SnapshotInv(p)'
    BY <1>0, <1>24, ConstantsAssumption
    DEF recoveryCloseEarly, persistRecoveryState, persistStateLocked, RollbackSnapshotRetained,
        SnapshotInv, Cleanup, TypeOK, States, Busy, Terminal, UpdateState, LocalInv, GoroutineInv,
        Early, Late
  <2>6. UNCHANGED races /\ InUpdate(p)
    BY <1>24
    DEF recoveryCloseEarly, persistRecoveryState, persistStateLocked, InUpdate, Cleanup
  <2>7. \E label, locals : Enter(p, label, locals)
    BY <1>24
    DEF recoveryCloseEarly, persistRecoveryState, persistStateLocked
  <2> QED
    BY <2>1, <2>2, <2>3, <2>4, <2>5, <2>6, <2>7, UpdateStepPreserves
<1>25. CASE recoveryFind(p)
  <2>1. TypeOK'
    BY <1>0, <1>25, ConstantsAssumption
    DEF recoveryFind, TypeOK, Labels, States
  <2>2. LocalInv(p)'
    BY <1>0, <1>25
    DEF recoveryFind, TypeOK, States, LocalInv, Early, Late
  <2>3. UpgradeOnly'
    BY <1>0, <1>25
    DEF recoveryFind, UpgradeOnly
  <2>4. "adopted" \notin races => TerminalStateTruthful' /\ GoroutineInv(p)'
    BY <1>0, <1>25, ConstantsAssumption
    DEF recoveryFind, TerminalStateTruthful, TypeOK, States, LocalInv, GoroutineInv, Early, Late
  <2>5. races = {} => RollbackSnapshotRetained' /\ SnapshotInv(p)'
    BY <1>0, <1>25
    DEF recoveryFind, RollbackSnapshotRetained, SnapshotInv, Cleanup, TypeOK
  <2>6. UNCHANGED races /\ InUpdate(p)
    BY <1>25
    DEF recoveryFind, InUpdate, Cleanup
  <2>7. \E label, locals : Enter(p, label, locals)
    BY <1>25
    DEF recoveryFind
  <2> QED
    BY <2>1, <2>2, <2>3, <2>4, <2>5, <2>6, <2>7, UpdateStepPreserves
<1>26. CASE recoveryProbeTarget(p)
  <2>1. TypeOK'
    BY <1>0, <1>26, ConstantsAssumption
    DEF recoveryProbeTarget, exactComposeIdentity, TypeOK, Labels, States
  <2>2. LocalInv(p)'
    BY <1>0, <1>26
    DEF recoveryProbeTarget, exactComposeIdentity, TypeOK, States, LocalInv, Early, Late
  <2>3. UpgradeOnly'
    BY <1>0, <1>26
    DEF recoveryProbeTarget, exactComposeIdentity, UpgradeOnly
  <2>4. "adopted" \notin races => TerminalStateTruthful' /\ GoroutineInv(p)'
    BY <1>0, <1>26, ConstantsAssumption, ComposeIdentity
    DEF recoveryProbeTarget, exactComposeIdentity, TerminalStateTruthful, TypeOK, States,
        LocalInv, GoroutineInv, Early, Late
  <2>5. races = {} => RollbackSnapshotRetained' /\ SnapshotInv(p)'
    BY <1>0, <1>26
    DEF recoveryProbeTarget, exactComposeIdentity, RollbackSnapshotRetained, SnapshotInv, Cleanup,
        TypeOK
  <2>6. UNCHANGED races /\ InUpdate(p)
    BY <1>26
    DEF recoveryProbeTarget, exactComposeIdentity, InUpdate, Cleanup
  <2>7. \E label, locals : Enter(p, label, locals)
    BY <1>26
    DEF recoveryProbeTarget, exactComposeIdentity
  <2> QED
    BY <2>1, <2>2, <2>3, <2>4, <2>5, <2>6, <2>7, UpdateStepPreserves
<1>27. CASE recoveryWaitTarget(p)
  <2>1. TypeOK'
    BY <1>0, <1>27, ConstantsAssumption
    DEF recoveryWaitTarget, waitCoreHealthy, TypeOK, Labels, States
  <2>2. LocalInv(p)'
    BY <1>0, <1>27
    DEF recoveryWaitTarget, waitCoreHealthy, TypeOK, States, LocalInv, Early, Late
  <2>3. UpgradeOnly'
    BY <1>0, <1>27
    DEF recoveryWaitTarget, waitCoreHealthy, UpgradeOnly
  <2>4. "adopted" \notin races => TerminalStateTruthful' /\ GoroutineInv(p)'
    BY <1>0, <1>27, ConstantsAssumption
    DEF recoveryWaitTarget, waitCoreHealthy, TerminalStateTruthful, TypeOK, States, LocalInv,
        GoroutineInv, Early, Late
  <2>5. races = {} => RollbackSnapshotRetained' /\ SnapshotInv(p)'
    BY <1>0, <1>27
    DEF recoveryWaitTarget, waitCoreHealthy, RollbackSnapshotRetained, SnapshotInv, Cleanup,
        TypeOK
  <2>6. UNCHANGED races /\ InUpdate(p)
    BY <1>27
    DEF recoveryWaitTarget, waitCoreHealthy, InUpdate, Cleanup
  <2>7. \E label, locals : Enter(p, label, locals)
    BY <1>27
    DEF recoveryWaitTarget, waitCoreHealthy
  <2> QED
    BY <2>1, <2>2, <2>3, <2>4, <2>5, <2>6, <2>7, UpdateStepPreserves
<1>28. CASE clearRollbackCompose(p)
  <2>1. pc[p] \in Cleanup /\ \E label \in {"free", "cleanRemove"} : Goto(p, label)
    BY <1>28 DEF clearRollbackCompose, Cleanup
  <2>2. /\ UNCHANGED <<disk, mem, stack, health, races>>
        /\ snap' \in {snap, NoSHA} /\ faults' \in 0..MaxFaults
    BY <1>0, <1>28, ConstantsAssumption DEF clearRollbackCompose, TypeOK
  <2> QED
    BY <2>1, <2>2, CleanupPreserves
<1>29. CASE recoveryCleanCheck(p)
  <2>1. pc[p] \in Cleanup /\ \E label \in {"free", "cleanRemove"} : Goto(p, label)
    BY <1>29 DEF recoveryCleanCheck, Cleanup
  <2>2. /\ UNCHANGED <<disk, mem, stack, health, races>>
        /\ snap' \in {snap, NoSHA} /\ faults' \in 0..MaxFaults
    BY <1>0, <1>29, ConstantsAssumption DEF recoveryCleanCheck, TypeOK
  <2> QED
    BY <2>1, <2>2, CleanupPreserves
<1>30. CASE recoveryCleanRemove(p)
  <2>1. pc[p] \in Cleanup /\ \E label \in {"free", "cleanRemove"} : Goto(p, label)
    BY <1>30 DEF recoveryCleanRemove, Cleanup
  <2>2. /\ UNCHANGED <<disk, mem, stack, health, races>>
        /\ snap' \in {snap, NoSHA} /\ faults' \in 0..MaxFaults
    BY <1>0, <1>30, ConstantsAssumption DEF recoveryCleanRemove, TypeOK
  <2> QED
    BY <2>1, <2>2, CleanupPreserves
<1>31. CASE recoveryDispatch(p)
  BY <1>31, DispatchPreserves
<1> QED
  BY <1>1, <1>2, <1>3, <1>4, <1>5, <1>6, <1>7, <1>8, <1>9, <1>10, <1>11, <1>12, <1>13, <1>14,
     <1>15, <1>16, <1>17, <1>18, <1>19, <1>20, <1>21, <1>22, <1>23, <1>24, <1>25, <1>26, <1>27,
     <1>28, <1>29, <1>30, <1>31
  DEF Step, ApplyStep, RollbackStep, RecoveryStep

(* Admission of a request: the file is not busy, so nobody is inside an update
   unless recovery has adopted a live request. *)
LEMMA AdmitPreserves ==
    ASSUME IInv, NEW r \in Requests, NEW sha \in SHA \cup {Malformed}, applyAdmit(r, sha)
    PROVE  IInv'
<1> USE DEF Enter, Fault, NoFault, durable, world
<1>1. r \in Procs /\ pc \in [Procs -> Labels] /\ job \in [Procs -> States]
  BY DEF Procs, IInv, TypeOK
<1>2. /\ snap' = NoSHA /\ UNCHANGED <<stack, health>>
      /\ disk.status \notin Busy /\ races \subseteq races'
      /\ races' = {} => \A p \in Procs : pc[p] \notin Cleanup
  BY DEF applyAdmit, OvertakesCleanup, IInv, TypeOK
<1>3. "adopted" \in races' <=> "adopted" \in races
  BY DEF applyAdmit, OvertakesCleanup
<1>4. "adopted" \notin races => \A p \in Procs : ~InUpdate(p)
  BY <1>2, UpdateIsBusy
<1>5. races' \subseteq {"adopted", "overtaken"}
  BY DEF applyAdmit, OvertakesCleanup, IInv, TypeOK
<1>6. CASE UNCHANGED <<disk, mem, pc, job>>
  <2>1. TypeOK'
    BY <1>2, <1>5, <1>6, ConstantsAssumption DEF applyAdmit, IInv, TypeOK, validateUpdateState
  <2>2. UpgradeOnly' /\ TruthfulUnlessAdopted' /\ RollbackSnapshotRetained'
    BY <1>2, <1>3, <1>6
    DEF IInv, UpgradeOnly, TruthfulUnlessAdopted, TerminalStateTruthful, RollbackSnapshotRetained
  <2>3. /\ \A p \in Procs : LocalInv(p)'
        /\ SingleTransaction'
        /\ "adopted" \notin races' => \A p \in Procs : GoroutineInv(p)'
    BY <1>2, <1>3, <1>6 DEF IInv, LocalInv, SingleTransaction, InUpdate, GoroutineInv
  <2>4. races' = {} => \A p \in Procs : SnapshotInv(p)'
    BY <1>2, <1>4, <1>6 DEF SnapshotInv, InUpdate, Cleanup
  <2> QED
    BY <2>1, <2>2, <2>3, <2>4 DEF IInv, SnapshotRetainedUnlessRaced
<1>7. CASE /\ persistStateLocked(UpdateState("applying", NoSHA, sha))
           /\ Enter(r, "discover", UpdateState("applying", NoSHA, sha))
           /\ UNCHANGED faults
  <2>0. /\ disk' = UpdateState("applying", NoSHA, sha) /\ mem' = disk'
        /\ validateUpdateState(disk') /\ disk' \in States /\ sha \in SHA
    BY <1>7, ConstantsAssumption
    DEF persistStateLocked, UpdateState, States, Statuses, Busy, validateUpdateState
  <2>1. TypeOK'
    <3>1. pc' \in [Procs -> Labels] /\ job' \in [Procs -> States]
      BY <1>1, <1>7, <2>0 DEF Labels
    <3> QED
      BY <1>2, <1>5, <1>7, <2>0, <3>1, ConstantsAssumption DEF IInv, TypeOK, validateUpdateState
  <2>2. UpgradeOnly' /\ TruthfulUnlessAdopted' /\ RollbackSnapshotRetained'
    BY <2>0
    DEF UpdateState, UpgradeOnly, TruthfulUnlessAdopted, TerminalStateTruthful,
        RollbackSnapshotRetained
  <2>3. /\ \A p \in Procs : p # r => pc'[p] = pc[p] /\ job'[p] = job[p]
        /\ pc'[r] = "discover" /\ job'[r] = disk'
    BY <1>1, <1>7, <2>0
  <2>4. \A p \in Procs : LocalInv(p)'
    <3>1. LocalInv(r)'
      BY <2>0, <2>3 DEF LocalInv, Early, Late, UpdateState
    <3> QED
      BY <2>3, <3>1 DEF IInv, LocalInv
  <2>5. ASSUME "adopted" \notin races'
        PROVE  SingleTransaction' /\ \A p \in Procs : GoroutineInv(p)'
    <3>1. \A p \in Procs : p # r => ~InUpdate(p)'
      BY <1>3, <1>4, <2>3, <2>5 DEF InUpdate
    <3>2. GoroutineInv(r)'
      BY <2>0, <2>3 DEF GoroutineInv, Early, Late, UpdateState
    <3>3. ASSUME NEW p \in Procs, p # r PROVE GoroutineInv(p)'
      BY <3>1, <3>3 DEF GoroutineInv, InUpdate, Cleanup, Early, Late
    <3> QED
      BY <3>1, <3>2, <3>3 DEF SingleTransaction
  <2>6. races' = {} => \A p \in Procs : SnapshotInv(p)'
    BY <1>2, <1>4, <2>3 DEF SnapshotInv, InUpdate, Cleanup
  <2> QED
    BY <2>1, <2>2, <2>4, <2>5, <2>6 DEF IInv, SnapshotRetainedUnlessRaced, SingleTransaction
<1> QED
  BY <1>6, <1>7 DEF applyAdmit

(* A restart forgets the goroutines and reloads what the disk holds. *)
LEMMA RestartPreserves ==
    ASSUME IInv, Restart
    PROVE  IInv'
<1>1. /\ UNCHANGED <<disk, snap, stack, health, races>> /\ mem' = disk
      /\ \A p \in Procs : pc'[p] \in {"boot", "free"}
  BY DEF Restart, world
<1>2. TypeOK'
  BY ConstantsAssumption
  DEF Restart, world, Fault, NoFault, IInv, TypeOK, Labels, States, Statuses, Idle, UpdateState,
      validateUpdateState
<1>3. UpgradeOnly' /\ TruthfulUnlessAdopted' /\ SnapshotRetainedUnlessRaced'
  BY <1>1
  DEF IInv, UpgradeOnly, TruthfulUnlessAdopted, TerminalStateTruthful,
      SnapshotRetainedUnlessRaced, RollbackSnapshotRetained
<1>4. \A p \in Procs : LocalInv(p)' /\ GoroutineInv(p)' /\ SnapshotInv(p)'
  BY <1>1 DEF LocalInv, GoroutineInv, SnapshotInv, Early, Late, Cleanup
<1>5. SingleTransaction'
  BY <1>1 DEF SingleTransaction, InUpdate
<1> QED
  BY <1>2, <1>3, <1>4, <1>5 DEF IInv

(* The invariant holds initially. *)
LEMMA InitInvariant ==
    Init => IInv
<1> SUFFICES ASSUME Init PROVE IInv
  OBVIOUS
<1>1. TypeOK
  BY ConstantsAssumption
  DEF Init, TypeOK, Idle, UpdateState, States, Statuses, validateUpdateState, Labels
<1>2. UpgradeOnly /\ TruthfulUnlessAdopted /\ SnapshotRetainedUnlessRaced
  BY DEF Init, Idle, UpdateState, UpgradeOnly, TruthfulUnlessAdopted, TerminalStateTruthful,
         SnapshotRetainedUnlessRaced, RollbackSnapshotRetained, Busy
<1>3. \A p \in Procs : LocalInv(p) /\ GoroutineInv(p) /\ SnapshotInv(p)
  BY DEF Init, LocalInv, GoroutineInv, SnapshotInv, Early, Late, Cleanup
<1>4. SingleTransaction
  BY DEF Init, SingleTransaction, InUpdate
<1> QED
  BY <1>1, <1>2, <1>3, <1>4 DEF IInv

(* A step that changes nothing, or only spends a fault, preserves it. *)
LEMMA StutterPreserves ==
    ASSUME IInv, UNCHANGED <<disk, mem, snap, stack, health, pc, job, races>>,
           faults' \in 0..MaxFaults
    PROVE  IInv'
BY DEF IInv, TypeOK, UpgradeOnly, LocalInv, TruthfulUnlessAdopted, TerminalStateTruthful,
       SingleTransaction, InUpdate, GoroutineInv, SnapshotRetainedUnlessRaced,
       RollbackSnapshotRetained, SnapshotInv, validateUpdateState

(* Every step of the specification preserves it. *)
LEMMA NextInvariant ==
    IInv /\ [Next]_vars => IInv'
<1> SUFFICES ASSUME IInv, [Next]_vars PROVE IInv'
  OBVIOUS
<1>1. CASE UNCHANGED vars
  BY <1>1, StutterPreserves DEF vars, IInv, TypeOK
<1>2. CASE \E r \in Requests, sha \in SHA \cup {Malformed} : applyAdmit(r, sha)
  BY <1>2, AdmitPreserves
<1>3. CASE \E p \in Procs : Step(p)
  BY <1>3, StepPreserves
<1>4. CASE Restart
  BY <1>4, RestartPreserves
<1> QED
  BY <1>1, <1>2, <1>3, <1>4 DEF Next

(* For every set of releases and requests and any number of faults, restarts and
   races, the inductive invariant holds in every reachable state. *)
THEOREM Invariance ==
    Spec => []IInv
BY InitInvariant, NextInvariant, PTL DEF Spec

(* The rollback snapshot exists as long as a rollback may need it, unless a
   request overtook a clean-up or recovery adopted a live request. *)
THEOREM SnapshotTheorem ==
    Spec => []SnapshotRetainedUnlessRaced
<1>1. IInv => SnapshotRetainedUnlessRaced
  BY DEF IInv
<1> QED
  BY <1>1, Invariance, PTL

(* failed and complete describe what is deployed, health-verified, unless recovery
   adopted a live request. *)
THEOREM TruthTheorem ==
    Spec => []TruthfulUnlessAdopted
<1>1. IInv => TruthfulUnlessAdopted
  BY DEF IInv
<1> QED
  BY <1>1, Invariance, PTL

(* No two goroutines are inside an update, unless recovery adopted a live
   request: the status keeps a second request out. *)
THEOREM ExclusionTheorem ==
    Spec => []SingleTransaction
<1>1. IInv => SingleTransaction
  BY DEF IInv
<1> QED
  BY <1>1, Invariance, PTL

(* Type correctness, in every interleaving; in particular a restart can always load
   the state file. *)
THEOREM TypeTheorem ==
    Spec => []TypeOK
<1>1. IInv => TypeOK
  BY DEF IInv
<1> QED
  BY <1>1, Invariance, PTL

(* In every interleaving, an update that the state file calls unfinished and that
   names its previous release leads to a strict descendant of it: no race makes
   recovery resume, or a handler record, a downgrade. *)
THEOREM UpgradeTheorem ==
    Spec => []UpgradeOnly
<1>1. IInv => UpgradeOnly
  BY DEF IInv
<1> QED
  BY <1>1, Invariance, PTL

(* Only the three PUTs of an update change the stack. *)
LEMMA OnlyPutsChangeStack ==
    ASSUME NEW p \in Procs, Step(p), stack' # stack
    PROVE  pc[p] \in Late
<1>1. applyPhaseOne(p) \/ applyPhaseTwo(p) \/ restorePut(p)
  BY DEF Step, ApplyStep, RollbackStep, RecoveryStep, world, waitCoreHealthy, applyDiscover,
         applyNoop, applyVerify, applySave, applyCheckpoint, applyUnsave, failState,
         applyWaitOne, applyFinalize, applyWaitTwo, applyIdentify, completeRecoveredUpdate,
         clearRollbackCompose, rollbackBegin, loadRollbackCompose, restoreProbe,
         restoreProbeWait, restoreWait, restoreIdentify, rollbackIncomplete, rollbackComplete,
         recoveryDispatch, recoveryCleanCheck, recoveryCleanRemove, recoveryCloseEarly,
         recoveryFind, recoveryProbeTarget, recoveryWaitTarget
<1> QED
  BY <1>1 DEF applyPhaseOne, applyPhaseTwo, restorePut, Late

(* They run inside a transaction that names its from_sha, with the snapshot in
   place, but for the races. *)
LEMMA StepIsCovered ==
    ASSUME IInv, NEW p \in Procs, Step(p), stack' # stack
    PROVE  /\ "adopted" \notin races => disk.status \in Busy /\ disk.from \in SHA
           /\ races = {} => snap = disk.from
<1>1. pc[p] \in Late /\ LocalInv(p)
  BY OnlyPutsChangeStack DEF IInv
<1>2. "adopted" \notin races => disk.status \in Busy /\ disk.from \in SHA
  BY <1>1, ConstantsAssumption DEF IInv, LocalInv, GoroutineInv
<1> QED
  BY <1>2, ConstantsAssumption DEF IInv, SnapshotRetainedUnlessRaced, RollbackSnapshotRetained

(* Portainer is never written outside a covered transaction, but for the races. *)
THEOREM MutationTheorem ==
    Spec => MutationIsCovered
<1>1. IInv /\ [Next]_vars =>
        [stack' # stack =>
           /\ "adopted" \notin races => disk.status \in Busy /\ disk.from \in SHA
           /\ races = {} => snap = disk.from]_vars
  <2> SUFFICES ASSUME IInv, Next, stack' # stack
               PROVE  /\ "adopted" \notin races => disk.status \in Busy /\ disk.from \in SHA
                      /\ races = {} => snap = disk.from
    OBVIOUS
  <2>1. \E p \in Procs : Step(p)
    BY DEF Next, applyAdmit, Restart, world
  <2> QED
    BY <2>1, StepIsCovered
<1> QED
  BY <1>1, Invariance, PTL DEF Spec, MutationIsCovered

-----------------------------------------------------------------------------
(* The initial states of the controller are initial states of the abstract
   deployment. *)
LEMMA RefinesInit ==
    Init => Deployment!Init
BY ConstantsAssumption
DEF Init, Idle, UpdateState, Busy, Deployment!Init, InTransaction, CurrentRelease,
    PendingRelease, composeSHA, Compose

(* Unless recovery has adopted a live request, a step of a goroutine is
   invisible, or begins, commits or aborts the abstract transaction. *)
LEMMA RefinesStep ==
    ASSUME IInv, NEW p \in Procs, Step(p), "adopted" \notin races
    PROVE  \/ Deployment!Begin \/ Deployment!Commit \/ Deployment!Abort
           \/ UNCHANGED <<CurrentRelease, PendingRelease>>
<1> USE DEF Goto, Enter, Fault, NoFault, durable, world
<1>0. TypeOK /\ GoroutineInv(p) /\ LocalInv(p)
  BY DEF IInv
<1>1. CASE UNCHANGED <<disk, stack>>
  BY <1>1 DEF CurrentRelease, PendingRelease, InTransaction
<1>2. CASE UNCHANGED disk /\ stack' # stack
  BY <1>2, StepIsCovered, ConstantsAssumption DEF CurrentRelease, PendingRelease, InTransaction
<1>3. CASE disk' # disk /\ pc[p] \in Early
  <2>1. CASE applyCheckpoint(p)
    <3>1. /\ disk = UpdateState("applying", NoSHA, job[p].target)
          /\ disk' = job[p] /\ job[p].status = "applying" /\ job[p].from \in SHA
          /\ stack = Exact(job[p].from) /\ stack' = stack
          /\ <<job[p].from, job[p].target>> \in Descends
      BY <1>0, <1>3, <2>1, ConstantsAssumption
      DEF applyCheckpoint, persistRecoveryState, persistStateLocked, GoroutineInv, LocalInv, Early
    <3>2. ~InTransaction /\ InTransaction' /\ job[p].target \in SHA
      BY <3>1, ConstantsAssumption DEF InTransaction, UpdateState, Busy
    <3>3. composeSHA(stack) = job[p].from
      BY <3>1 DEF composeSHA, Exact
    <3>4. /\ CurrentRelease = job[p].from /\ CurrentRelease' = job[p].from
          /\ PendingRelease = NoSHA /\ PendingRelease' = job[p].target
      BY <3>1, <3>2, <3>3 DEF CurrentRelease, PendingRelease
    <3> QED
      BY <3>1, <3>2, <3>4 DEF Deployment!Begin
  <2>2. CASE applyNoop(p) \/ failState(p) \/ recoveryCloseEarly(p)
    <3>1. disk'.status \in Terminal /\ stack' = stack
      BY <1>0, <1>3, <2>2
      DEF applyNoop, failState, recoveryCloseEarly, persistRecoveryState, persistStateLocked,
          TypeOK, States, UpdateState, Terminal
    <3>2. disk.from = NoSHA
      BY <1>0, <1>3 DEF GoroutineInv, UpdateState
    <3> QED
      BY <3>1, <3>2 DEF Terminal, Busy, InTransaction, CurrentRelease, PendingRelease
  <2> QED
    BY <1>3, <2>1, <2>2
    DEF Step, ApplyStep, RollbackStep, RecoveryStep, Early, applyDiscover, applyNoop,
        applyVerify, applySave, applyCheckpoint, applyUnsave, failState, applyPhaseOne,
        applyWaitOne, applyFinalize, applyPhaseTwo, applyWaitTwo, applyIdentify,
        completeRecoveredUpdate, clearRollbackCompose, rollbackBegin, loadRollbackCompose,
        restoreProbe, restoreProbeWait, restorePut, restoreWait, restoreIdentify,
        rollbackIncomplete, rollbackComplete, recoveryDispatch, recoveryCleanCheck,
        recoveryCleanRemove, recoveryCloseEarly, recoveryFind, recoveryProbeTarget,
        recoveryWaitTarget
<1>4. CASE disk' # disk /\ pc[p] \in Late
  <2>0. /\ disk.status \in Busy /\ disk.from = job[p].from /\ disk.target = job[p].target
        /\ job[p].from \in SHA /\ job[p].target \in SHA
    BY <1>0, <1>4, ConstantsAssumption DEF GoroutineInv, LocalInv
  <2>1. CASE applyFinalize(p) \/ rollbackBegin(p) \/ rollbackIncomplete(p)
    BY <1>0, <1>4, <2>0, <2>1
    DEF applyFinalize, rollbackBegin, rollbackIncomplete, persistRecoveryState, persistStateLocked,
        TypeOK, States, Busy, InTransaction, CurrentRelease, PendingRelease
  <2>2. CASE completeRecoveredUpdate(p)
    <3>1. disk'.status = "complete" /\ stack' = stack /\ stack = Exact(job[p].target)
      BY <1>0, <1>4, <2>2
      DEF completeRecoveredUpdate, persistRecoveryState, persistStateLocked, GoroutineInv,
          TypeOK, States
    <3>2. /\ CurrentRelease' = job[p].target /\ PendingRelease' = NoSHA
          /\ PendingRelease = job[p].target
      BY <2>0, <3>1, ConstantsAssumption
      DEF CurrentRelease, PendingRelease, InTransaction, Busy, composeSHA, Exact
    <3> QED
      BY <2>0, <3>2, ConstantsAssumption DEF Deployment!Commit
  <2>3. CASE rollbackComplete(p)
    <3>1. disk'.status = "failed" /\ stack' = stack /\ stack = Exact(job[p].from)
      BY <1>0, <1>4, <2>3
      DEF rollbackComplete, persistRecoveryState, persistStateLocked, GoroutineInv, TypeOK, States
    <3>2. /\ CurrentRelease' = job[p].from /\ PendingRelease' = NoSHA
          /\ CurrentRelease = job[p].from /\ PendingRelease = job[p].target
      BY <2>0, <3>1, ConstantsAssumption
      DEF CurrentRelease, PendingRelease, InTransaction, Busy, composeSHA, Exact
    <3> QED
      BY <2>0, <3>2, ConstantsAssumption DEF Deployment!Abort
  <2> QED
    BY <1>4, <2>1, <2>2, <2>3
    DEF Step, ApplyStep, RollbackStep, RecoveryStep, Late, applyDiscover, applyNoop,
        applyVerify, applySave, applyCheckpoint, applyUnsave, failState, applyPhaseOne,
        applyWaitOne, applyFinalize, applyPhaseTwo, applyWaitTwo, applyIdentify,
        completeRecoveredUpdate, clearRollbackCompose, rollbackBegin, loadRollbackCompose,
        restoreProbe, restoreProbeWait, restorePut, restoreWait, restoreIdentify,
        rollbackIncomplete, rollbackComplete, recoveryDispatch, recoveryCleanCheck,
        recoveryCleanRemove, recoveryCloseEarly, recoveryFind, recoveryProbeTarget,
        recoveryWaitTarget
<1>5. disk' # disk => pc[p] \in Early \cup Late
  BY DEF Step, ApplyStep, RollbackStep, RecoveryStep, Early, Late, applyDiscover, applyNoop,
         applyVerify, applySave, applyCheckpoint, applyUnsave, failState, applyPhaseOne,
         applyWaitOne, applyFinalize, applyPhaseTwo, applyWaitTwo, applyIdentify,
         completeRecoveredUpdate, clearRollbackCompose, rollbackBegin, loadRollbackCompose,
         restoreProbe, restoreProbeWait, restorePut, restoreWait, restoreIdentify,
         rollbackIncomplete, rollbackComplete, recoveryDispatch, recoveryCleanCheck,
         recoveryCleanRemove, recoveryCloseEarly, recoveryFind, recoveryProbeTarget,
         recoveryWaitTarget
<1> QED
  BY <1>1, <1>2, <1>3, <1>4, <1>5

(* Races are never forgotten. *)
LEMMA RacesGrow ==
    ASSUME [Next]_vars
    PROVE  races \subseteq races'
BY DEF Next, Step, ApplyStep, RollbackStep, RecoveryStep, vars, Restart, applyAdmit,
       OvertakesCleanup, AdoptsLiveRequest, applyDiscover, applyNoop,
       applyVerify, applySave, applyCheckpoint, applyUnsave, failState, applyPhaseOne,
       applyWaitOne, applyFinalize, applyPhaseTwo, applyWaitTwo, applyIdentify,
       completeRecoveredUpdate, clearRollbackCompose, rollbackBegin, loadRollbackCompose,
       restoreProbe, restoreProbeWait, restorePut, restoreWait, restoreIdentify,
       rollbackIncomplete, rollbackComplete, recoveryDispatch, recoveryCleanCheck,
       recoveryCleanRemove, recoveryCloseEarly, recoveryFind, recoveryProbeTarget,
       recoveryWaitTarget

(* A step of the controller maps to a step of the abstract deployment or to a
   stutter; the one in which recovery adopts a live request ends the promise. *)
LEMMA RefinesNext ==
    ASSUME IInv, [Next]_vars
    PROVE  [Deployment!Next]_<<CurrentRelease, PendingRelease, "adopted" \in races>>
<1>0. races \subseteq races'
  BY RacesGrow
<1>1. CASE "adopted" \in races'
  BY <1>1 DEF Deployment!Next, Deployment!Void
<1>2. CASE "adopted" \notin races'
  <2>0. ("adopted" \in races) = FALSE /\ ("adopted" \in races') = FALSE
    BY <1>0, <1>2
  <2>1. CASE \E p \in Procs : Step(p)
    BY <1>0, <1>2, <2>0, <2>1, RefinesStep DEF Deployment!Next
  <2>2. CASE Restart \/ UNCHANGED vars
    BY <2>0, <2>2 DEF Restart, world, vars, CurrentRelease, PendingRelease, InTransaction
  <2>3. ASSUME NEW r \in Requests, NEW sha \in SHA \cup {Malformed}, applyAdmit(r, sha)
        PROVE  UNCHANGED <<CurrentRelease, PendingRelease>>
    BY <2>3
    DEF applyAdmit, IInv, TypeOK, persistStateLocked, UpdateState, durable, world, Busy,
        CurrentRelease, PendingRelease, InTransaction
  <2> QED
    BY <2>0, <2>1, <2>2, <2>3 DEF Next
<1> QED
  BY <1>1, <1>2

(* The controller implements the atomic deployment: until recovery adopts a live
   request, every reachable step is invisible, or begins, commits or aborts one
   transaction. *)
THEOREM RefinementTheorem ==
    Spec => ImplementsAtomicDeployment
<1>1. IInv /\ [Next]_vars =>
        [Deployment!Next]_<<CurrentRelease, PendingRelease, "adopted" \in races>>
  BY RefinesNext
<1> QED
  BY <1>1, RefinesInit, Invariance, PTL DEF Spec, ImplementsAtomicDeployment, Deployment!Spec

-----------------------------------------------------------------------------
(***************************************************************************)
(* The scheduler next to the controller.                                   *)
(***************************************************************************)

(* What the scheduler's reading of the status is still worth: a reading that was
   not busy is what the file says, or an operator has been in between, or recovery
   has adopted a live request. *)
ReadingInv ==
    "adopted" \notin races /\ auto \in {"stack", "check", "apply"} /\ view.state.status \notin Busy =>
        disk = view.state \/ disk.target \in tried

(* Where the cycle is, and what it may post. *)
CycleInv ==
    /\ view \in [state : States, current : SHA \cup {Unknown}]
    /\ auto \in {"check", "apply"} => view.state.status \notin Busy
    /\ auto = "apply" =>
           /\ offer \in SHA
           /\ ~(view.state.status = "failed" /\ view.state.target = offer)

(* The inductive invariant of the composition. *)
AutoInv == IInv /\ ReadingInv /\ CycleInv

(* A non-empty set of indices has a least element. *)
LEMMA LeastIndex ==
    ASSUME NEW I \in SUBSET Nat, I # {}
    PROVE  \E i \in I : \A j \in I : i <= j
<1>1. PICK i \in I : \A j \in I : <<j, i>> \notin OpToRel(<, Nat)
  BY NatLessThanWellFounded, WFMin
<1>2. \A j \in I : ~(j < i)
  BY <1>1 DEF OpToRel
<1> QED
  BY <1>2

(* latestVerified finds a full SHA or nothing, whatever evidence CI has published. *)
LEMMA LatestIsExact ==
    ASSUME NEW current
    PROVE  latestVerified(current) \in SHA \cup {NoSHA}
<1> DEFINE eligible == {i \in 1..Len(verified) :
                           verified[i] = current \/ <<current, verified[i]>> \in Descends}
<1> SUFFICES ASSUME current \in SHA, eligible # {}
             PROVE  verified[CHOOSE i \in eligible : \A j \in eligible : i <= j] \in SHA
  BY DEF latestVerified
<1>1. eligible \in SUBSET Nat
  OBVIOUS
<1>2. \E i \in eligible : \A j \in eligible : i <= j
  <2> HIDE DEF eligible
  <2> QED
    BY <1>1, LeastIndex
<1>3. (CHOOSE i \in eligible : \A j \in eligible : i <= j) \in eligible
  <2> HIDE DEF eligible
  <2> QED
    BY <1>2
<1>4. \A i \in eligible : verified[i] \in SHA
  BY ConstantsAssumption
<1> QED
  <2> HIDE DEF eligible
  <2> QED
    BY <1>3, <1>4

(* The goroutines write the file inside the transaction that it names only, and
   keep its target. *)
LEMMA StepKeepsTarget ==
    ASSUME IInv, NEW p \in Procs, Step(p), disk' # disk, "adopted" \notin races
    PROVE  disk.status \in Busy /\ disk'.target = disk.target
<1> USE DEF Goto, Enter, Fault, NoFault, durable, world
<1>0. GoroutineInv(p) /\ TypeOK
  BY DEF IInv
<1>1. CASE applyNoop(p) \/ applyCheckpoint(p) \/ failState(p) \/ recoveryCloseEarly(p)
  BY <1>0, <1>1
  DEF applyNoop, applyCheckpoint, failState, recoveryCloseEarly, persistRecoveryState,
      persistStateLocked, GoroutineInv, Early, UpdateState, Busy, TypeOK, States
<1>2. CASE applyFinalize(p) \/ completeRecoveredUpdate(p) \/ rollbackBegin(p)
           \/ rollbackIncomplete(p) \/ rollbackComplete(p)
  BY <1>0, <1>2
  DEF applyFinalize, completeRecoveredUpdate, rollbackBegin, rollbackIncomplete,
      rollbackComplete, persistRecoveryState, persistStateLocked, GoroutineInv, Late, TypeOK,
      States
<1> QED
  BY <1>1, <1>2
  DEF Step, ApplyStep, RollbackStep, RecoveryStep, applyDiscover,
      applyNoop, applyVerify, applySave, applyCheckpoint, applyUnsave, failState, applyPhaseOne,
      applyWaitOne, applyFinalize, applyPhaseTwo, applyWaitTwo, applyIdentify,
      completeRecoveredUpdate, clearRollbackCompose, rollbackBegin, loadRollbackCompose,
      restoreProbe, restoreProbeWait, restorePut, restoreWait, restoreIdentify,
      rollbackIncomplete, rollbackComplete, recoveryDispatch, recoveryCleanCheck,
      recoveryCleanRemove, recoveryCloseEarly, recoveryFind, recoveryProbeTarget,
      recoveryWaitTarget

(* The scheduler is one more client of the controller: apart from a call of its
   own that fails, a step of the composition is a step of the controller. *)
LEMMA AutoStep ==
    ASSUME AutoInv, [AutoNext]_allVars
    PROVE  [Next]_vars \/ (UNCHANGED <<disk, mem, snap, stack, health, pc, job, races>> /\ Fault)
<1>1. CASE autoApply
  BY <1>1, AutoAssumption DEF autoApply, Next, AutoInv, CycleInv
<1>2. CASE OperatorApplies
  BY <1>2 DEF OperatorApplies, Next
<1>3. CASE ControllerStep
  BY <1>3 DEF ControllerStep, Next
<1>4. CASE ControllerRestart
  BY <1>4 DEF ControllerRestart, Next
<1>5. CASE autoAbandon
  BY <1>5 DEF autoAbandon
<1>6. CASE Cycle \/ (\E sha \in SHA : Publish(sha)) \/ UNCHANGED allVars
  BY <1>6 DEF Cycle, autoStatus, autoStack, autoCheck, autoConflict, autoWait, Publish, allVars
<1> QED
  BY <1>1, <1>2, <1>3, <1>4, <1>5, <1>6 DEF AutoNext

(* The controller's invariant does not depend on who posts the requests. *)
LEMMA AutoKeepsController ==
    ASSUME AutoInv, [AutoNext]_allVars
    PROVE  IInv'
<1>1. CASE [Next]_vars
  BY <1>1, NextInvariant DEF AutoInv
<1>2. CASE UNCHANGED <<disk, mem, snap, stack, health, pc, job, races>> /\ Fault
  BY <1>2, StutterPreserves, ConstantsAssumption DEF Fault, AutoInv, IInv, TypeOK
<1> QED
  BY <1>1, <1>2, AutoStep

(* What a request writes to the file names its own target. *)
LEMMA AdmitTargets ==
    ASSUME NEW r \in Requests, NEW sha, applyAdmit(r, sha)
    PROVE  disk' = disk \/ disk'.target = sha
BY DEF applyAdmit, persistStateLocked, UpdateState, durable

(* A reading stays good, or an operator is to blame. *)
LEMMA ReadingPreserved ==
    ASSUME AutoInv, [AutoNext]_allVars
    PROVE  ReadingInv'
<1> USE DEF AutoInv, ReadingInv
<1>0. races \subseteq races'
  BY AutoStep, RacesGrow
<1>1. CASE OperatorApplies
  <2>1. PICK r \in Requests \ {Scheduler}, sha \in SHA :
            applyAdmit(r, sha) /\ tried' = tried \cup {sha} /\ UNCHANGED <<auto, view>>
    BY <1>1 DEF OperatorApplies
  <2> QED
    BY <1>0, <2>1, AdmitTargets
<1>2. CASE ControllerStep
  BY <1>0, <1>2, StepKeepsTarget DEF ControllerStep, autoVars
<1>3. CASE ControllerRestart
  BY <1>3 DEF ControllerRestart, Restart, world, autoVars
<1>4. CASE autoApply \/ autoAbandon
  BY <1>4 DEF autoApply, autoAbandon, Sleep
<1>5. CASE autoStatus
  BY <1>5 DEF autoStatus, vars, IInv, TypeOK
<1>6. CASE autoStack
  BY <1>6 DEF autoStack, Sleep, vars, CycleInv
<1>7. CASE autoCheck
  <2>1. auto = "check" /\ UNCHANGED <<disk, tried, races>> /\ (auto' = "sleep" \/ view' = view)
    BY <1>7 DEF autoCheck, Sleep, vars
  <2> QED
    BY <2>1
<1>8. CASE autoConflict \/ autoWait
  BY <1>8 DEF autoConflict, autoWait, Sleep
<1>9. CASE (\E sha \in SHA : Publish(sha)) \/ UNCHANGED allVars
  <2>1. UNCHANGED <<disk, auto, view, tried, races>>
    BY <1>9 DEF Publish, vars, allVars, autoVars
  <2> QED
    BY <2>1
<1> QED
  BY <1>1, <1>2, <1>3, <1>4, <1>5, <1>6, <1>7, <1>8, <1>9 DEF AutoNext, Cycle

(* The cycle gives up unless it may post. *)
LEMMA CyclePreserved ==
    ASSUME AutoInv, [AutoNext]_allVars
    PROVE  CycleInv'
<1> USE DEF AutoInv, CycleInv
<1>0. NoView \in [state : States, current : SHA \cup {Unknown}]
  BY DEF NoView, Idle, UpdateState, States, Statuses
<1>1. CASE autoStatus
  BY <1>1 DEF autoStatus, IInv, TypeOK
<1>2. CASE autoStack
  <2>1. composeSHA(stack) \in SHA \cup {Unknown}
    BY DEF IInv, TypeOK, Compose, composeSHA
  <2> QED
    BY <1>0, <1>2, <2>1 DEF autoStack, Sleep
<1>3. CASE autoCheck
  <2>1. latestVerified(composeSHA(stack)) \in SHA \cup {NoSHA}
    BY LatestIsExact
  <2> QED
    BY <1>0, <1>3, <2>1 DEF autoCheck, Sleep
<1>4. CASE autoApply \/ autoAbandon \/ autoConflict \/ autoWait
  BY <1>0, <1>4 DEF autoApply, autoAbandon, autoConflict, autoWait, Sleep
<1>5. CASE OperatorApplies \/ ControllerStep \/ ControllerRestart
           \/ (\E sha \in SHA : Publish(sha)) \/ UNCHANGED allVars
  BY <1>5 DEF OperatorApplies, ControllerStep, ControllerRestart, Publish, allVars, autoVars
<1> QED
  BY <1>1, <1>2, <1>3, <1>4, <1>5 DEF AutoNext, Cycle

(* The invariant of the scheduler, the operators and the controller together. *)
THEOREM AutoInvariance ==
    AutoSpec => []AutoInv
<1>1. AutoInit => AutoInv
  <2> SUFFICES ASSUME AutoInit PROVE AutoInv
    OBVIOUS
  <2>1. Idle \in States
    BY DEF Idle, UpdateState, States, Statuses
  <2> QED
    BY <2>1, InitInvariant DEF AutoInit, AutoInv, ReadingInv, CycleInv, NoView
<1>2. AutoInv /\ [AutoNext]_allVars => AutoInv'
  BY AutoKeepsController, ReadingPreserved, CyclePreserved DEF AutoInv
<1> QED
  BY <1>1, <1>2, PTL DEF AutoSpec

(* The scheduler posts a target only if it is not the one that failed last, or an
   operator has asked for it, too, or recovery adopted a live request (cycle of
   update-auto, applyUpdate). *)
THEOREM RetryTheorem ==
    AutoSpec => FailedTargetNotRetried
<1>1. AutoInv /\ [AutoNext]_allVars =>
        [auto = "apply" /\ auto' = "wait" /\ disk' # disk /\ "adopted" \notin races =>
           ~(disk.status = "failed" /\ disk.target = offer /\ offer \notin tried)]_allVars
  BY DEF AutoInv, ReadingInv, CycleInv, Busy
<1> QED
  BY <1>1, AutoInvariance, PTL DEF AutoSpec, FailedTargetNotRetried

(* What the controller promises about its file and its snapshot holds next to the
   scheduler as well, up to the same races. *)
THEOREM AutoControllerTheorem ==
    AutoSpec => [](SnapshotRetainedUnlessRaced /\ TruthfulUnlessAdopted /\ SingleTransaction)
<1>1. AutoInv => SnapshotRetainedUnlessRaced /\ TruthfulUnlessAdopted /\ SingleTransaction
  BY DEF AutoInv, IInv
<1> QED
  BY <1>1, AutoInvariance, PTL

(* And scheduler, operators and controller together implement the atomic
   deployment, which ends where recovery adopts a live request. *)
THEOREM AutoRefinementTheorem ==
    AutoSpec => ImplementsAtomicDeployment
<1>1. AutoInit => Deployment!Init
  BY RefinesInit DEF AutoInit
<1>2. AutoInv /\ [AutoNext]_allVars => [Deployment!Next]_<<CurrentRelease, PendingRelease, "adopted" \in races>>
  <2> SUFFICES ASSUME AutoInv, [AutoNext]_allVars
               PROVE  [Deployment!Next]_<<CurrentRelease, PendingRelease, "adopted" \in races>>
    OBVIOUS
  <2>1. CASE [Next]_vars
    BY <2>1, RefinesNext DEF AutoInv
  <2>2. CASE UNCHANGED <<disk, mem, snap, stack, health, pc, job, races>>
    BY <2>2 DEF CurrentRelease, PendingRelease, InTransaction
  <2> QED
    BY <2>1, <2>2, AutoStep
<1> QED
  BY <1>1, <1>2, AutoInvariance, PTL DEF AutoSpec, ImplementsAtomicDeployment, Deployment!Spec
=============================================================================
