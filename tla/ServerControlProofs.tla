------------------------- MODULE ServerControlProofs -------------------------
(***************************************************************************)
(* Proofs about ServerControl, for any sets of peers and any number of     *)
(* faults, restarts and peers that come back.                              *)
(***************************************************************************)
EXTENDS ServerControl, TLAPS

Adopting  == {"apply", "persist", "undo"}
Enforcing == {"collect", "remove", "verify"}

(* Who holds opMu, and where. *)
ControlInv ==
    /\ op = "none" <=> pc = "idle"
    /\ plane = "starting" <=> op = "startup"
    /\ plane = "disabled" => op = "none"
    /\ pc \in {"load", "reapply"} => op = "startup"
    /\ pc \in Enforcing => op \in {"emergency", "reconcile", "startup"}

(* s.state is the state file's content once it is loaded. *)
LoadedInv ==
    plane # "disabled" /\ pc # "load" => mem = disk

(* Emergency is adopted only by the operation that proved it, and the proof
   of a durable Emergency is not forgotten while the plane serves; only a
   Resume is to open ingress. *)
ProofInv ==
    /\ plane = "up" /\ disk.emergency = "on" => proof = "zero"
    /\ pc \in Adopting /\ goal.emergency = "on" => proof = "zero"
    /\ pc \in Adopting /\ goal.emergency = "on" => op = "emergency"
    /\ pc \in Adopting /\ goal.paused = "off" => op = "resume"

(* The table enforces the committed state, or the one being committed. *)
TableInv ==
    /\ plane # "disabled" /\ lost = "no" /\ pc \in {"idle", "apply"} \cup Enforcing =>
           live = renderServerControlRules(mem)
    /\ pc = "persist" => live = renderServerControlRules(goal) /\ lost = "no"

IInv == TypeOK /\ ControlInv /\ LoadedInv /\ ProofInv /\ TableInv

-----------------------------------------------------------------------------
(* The table of a state is open or blocked. *)
LEMMA RulesType ==
    ASSUME NEW state
    PROVE  renderServerControlRules(state) \in {"open", "blocked"}
BY DEF renderServerControlRules

(* The three states that setState is called with. *)
LEMMA StatesType ==
    /\ Running \in State /\ Running.emergency = "off" /\ Running.paused = "off"
    /\ Stopped \in State /\ Stopped.emergency = "off" /\ Stopped.paused = "on"
    /\ Emergency \in State /\ Emergency.emergency = "on" /\ Emergency.paused = "on"
    /\ Emergency # Stopped
BY DEF State, Running, Stopped, Emergency

(* The server control as the agent starts. *)
LEMMA InitInvariant ==
    Init => IInv
BY PeersAssumption, StatesType
DEF Init, IInv, TypeOK, ControlInv, LoadedInv, ProofInv, TableInv, Adopting, Enforcing

(* Every step preserves the invariant. *)
LEMMA NextInvariant ==
    IInv /\ [Next]_vars => IInv'
<1> SUFFICES ASSUME IInv, [Next]_vars PROVE IInv'
  OBVIOUS
<1> USE DEF Fault, NoFault, env, Return, Disable, SetState
<1>0. TypeOK /\ ControlInv /\ LoadedInv /\ ProofInv /\ TableInv
  BY DEF IInv
<1>1. ASSUME NEW name \in {"stop", "resume", "emergency"}, Request(name) PROVE IInv'
  <2>1. TypeOK'
    BY <1>0, <1>1, StatesType DEF Request, TypeOK
  <2>2. ControlInv' /\ LoadedInv'
    BY <1>0, <1>1 DEF Request, ControlInv, LoadedInv, Enforcing
  <2>3. ProofInv'
    BY <1>0, <1>1, StatesType DEF Request, ProofInv
  <2>4. TableInv'
    BY <1>0, <1>1 DEF Request, ControlInv, TableInv, Enforcing
  <2> QED
    BY <2>1, <2>2, <2>3, <2>4 DEF IInv
<1>2. CASE ReconcileTick
  <2>1. TypeOK' /\ ControlInv' /\ LoadedInv'
    BY <1>0, <1>2 DEF ReconcileTick, TypeOK, ControlInv, LoadedInv, Enforcing
  <2>2. ProofInv' /\ TableInv'
    BY <1>0, <1>2 DEF ReconcileTick, ControlInv, ProofInv, TableInv, Adopting, Enforcing
  <2> QED
    BY <2>1, <2>2 DEF IInv
<1>3. CASE SetStateApply
  <2>1. TypeOK'
    BY <1>0, <1>3, RulesType, PeersAssumption DEF SetStateApply, TypeOK
  <2>2. ControlInv' /\ LoadedInv'
    BY <1>0, <1>3 DEF SetStateApply, ControlInv, LoadedInv, Enforcing
  <2>3. ProofInv'
    BY <1>0, <1>3 DEF SetStateApply, TypeOK, ControlInv, ProofInv, Adopting
  <2>4. TableInv'
    BY <1>0, <1>3 DEF SetStateApply, TypeOK, ControlInv, TableInv, Enforcing
  <2> QED
    BY <2>1, <2>2, <2>3, <2>4 DEF IInv
<1>4. CASE SetStatePersist
  <2>1. TypeOK'
    BY <1>0, <1>4, PeersAssumption DEF SetStatePersist, TypeOK
  <2>2. ControlInv' /\ LoadedInv'
    BY <1>0, <1>4 DEF SetStatePersist, ControlInv, LoadedInv, Enforcing
  <2>3. ProofInv'
    BY <1>0, <1>4, StatesType
    DEF SetStatePersist, TypeOK, State, Running, Stopped, Emergency, ControlInv, ProofInv, Adopting
  <2>4. TableInv'
    BY <1>0, <1>4 DEF SetStatePersist, TypeOK, ControlInv, TableInv, Enforcing
  <2> QED
    BY <2>1, <2>2, <2>3, <2>4 DEF IInv
<1>5. CASE SetStateUndo
  <2>1. TypeOK'
    BY <1>0, <1>5, RulesType, PeersAssumption DEF SetStateUndo, TypeOK
  <2>2. ControlInv' /\ LoadedInv'
    BY <1>0, <1>5 DEF SetStateUndo, ControlInv, LoadedInv, Enforcing
  <2>3. ProofInv' /\ TableInv'
    BY <1>0, <1>5 DEF SetStateUndo, TypeOK, ControlInv, ProofInv, TableInv, Adopting, Enforcing
  <2> QED
    BY <2>1, <2>2, <2>3 DEF IInv
<1>6. CASE EnforceCollect
  <2>1. TypeOK'
    BY <1>0, <1>6 DEF EnforceCollect, TypeOK, Listed
  <2>2. ControlInv' /\ LoadedInv' /\ ProofInv' /\ TableInv'
    BY <1>0, <1>6
    DEF EnforceCollect, ControlInv, LoadedInv, ProofInv, TableInv, Adopting, Enforcing
  <2> QED
    BY <2>1, <2>2 DEF IInv
<1>7. CASE EnforceRemove
  <2>1. TypeOK'
    BY <1>0, <1>7, PeersAssumption DEF EnforceRemove, TypeOK
  <2>2. ControlInv' /\ LoadedInv' /\ ProofInv' /\ TableInv'
    BY <1>0, <1>7
    DEF EnforceRemove, ControlInv, LoadedInv, ProofInv, TableInv, Adopting, Enforcing
  <2> QED
    BY <2>1, <2>2 DEF IInv
<1>8. CASE EnforceVerify
  <2>1. TypeOK'
    BY <1>0, <1>8, StatesType DEF EnforceVerify, TypeOK
  <2>2. ControlInv' /\ LoadedInv'
    BY <1>0, <1>8 DEF EnforceVerify, ControlInv, LoadedInv, Enforcing
  <2>3. ProofInv'
    BY <1>0, <1>8, StatesType DEF EnforceVerify, ControlInv, ProofInv, Adopting
  <2>4. TableInv'
    BY <1>0, <1>8 DEF EnforceVerify, ControlInv, TableInv, Enforcing
  <2> QED
    BY <2>1, <2>2, <2>3, <2>4 DEF IInv
<1>9. CASE StartupLoad
  <2>1. TypeOK' /\ ControlInv' /\ LoadedInv'
    BY <1>0, <1>9, PeersAssumption DEF StartupLoad, TypeOK, ControlInv, LoadedInv, Enforcing
  <2>2. ProofInv' /\ TableInv'
    BY <1>0, <1>9 DEF StartupLoad, TypeOK, ControlInv, ProofInv, TableInv, Adopting, Enforcing
  <2> QED
    BY <2>1, <2>2 DEF IInv
<1>10. CASE StartupApply
  <2>1. TypeOK'
    BY <1>0, <1>10, RulesType, PeersAssumption DEF StartupApply, TypeOK
  <2>2. ControlInv' /\ LoadedInv'
    BY <1>0, <1>10 DEF StartupApply, ControlInv, LoadedInv, Enforcing
  <2>3. ProofInv' /\ TableInv'
    BY <1>0, <1>10
    DEF StartupApply, TypeOK, ControlInv, LoadedInv, ProofInv, TableInv, Adopting, Enforcing
  <2> QED
    BY <2>1, <2>2, <2>3 DEF IInv
<1>11. CASE Restart
  <2>1. TypeOK' /\ ControlInv' /\ LoadedInv'
    BY <1>0, <1>11, PeersAssumption DEF Restart, TypeOK, ControlInv, LoadedInv, Enforcing
  <2>2. ProofInv' /\ TableInv'
    BY <1>11 DEF Restart, ProofInv, TableInv, Adopting, Enforcing
  <2> QED
    BY <2>1, <2>2 DEF IInv
<1>12. CASE (\E p \in Peers : PeerAppears(p)) \/ (\E t \in Tools : ToolChanges(t))
  <2>1. TypeOK'
    BY <1>0, <1>12, PeersAssumption DEF PeerAppears, ToolChanges, TypeOK
  <2>2. ControlInv' /\ LoadedInv' /\ ProofInv' /\ TableInv'
    BY <1>0, <1>12 DEF PeerAppears, ToolChanges, ControlInv, LoadedInv, ProofInv, TableInv
  <2> QED
    BY <2>1, <2>2 DEF IInv
<1>13. CASE UNCHANGED vars
  BY <1>0, <1>13 DEF vars, IInv, TypeOK, ControlInv, LoadedInv, ProofInv, TableInv
<1> QED
  BY <1>1, <1>2, <1>3, <1>4, <1>5, <1>6, <1>7, <1>8, <1>9, <1>10, <1>11, <1>12, <1>13
  DEF Next, Operate

(* The inductive invariant, type correctness included. *)
THEOREM Invariance ==
    Spec => []IInv
BY InitInvariant, NextInvariant, PTL DEF Spec

(* Type correctness: emergency never stands without paused. *)
THEOREM TypeTheorem ==
    Spec => []TypeOK
<1>1. IInv => TypeOK
  BY DEF IInv
<1> QED
  BY <1>1, Invariance, PTL

(* Emergency is served only after zero peers were proved. *)
THEOREM EmergencyTheorem ==
    Spec => []EmergencyIsProved
<1>1. IInv => EmergencyIsProved
  BY DEF IInv, ProofInv, EmergencyIsProved
<1> QED
  BY <1>1, Invariance, PTL

(* The report, the file and the table agree unless an undo error was discarded. *)
THEOREM EnforcementTheorem ==
    Spec => []ReportedIsEnforced
<1>1. IInv => ReportedIsEnforced
  BY DEF IInv, ControlInv, LoadedInv, TableInv, ReportedIsEnforced
<1> QED
  BY <1>1, Invariance, PTL

(* A committed ingress block is lifted by Resume or a reboot only. *)
THEOREM BlockTheorem ==
    Spec => BlockLiftedOnlyByResume
<1>1. IInv /\ [Next]_vars =>
        [mem.paused = "on" /\ live = "blocked" /\ live' = "open" =>
            op = "resume" \/ plane' = "starting"]_vars
  <2> SUFFICES ASSUME IInv, Next, mem.paused = "on", live = "blocked", live' = "open"
               PROVE  op = "resume" \/ plane' = "starting"
    OBVIOUS
  <2>1. renderServerControlRules(mem) = "blocked"
    BY DEF renderServerControlRules
  <2>2. CASE SetStateApply
    <3>1. renderServerControlRules(goal) = "open" /\ pc = "apply"
      BY <2>1, <2>2 DEF SetStateApply
    <3>2. goal.paused = "off"
      BY <3>1 DEF renderServerControlRules, IInv, TypeOK, State, Running, Stopped, Emergency
    <3> QED
      BY <3>1, <3>2 DEF IInv, ProofInv, Adopting
  <2>3. CASE Restart
    BY <2>3 DEF Restart
  <2> QED
    BY <2>1, <2>2, <2>3
    DEF Next, Operate, Request, ReconcileTick, SetStatePersist, SetStateUndo, EnforceCollect,
        EnforceRemove, EnforceVerify, StartupLoad, StartupApply, PeerAppears, ToolChanges
<1> QED
  BY <1>1, Invariance, PTL DEF Spec, BlockLiftedOnlyByResume
=============================================================================
