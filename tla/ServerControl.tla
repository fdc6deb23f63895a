---------------------------- MODULE ServerControl ----------------------------
(***************************************************************************)
(* Stop / Emergency Stop / Resume of the router agent                      *)
(* (cmd/router-agent/admin_server_control.go): a durable state, the        *)
(* nftables table that enforces it, and the WireGuard-family peers that    *)
(* Emergency Stop has to remove and prove gone.                            *)
(*                                                                         *)
(* opMu admits one operation at a time (a handler, a tick of the           *)
(* reconcile loop, the start-up); within it every command the operation    *)
(* runs is a step, between which the peers and the tools that list them    *)
(* change and the agent may die.  setState holds mu from its first         *)
(* assignment to its return, so s.state is seen only as it was or as it    *)
(* was committed.                                                          *)
(***************************************************************************)
EXTENDS Integers, FiniteSets

CONSTANTS
    WgPeers,   \* peers of the wg interfaces
    AwgPeers,  \* peers of the awg interfaces
    MaxFaults  \* bound: failures, crashes and peers that come back

ASSUME PeersAssumption ==
    WgPeers \cap AwgPeers = {} /\ MaxFaults \in Nat

VARIABLES
    plane,   \* the control plane: "starting", "up" (serving) or "disabled"
    mem,     \* s.state
    disk,    \* the state file
    live,    \* the owned nftables table: "open" or "blocked" ingress
    peers,   \* live peers
    tools,   \* control tools that work
    op,      \* the operation that holds opMu, or "none"
    pc,      \* where it is
    goal,    \* the state its setState is to adopt
    seen,    \* the peers its first enumeration returned
    proof,   \* history: "zero" once an enumeration proved zero peers since the
             \* last restart and the last commit of a state without emergency
    lost,    \* history: the error of the last setState's undo was discarded
    faults   \* faults the environment may still inject

vars == <<plane, mem, disk, live, peers, tools, op, pc, goal, seen, proof, lost, faults>>
env  == <<peers, tools>>

Peers == WgPeers \cup AwgPeers
Tools == {"wg", "awg"}

Running   == [paused |-> "off", emergency |-> "off"]
Stopped   == [paused |-> "on", emergency |-> "off"]
Emergency == [paused |-> "on", emergency |-> "on"]
State     == {Running, Stopped, Emergency}

(* What the rendered table does with service ingress. *)
renderServerControlRules(state) == IF state.paused = "on" THEN "blocked" ELSE "open"

Fault   == faults > 0 /\ faults' = faults - 1
NoFault == UNCHANGED faults

(* The peers that the tools in ts list. *)
Listed(ts) == (IF "wg" \in ts THEN peers \cap WgPeers ELSE {})
              \cup (IF "awg" \in ts THEN peers \cap AwgPeers ELSE {})

-----------------------------------------------------------------------------
(* The operation returns and releases opMu. *)
Return == op' = "none" /\ pc' = "idle"

(* startAdminServerControlPlane returns without serving. *)
Disable == plane' = "disabled" /\ Return

(* setState is about to adopt the state. *)
SetState(state) == goal' = state /\ pc' = "apply"

(* stop, resume and emergencyStop, and a tick of emergencyReconcileLoop that
   finds Emergency active, take opMu. *)
Request(name) ==
    /\ plane = "up" /\ op = "none"
    /\ op' = name
    /\ SetState(IF name = "resume" THEN Running ELSE Stopped)
    /\ UNCHANGED <<plane, mem, disk, live, env, seen, proof, lost, faults>>

ReconcileTick ==
    /\ plane = "up" /\ op = "none"
    /\ mem.emergency = "on"
    /\ op' = "reconcile" /\ pc' = "collect"
    /\ UNCHANGED <<plane, mem, disk, live, env, goal, seen, proof, lost, faults>>

(* Mutant: the table is deleted in a transaction of its own. *)
MutTableDeletedFirst ==
    /\ pc = "apply"
    /\ \/ /\ live' = renderServerControlRules(goal)
          /\ pc' = "persist"
          /\ lost' = "no"
          /\ UNCHANGED <<plane, op>>
          /\ NoFault
       \/ /\ Fault
          /\ live' = "open" /\ lost' = "yes"
          /\ IF op = "startup" THEN Disable ELSE Return /\ UNCHANGED plane
    /\ UNCHANGED <<mem, disk, env, goal, seen, proof>>

(* setState: the table is replaced atomically; on an error the old state is
   back in s.state and its table is applied again, best effort. *)
SetStateApply ==
    /\ pc = "apply"
    /\ \/ /\ live' = renderServerControlRules(goal)
          /\ pc' = "persist"
          /\ lost' = "no"
          /\ UNCHANGED <<plane, op>>
          /\ NoFault
       \/ /\ Fault
          /\ live' \in {live, renderServerControlRules(mem)}
          /\ lost' = IF live' = live THEN lost ELSE "no"
          /\ IF op = "startup" THEN Disable ELSE Return /\ UNCHANGED plane
    /\ UNCHANGED <<mem, disk, env, goal, seen, proof>>

(* ... then the file; emergencyStop goes on to the peers after phase one. *)
SetStatePersist ==
    /\ pc = "persist"
    /\ \/ /\ disk' = goal /\ mem' = goal
          /\ proof' = IF goal.emergency = "on" THEN proof ELSE "none"
          /\ \/ op = "emergency" /\ goal = Stopped /\ pc' = "collect" /\ UNCHANGED <<plane, op>>
             \/ op = "startup" /\ plane' = "up" /\ Return
             \/ op # "startup" /\ ~(op = "emergency" /\ goal = Stopped) /\ Return /\ UNCHANGED plane
          /\ NoFault
       \/ Fault /\ pc' = "undo" /\ UNCHANGED <<plane, mem, disk, proof, op>>
    /\ UNCHANGED <<live, env, goal, seen, lost>>

(* Mutant: only s.state is taken back when the file cannot be written. *)
MutUndoSkipsTable ==
    /\ pc = "undo"
    /\ IF op = "startup" THEN Disable ELSE Return /\ UNCHANGED plane
    /\ UNCHANGED <<mem, disk, live, env, goal, seen, proof, lost, faults>>

(* ... and if that failed, the old table again; its error is discarded. *)
SetStateUndo ==
    /\ pc = "undo"
    /\ \/ live' = renderServerControlRules(mem) /\ lost' = "no" /\ NoFault
       \/ UNCHANGED live /\ lost' = "yes" /\ Fault
    /\ IF op = "startup" THEN Disable ELSE Return /\ UNCHANGED plane
    /\ UNCHANGED <<mem, disk, env, goal, seen, proof>>

(* enforceEmergencyPeers: list, remove one by one, list again. *)
EnforceCollect ==
    /\ pc = "collect"
    /\ seen' = Listed(tools)
    /\ pc' = "remove"
    /\ UNCHANGED <<plane, mem, disk, live, env, op, goal, proof, lost, faults>>

EnforceRemove ==
    /\ pc = "remove"
    /\ \/ peers' = peers \ (seen \cap Listed(tools)) /\ NoFault
       \/ Fault /\ \E removed \in SUBSET seen : peers' = peers \ removed
    /\ pc' = "verify"
    /\ UNCHANGED <<plane, mem, disk, live, tools, op, goal, seen, proof, lost>>

(* validateEmergencyPeerTeardown: both sources answered, no peer is left. *)
validateEmergencyPeerTeardown == Tools \subseteq tools /\ Listed(tools) = {}

(* Mutant: the reconcile loop logs the lost proof and leaves Emergency on. *)
MutReconcileOnlyLogs ==
    /\ pc = "verify"
    /\ \/ /\ validateEmergencyPeerTeardown
          /\ proof' = "zero"
          /\ \/ op = "emergency" /\ SetState(Emergency) /\ UNCHANGED <<plane, op>>
             \/ op = "reconcile" /\ Return /\ UNCHANGED <<plane, goal>>
             \/ op = "startup" /\ plane' = "up" /\ Return /\ UNCHANGED goal
       \/ /\ ~validateEmergencyPeerTeardown
          /\ UNCHANGED <<plane, proof>>
          /\ \/ op # "startup" /\ Return /\ UNCHANGED goal
             \/ op = "startup" /\ SetState(Stopped) /\ UNCHANGED op
    /\ UNCHANGED <<mem, disk, live, env, seen, lost, faults>>

EnforceVerify ==
    /\ pc = "verify"
    /\ \/ /\ validateEmergencyPeerTeardown
          /\ proof' = "zero"
          /\ \/ op = "emergency" /\ SetState(Emergency) /\ UNCHANGED <<plane, op>>
             \/ op = "reconcile" /\ Return /\ UNCHANGED <<plane, goal>>
             \/ op = "startup" /\ plane' = "up" /\ Return /\ UNCHANGED goal
       \/ /\ ~validateEmergencyPeerTeardown
          /\ UNCHANGED <<plane, proof>>
          /\ \/ op = "emergency" /\ Return /\ UNCHANGED goal
             \/ op # "emergency" /\ SetState(Stopped) /\ UNCHANGED op
    /\ UNCHANGED <<mem, disk, live, env, seen, lost, faults>>

-----------------------------------------------------------------------------
(* startAdminServerControlPlane: load, re-establish the persisted policy, and
   re-prove a durable Emergency before serving it. *)
StartupLoad ==
    /\ pc = "load"
    /\ \/ mem' = disk /\ pc' = "reapply" /\ UNCHANGED <<plane, op>> /\ NoFault
       \/ Fault /\ Disable /\ UNCHANGED mem
    /\ UNCHANGED <<disk, live, env, goal, seen, proof, lost>>

(* Mutant: a durable Emergency is served without being proved again. *)
MutStartupTrustsFile ==
    /\ pc = "reapply"
    /\ live' = renderServerControlRules(mem) /\ lost' = "no"
    /\ plane' = "up" /\ Return
    /\ UNCHANGED <<mem, disk, env, goal, seen, proof, faults>>

StartupApply ==
    /\ pc = "reapply"
    /\ \/ /\ live' = renderServerControlRules(mem)
          /\ lost' = "no"
          /\ \/ mem.emergency = "on" /\ pc' = "collect" /\ UNCHANGED <<plane, op>>
             \/ mem.emergency = "off" /\ plane' = "up" /\ Return
          /\ NoFault
       \/ Fault /\ Disable /\ UNCHANGED <<live, lost>>
    /\ UNCHANGED <<mem, disk, env, goal, seen, proof>>

(* The agent dies and starts again; after a reboot of the host the table is
   gone.  A disabled plane stays down until then. *)
Restart ==
    /\ Fault \/ (plane = "disabled" /\ NoFault)
    /\ plane' = "starting" /\ op' = "startup" /\ pc' = "load"
    /\ live' \in {live, "open"}
    /\ proof' = "none"
    /\ UNCHANGED <<mem, disk, env, goal, seen, lost>>

(* External: a WireGuard service adds a peer again, or a tool stops working
   or works again. *)
PeerAppears(p) ==
    /\ Fault
    /\ p \notin peers /\ peers' = peers \cup {p}
    /\ UNCHANGED <<plane, mem, disk, live, tools, op, pc, goal, seen, proof, lost>>

ToolChanges(t) ==
    /\ \/ t \in tools /\ Fault /\ tools' = tools \ {t}
       \/ t \notin tools /\ NoFault /\ tools' = tools \cup {t}
    /\ UNCHANGED <<plane, mem, disk, live, peers, op, pc, goal, seen, proof, lost>>

-----------------------------------------------------------------------------
Init ==
    /\ plane = "starting" /\ op = "startup" /\ pc = "load"
    /\ mem = Running /\ disk = Running
    /\ live = "open"
    /\ peers \in SUBSET Peers
    /\ tools = Tools
    /\ goal = Running
    /\ seen = {}
    /\ proof = "none" /\ lost = "no"
    /\ faults = MaxFaults

Operate ==
    \/ SetStateApply \/ SetStatePersist \/ SetStateUndo
    \/ EnforceCollect \/ EnforceRemove \/ EnforceVerify
    \/ StartupLoad \/ StartupApply

Next ==
    \/ \E name \in {"stop", "resume", "emergency"} : Request(name)
    \/ ReconcileTick
    \/ Operate
    \/ Restart
    \/ \E p \in Peers : PeerAppears(p)
    \/ \E t \in Tools : ToolChanges(t)

Spec == Init /\ [][Next]_vars

(* An operation that holds opMu runs on, and the ticker's goroutine gets opMu:
   a Go mutex hands itself over to a waiter that has been passed over. *)
FairSpec == Spec /\ WF_vars(Operate) /\ SF_vars(ReconcileTick)

-----------------------------------------------------------------------------
(* The type invariant; emergency is only ever set together with paused. *)
TypeOK ==
    /\ plane \in {"starting", "up", "disabled"}
    /\ mem \in State /\ disk \in State /\ goal \in State
    /\ live \in {"open", "blocked"}
    /\ peers \subseteq Peers /\ seen \subseteq Peers
    /\ tools \subseteq Tools
    /\ op \in {"none", "stop", "resume", "emergency", "reconcile", "startup"}
    /\ pc \in {"idle", "apply", "persist", "undo", "collect", "remove", "verify", "load", "reapply"}
    /\ proof \in {"none", "zero"} /\ lost \in {"yes", "no"}
    /\ faults \in 0..MaxFaults

(* Emergency is served only as proved: while the plane serves, a durable
   emergency=true implies that both tools listed zero peers since the restart
   and since ingress was stopped (emergencyStop, startAdminServerControlPlane). *)
EmergencyIsProved ==
    plane = "up" /\ disk.emergency = "on" => proof = "zero"

(* Between operations, what the plane reports is what is durable and what the
   firewall does, unless an undo failed and its error was discarded. *)
ReportedIsEnforced ==
    plane = "up" /\ op = "none" /\ lost = "no" =>
        mem = disk /\ live = renderServerControlRules(mem)

(* The unconditional form: a plane that reports paused has ingress blocked. *)
StatusIsTruthful ==
    plane = "up" /\ op = "none" /\ mem.paused = "on" => live = "blocked"

(* Nothing but a Resume or a reboot lifts a committed ingress block, whatever
   fails in Stop, in Emergency Stop or in its reconciliation. *)
BlockLiftedOnlyByResume ==
    [][mem.paused = "on" /\ live = "blocked" /\ live' = "open" =>
         op = "resume" \/ plane' = "starting"]_vars

(* A stale Emergency does not last: when a peer is back while Emergency is
   reported, the peer is removed again or the report withdrawn. *)
StaleEmergencyEnds ==
    (plane = "up" /\ mem.emergency = "on" /\ peers # {}) ~>
        (plane # "up" \/ mem.emergency = "off" \/ peers = {})
=============================================================================
