--------------------------- MODULE AdminPolicyProofs ---------------------------
(***************************************************************************)
(* Proofs about AdminPolicy and about AdminForwarding, which composes it   *)
(* with the forwarding extension plane, for any sets of peers, rules and   *)
(* ports and any number of faults and restarts.                            *)
(***************************************************************************)
EXTENDS AdminForwarding, FiniteSetTheorems, TLAPS

(* The types that the argument needs. *)
AdminTypes ==
    /\ mem \in State /\ disk \in State /\ policy \in Table
    /\ op \in {"policy", "forward"} /\ mode \in {"do", "undo", "restore"}
    /\ step \in {"free", "apply", "delete", "add", "persist"}
    /\ lost \subseteq {"policy", "forward", "table"} /\ peers \subseteq Peers
    /\ cutting \subseteq [peer : Peers, at : {"locked", "unlocked"}]

(* The clone is the committed state, and RAM differs from it only inside an
   operation that has not failed; that operation touches what its kind says. *)
MutexInv ==
    /\ old = disk
    /\ mode # "do" => mem = disk
    /\ step = "free" => mode = "restore"
    /\ step = "persist" => mode = "do"
    /\ step = "apply" => op = "policy"
    /\ step \in {"delete", "add"} => op = "forward"
    /\ op = "forward" => PolicyOf(mem) = PolicyOf(disk) /\ mem.revoked = disk.revoked

(* A revoked peer is banned, and no operation drops a revocation. *)
RevokedInv ==
    /\ mem.revoked \subseteq mem.banned
    /\ disk.revoked \subseteq disk.banned
    /\ disk.revoked \subseteq mem.revoked

(* Whoever is about to be cut is revoked: in RAM while its handler holds the
   lock, in the file once it has released it. *)
CutInv ==
    /\ sweep \subseteq disk.revoked
    /\ \A c \in cutting :
           /\ c.at = "unlocked" => c.peer \in disk.revoked
           /\ c.at = "locked" => mode = "do" /\ c.peer \in mem.revoked

(* What the live table is: the committed policy, unless a policy operation is
   under way or a failure was reported; the new policy when it is written. *)
TableInv ==
    /\ \/ policy = PolicyOf(disk)
       \/ "policy" \in lost
       \/ op = "policy" /\ mode # "restore"
    /\ step = "persist" /\ op = "policy" => policy = PolicyOf(mem) /\ "policy" \notin lost
    /\ RevokedStaysBlocked

AdminInv == AdminTypes /\ MutexInv /\ RevokedInv /\ CutInv /\ TableInv

-----------------------------------------------------------------------------
(* The first state is the default one, before any table is made. *)
LEMMA AdminInitInv ==
    AdminInit => AdminInv
<1> SUFFICES ASSUME AdminInit PROVE AdminInv
  OBVIOUS
<1>1. defaultAdminState \in State /\ Open \in Table
  BY DEF defaultAdminState, State, Open, Table, Switch
<1>2. AdminTypes /\ MutexInv
  BY <1>1 DEF AdminInit, AdminTypes, MutexInv
<1>3. RevokedInv /\ CutInv /\ TableInv
  BY <1>1 DEF AdminInit, RevokedInv, CutInv, TableInv, RevokedStaysBlocked, defaultAdminState, State
<1> QED
  BY <1>2, <1>3 DEF AdminInv

(* A handler that takes the lock with a new state which keeps every revocation,
   bans the revoked and, for a forward, leaves the policy alone. *)
LEMMA BeginInv ==
    ASSUME NEW s \in State, NEW what \in {"policy", "forward"}, AdminInv, Begin(s, what),
           s.revoked \subseteq s.banned, mem.revoked \subseteq s.revoked,
           what = "forward" => PolicyOf(s) = PolicyOf(mem) /\ s.revoked = mem.revoked
    PROVE  AdminInv'
<1>0. AdminTypes /\ MutexInv /\ RevokedInv /\ CutInv /\ TableInv
  BY DEF AdminInv
<1>1. mem = disk /\ mode = "restore" /\ step = "free"
  BY <1>0 DEF Begin, MutexInv
<1>2. AdminTypes'
  BY <1>0 DEF Begin, AdminTypes
<1>3. MutexInv'
  BY <1>0, <1>1 DEF Begin, MutexInv, PolicyOf
<1>4. RevokedInv' /\ CutInv'
  BY <1>0, <1>1 DEF Begin, RevokedInv, CutInv
<1>5. TableInv'
  BY <1>0, <1>1 DEF Begin, TableInv, RevokedStaysBlocked, PolicyOf
<1> QED
  BY <1>2, <1>3, <1>4, <1>5 DEF AdminInv

(* The handlers of the API. *)
LEMMA RequestInv ==
    AdminInv /\ Request => AdminInv'
<1> SUFFICES ASSUME AdminInv, Request PROVE AdminInv'
  OBVIOUS
<1>0. AdminTypes /\ MutexInv /\ RevokedInv /\ CutInv /\ TableInv
  BY DEF AdminInv
<1>1. ASSUME NEW m \in Switch, NEW l \in Switch, settings(m, l) PROVE AdminInv'
  <2> DEFINE s == [mem EXCEPT !.master = m, !.lan = l]
  <2>1. s \in State /\ s.revoked = mem.revoked /\ s.banned = mem.banned
    BY <1>0 DEF AdminTypes, State
  <2>2. Begin(s, "policy")
    BY <1>1 DEF settings
  <2> HIDE DEF s
  <2> QED
    BY <1>0, <2>1, <2>2, BeginInv DEF RevokedInv
<1>2. ASSUME NEW p \in Peers, ban(p) PROVE AdminInv'
  <2> DEFINE s == [mem EXCEPT !.banned = @ \cup {p}]
  <2>1. s \in State /\ s.revoked = mem.revoked /\ mem.banned \subseteq s.banned
    BY <1>0 DEF AdminTypes, State
  <2>2. Begin(s, "policy")
    BY <1>2 DEF ban
  <2> HIDE DEF s
  <2> QED
    BY <1>0, <2>1, <2>2, BeginInv DEF RevokedInv
<1>3. ASSUME NEW p \in Peers, unban(p) PROVE AdminInv'
  <2> DEFINE s == [mem EXCEPT !.banned = @ \ {p}]
  <2>1. s \in State /\ s.revoked = mem.revoked /\ s.banned = mem.banned \ {p}
    BY <1>0 DEF AdminTypes, State
  <2>2. Begin(s, "policy") /\ p \notin mem.revoked
    BY <1>3 DEF unban
  <2> HIDE DEF s
  <2>3. s.revoked \subseteq s.banned
    BY <1>0, <2>1, <2>2 DEF RevokedInv
  <2> QED
    BY <2>1, <2>2, <2>3, BeginInv
<1>4. ASSUME NEW p \in Peers, revoke(p) PROVE AdminInv'
  <2> DEFINE s == [mem EXCEPT !.revoked = @ \cup {p}, !.banned = @ \cup {p}]
  <2>1. s \in State /\ s.revoked = mem.revoked \cup {p} /\ s.banned = mem.banned \cup {p}
    BY <1>0 DEF AdminTypes, State
  <2>2. mem' = s
    BY <1>4 DEF revoke
  <2> HIDE DEF s
  <2>3. mem = disk /\ mode = "restore" /\ step = "free"
    BY <1>0, <1>4 DEF revoke, MutexInv
  <2>4. AdminTypes'
    BY <1>0, <1>4, <2>1, <2>2 DEF revoke, AdminTypes
  <2>5. MutexInv'
    BY <1>0, <1>4, <2>3 DEF revoke, MutexInv
  <2>6. RevokedInv'
    BY <1>0, <1>4, <2>1, <2>2 DEF revoke, RevokedInv
  <2>7. CutInv'
    BY <1>0, <1>4, <2>1, <2>2, <2>3 DEF revoke, CutInv
  <2>8. TableInv'
    BY <1>0, <1>4, <2>3 DEF revoke, TableInv, RevokedStaysBlocked, PolicyOf
  <2> QED
    BY <2>4, <2>5, <2>6, <2>7, <2>8 DEF AdminInv
<1>5. ASSUME NEW i \in Ids, NEW port \in Ports \cup {"none", "disabled"},
             Begin([mem EXCEPT !.rules[i] = port], "forward")
      PROVE  AdminInv'
  <2> DEFINE s == [mem EXCEPT !.rules[i] = port]
  <2>1. s \in State /\ s.revoked = mem.revoked /\ s.banned = mem.banned
        /\ s.master = mem.master /\ s.lan = mem.lan
    BY <1>0 DEF AdminTypes, State
  <2>2. Begin(s, "forward")
    BY <1>5
  <2> HIDE DEF s
  <2>3. PolicyOf(s) = PolicyOf(mem)
    BY <2>1 DEF PolicyOf
  <2> QED
    BY <1>0, <2>1, <2>2, <2>3, BeginInv DEF RevokedInv
<1> QED
  BY <1>1, <1>2, <1>3, <1>4, <1>5 DEF Request, forwarding, forwardingByID

-----------------------------------------------------------------------------
(* A successful application of either kind, given what it made of the table. *)
LEMMA AppliedInv ==
    ASSUME AdminInv, Applied, UNCHANGED <<disk, peers, sweep>>,
           \/ op = "policy" /\ policy' = PolicyOf(mem)
           \/ op = "forward" /\ UNCHANGED policy
    PROVE  AdminInv'
<1>0. AdminTypes /\ MutexInv /\ RevokedInv /\ CutInv /\ TableInv
  BY DEF AdminInv
<1>1. mem' = mem /\ old' = disk /\ cutting' = cutting /\ PolicyOf(mem) \in Table
      /\ PolicyOf(mem).banned = mem.banned
  BY <1>0 DEF Applied, Unlock, MutexInv, AdminTypes, PolicyOf, State, Table
<1>2. AdminTypes'
  BY <1>0, <1>1 DEF Applied, Unlock, AdminTypes
<1>3. MutexInv'
  <2>1. CASE mode = "do"
    BY <1>0, <1>1, <2>1 DEF Applied, MutexInv, PolicyOf
  <2>2. CASE mode # "do"
    BY <1>0, <1>1, <2>2 DEF Applied, Unlock, MutexInv, PolicyOf
  <2> QED
    BY <2>1, <2>2
<1>4. RevokedInv' /\ CutInv'
  BY <1>0, <1>1 DEF Applied, Unlock, RevokedInv, CutInv
<1>5. TableInv'
  <2>1. RevokedStaysBlocked'
    BY <1>0, <1>1 DEF Applied, TableInv, RevokedInv, RevokedStaysBlocked, AdminTypes
  <2>2. CASE mode = "do"
    BY <1>0, <1>1, <2>1, <2>2 DEF Applied, TableInv, AdminTypes, MutexInv, PolicyOf
  <2>3. CASE mode # "do"
    BY <1>0, <1>1, <2>1, <2>3 DEF Applied, Unlock, TableInv, AdminTypes, MutexInv, PolicyOf
  <2> QED
    BY <2>2, <2>3
<1> QED
  BY <1>2, <1>3, <1>4, <1>5 DEF AdminInv

(* The beginning of a rollback: RAM is the committed state again, and a revoke
   handler that fails here cuts nobody. *)
LEMMA RollbackInv ==
    ASSUME AdminInv, Rollback, UNCHANGED <<disk, policy, lost, peers, sweep>>, mode = "do"
    PROVE  AdminInv'
<1>0. AdminTypes /\ MutexInv /\ RevokedInv /\ CutInv /\ TableInv
  BY DEF AdminInv
<1>1. mem' = disk /\ old' = disk /\ mode' = "undo" /\ op' = op
      /\ step' = (IF op = "policy" THEN "apply" ELSE "delete")
  BY <1>0 DEF Rollback, MutexInv
<1>2. cutting' = {c \in cutting : c.at = "unlocked"}
  BY DEF Rollback, Settled
<1>3. AdminTypes' /\ MutexInv'
  BY <1>0, <1>1, <1>2 DEF AdminTypes, MutexInv, PolicyOf
<1>4. RevokedInv' /\ CutInv'
  BY <1>0, <1>1, <1>2 DEF RevokedInv, CutInv
<1>5. TableInv'
  BY <1>0, <1>1 DEF TableInv, RevokedStaysBlocked, PolicyOf, AdminTypes
<1> QED
  BY <1>3, <1>4, <1>5 DEF AdminInv

(* An application that fails and leaves the table alone. *)
LEMMA ApplyFailedInv ==
    ASSUME AdminInv, ApplyFailed, UNCHANGED <<disk, policy, peers, sweep>>
    PROVE  AdminInv'
<1>0. AdminTypes /\ MutexInv /\ RevokedInv /\ CutInv /\ TableInv
  BY DEF AdminInv
<1>1. CASE mode = "do"
  BY <1>1, RollbackInv DEF ApplyFailed
<1>2. CASE mode # "do"
  <2>1. mem' = disk /\ mem = disk /\ old' = disk /\ cutting' = cutting /\ lost' = lost \cup {op}
        /\ step' = "free" /\ op' = "policy" /\ mode' = "restore"
    BY <1>0, <1>2 DEF ApplyFailed, Unlock, MutexInv
  <2>2. AdminTypes' /\ MutexInv'
    BY <1>0, <2>1 DEF AdminTypes, MutexInv
  <2>3. RevokedInv' /\ CutInv'
    BY <1>0, <1>2, <2>1 DEF RevokedInv, CutInv
  <2>4. TableInv'
    BY <1>0, <2>1 DEF TableInv, RevokedStaysBlocked, PolicyOf, AdminTypes
  <2> QED
    BY <2>2, <2>3, <2>4 DEF AdminInv
<1> QED
  BY <1>1, <1>2

(* The steps of the operation that holds the lock. *)
LEMMA HolderInv ==
    AdminInv /\ Holder => AdminInv'
<1> SUFFICES ASSUME AdminInv, Holder PROVE AdminInv'
  OBVIOUS
<1>0. AdminTypes /\ MutexInv /\ RevokedInv /\ CutInv /\ TableInv
  BY DEF AdminInv
<1>1. CASE applyPolicyLocked
  <2>1. op = "policy"
    BY <1>0, <1>1 DEF applyPolicyLocked, MutexInv
  <2> QED
    BY <1>1, <2>1, AppliedInv, ApplyFailedInv DEF applyPolicyLocked
<1>2. CASE DeleteRules
  <2>1. CASE ApplyFailed
    BY <1>2, <2>1, ApplyFailedInv DEF DeleteRules
  <2>2. CASE step' = "add" /\ UNCHANGED <<mem, old, op, mode, cutting, lost>>
    <3>1. op = "forward"
      BY <1>0, <1>2 DEF DeleteRules, MutexInv
    <3>2. AdminTypes' /\ MutexInv'
      BY <1>0, <1>2, <2>2, <3>1 DEF DeleteRules, AdminTypes, MutexInv, PolicyOf
    <3>3. RevokedInv' /\ CutInv' /\ TableInv'
      BY <1>0, <1>2, <2>2, <3>1
      DEF DeleteRules, RevokedInv, CutInv, TableInv, RevokedStaysBlocked, PolicyOf
    <3> QED
      BY <3>2, <3>3 DEF AdminInv
  <2> QED
    BY <1>2, <2>1, <2>2 DEF DeleteRules
<1>3. CASE AddRules
  <2>1. op = "forward"
    BY <1>0, <1>3 DEF AddRules, MutexInv
  <2> QED
    BY <1>3, <2>1, AppliedInv, ApplyFailedInv DEF AddRules
<1>4. CASE persistLocked
  <2>1. mode = "do"
    BY <1>0, <1>4 DEF persistLocked, MutexInv
  <2>2. CASE Rollback /\ UNCHANGED disk
    BY <1>4, <2>1, <2>2, RollbackInv DEF persistLocked
  <2>3. CASE disk' = mem /\ Unlock(mem) /\ Settled("ok")
    <3>1. mem' = mem /\ old' = mem /\ step' = "free" /\ op' = "policy" /\ mode' = "restore"
          /\ cutting' = {[c EXCEPT !.at = "unlocked"] : c \in cutting}
      BY <2>3 DEF Unlock, Settled
    <3>2. AdminTypes' /\ MutexInv'
      BY <1>0, <1>4, <2>3, <3>1 DEF persistLocked, AdminTypes, MutexInv
    <3>3. RevokedInv' /\ sweep' \subseteq disk'.revoked
      BY <1>0, <1>4, <2>3, <3>1 DEF persistLocked, RevokedInv, CutInv
    <3>4. ASSUME NEW d \in cutting'
          PROVE  d.at = "unlocked" /\ d.peer \in disk'.revoked
      <4>1. PICK c \in cutting : d = [c EXCEPT !.at = "unlocked"]
        BY <3>1, <3>4
      <4>2. c \in [peer : Peers, at : {"locked", "unlocked"}]
        BY <1>0 DEF AdminTypes
      <4>3. d.at = "unlocked" /\ d.peer = c.peer
        BY <4>1, <4>2
      <4>4. c.peer \in mem.revoked
        BY <1>0, <4>2 DEF CutInv, RevokedInv
      <4> QED
        BY <2>3, <4>3, <4>4
    <3>5. CutInv'
      BY <3>3, <3>4 DEF CutInv
    <3>6. policy' = policy /\ lost' = lost /\ PolicyOf(mem).banned = mem.banned
      BY <1>4 DEF persistLocked, PolicyOf
    <3>7. TableInv'
      <4>1. CASE op = "policy"
        BY <1>0, <1>4, <2>3, <3>1, <3>6, <4>1
        DEF persistLocked, TableInv, RevokedInv, RevokedStaysBlocked, PolicyOf
      <4>2. CASE op = "forward"
        BY <1>0, <1>4, <2>3, <3>1, <3>6, <4>2
        DEF persistLocked, TableInv, MutexInv, RevokedStaysBlocked, PolicyOf
      <4> QED
        BY <1>0, <4>1, <4>2 DEF AdminTypes
    <3> QED
      BY <3>2, <3>3, <3>5, <3>7 DEF AdminInv
  <2> QED
    BY <1>4, <2>2, <2>3 DEF persistLocked
<1> QED
  BY <1>1, <1>2, <1>3, <1>4 DEF Holder

-----------------------------------------------------------------------------
(* main()'s base rules and the restores of startAdminMutationPlane. *)
LEMMA StartUpInv ==
    AdminInv /\ StartUp => AdminInv'
<1> SUFFICES ASSUME AdminInv, StartUp PROVE AdminInv'
  OBVIOUS
<1>0. AdminTypes /\ MutexInv /\ RevokedInv /\ CutInv /\ TableInv
  BY DEF AdminInv
<1>1. CASE ensureBaseRules
  <2>1. AdminTypes' /\ MutexInv'
    BY <1>0, <1>1 DEF ensureBaseRules, AdminTypes, MutexInv, PolicyOf
  <2>2. RevokedInv' /\ CutInv' /\ TableInv'
    BY <1>0, <1>1 DEF ensureBaseRules, RevokedInv, CutInv, TableInv, RevokedStaysBlocked, PolicyOf
  <2> QED
    BY <2>1, <2>2 DEF AdminInv
<1>2. ASSUME NEW from, NEW what \in {"policy", "forward"}, NEW next, Restore(from, what, next)
      PROVE  AdminInv'
  <2>1. step = "free" /\ mode = "restore" /\ mem = disk
    BY <1>0, <1>2 DEF Restore, MutexInv
  <2>2. AdminTypes' /\ MutexInv'
    BY <1>0, <1>2, <2>1 DEF Restore, AdminTypes, MutexInv, PolicyOf
  <2>3. RevokedInv' /\ CutInv' /\ TableInv'
    BY <1>0, <1>2, <2>1 DEF Restore, RevokedInv, CutInv, TableInv, RevokedStaysBlocked, PolicyOf
  <2> QED
    BY <2>2, <2>3 DEF AdminInv
<1> QED
  BY <1>1, <1>2 DEF StartUp, StartPolicy, RetryPolicy, StartForward

(* What removes peers without the lock. *)
LEMMA CuttingInv ==
    AdminInv /\ Cutting => AdminInv'
<1> SUFFICES ASSUME AdminInv, Cutting PROVE AdminInv'
  OBVIOUS
<1>0. AdminTypes /\ MutexInv /\ RevokedInv /\ CutInv /\ TableInv
  BY DEF AdminInv
<1>1. /\ UNCHANGED <<mem, disk, old, policy, step, op, mode, lost>>
      /\ peers' \subseteq peers /\ cutting' \subseteq cutting
      /\ sweep' \subseteq disk.revoked
  <2>1. CASE CutPeer
    BY <1>0, <2>1 DEF CutPeer, CutInv
  <2>2. CASE applyRevocations
    <3>1. mem = disk
      BY <1>0, <2>2 DEF applyRevocations, MutexInv
    <3> QED
      BY <2>2, <3>1 DEF applyRevocations
  <2>3. CASE SweepPeer
    BY <1>0, <2>3 DEF SweepPeer, CutInv
  <2> QED
    BY <2>1, <2>2, <2>3 DEF Cutting
<1>2. AdminTypes' /\ MutexInv'
  BY <1>0, <1>1 DEF AdminTypes, MutexInv, PolicyOf
<1>3. RevokedInv' /\ CutInv' /\ TableInv'
  BY <1>0, <1>1 DEF RevokedInv, CutInv, TableInv, RevokedStaysBlocked, PolicyOf
<1> QED
  BY <1>2, <1>3 DEF AdminInv

(* A restart, whatever table the kernel has kept. *)
LEMMA RestartInv ==
    ASSUME NEW table \in Table, NEW natTable, NEW unmade \in SUBSET {"table"},
           AdminInv, RestartWith(table, natTable, unmade), peers' \subseteq Peers,
           disk.revoked \subseteq table.banned \/ "table" \in unmade
    PROVE  AdminInv'
<1>0. AdminTypes /\ MutexInv /\ RevokedInv /\ CutInv /\ TableInv
  BY DEF AdminInv
<1>1. AdminTypes' /\ MutexInv'
  BY <1>0 DEF RestartWith, AdminTypes, MutexInv
<1>2. RevokedInv' /\ CutInv' /\ TableInv'
  BY <1>0 DEF RestartWith, RevokedInv, CutInv, TableInv, RevokedStaysBlocked
<1> QED
  BY <1>1, <1>2 DEF AdminInv

(* Restarts of the agent, of the host and of the WireGuard service. *)
LEMMA FailuresInv ==
    AdminInv /\ Failures => AdminInv'
<1> SUFFICES ASSUME AdminInv, Failures PROVE AdminInv'
  OBVIOUS
<1>0. AdminTypes /\ MutexInv /\ RevokedInv /\ CutInv /\ TableInv
  BY DEF AdminInv
<1>1. CASE Restart
  <2>1. policy \in Table /\ peers' \subseteq Peers /\ lost \cap {"table"} \in SUBSET {"table"}
    BY <1>0, <1>1 DEF AdminTypes, Restart
  <2>2. disk.revoked \subseteq policy.banned \/ "table" \in lost \cap {"table"}
    BY <1>0 DEF TableInv, RevokedStaysBlocked
  <2> QED
    BY <1>1, <2>1, <2>2, RestartInv DEF Restart
<1>2. CASE Reboot
  <2>1. Open \in Table
    BY DEF Open, Table, Switch
  <2> QED
    BY <1>2, <2>1, RestartInv DEF Reboot
<1>3. CASE PeersReturn
  <2>1. AdminTypes' /\ MutexInv'
    BY <1>0, <1>3 DEF PeersReturn, AdminTypes, MutexInv, PolicyOf
  <2>2. RevokedInv' /\ CutInv' /\ TableInv'
    BY <1>0, <1>3 DEF PeersReturn, RevokedInv, CutInv, TableInv, RevokedStaysBlocked, PolicyOf
  <2> QED
    BY <2>1, <2>2 DEF AdminInv
<1> QED
  BY <1>1, <1>2, <1>3 DEF Failures

-----------------------------------------------------------------------------
(* Every step preserves the invariant. *)
LEMMA AdminNextInv ==
    AdminInv /\ [AdminNext]_adminVars => AdminInv'
<1> SUFFICES ASSUME AdminInv, [AdminNext]_adminVars PROVE AdminInv'
  OBVIOUS
<1>1. CASE AdminNext
  BY <1>1, RequestInv, HolderInv, StartUpInv, CuttingInv, FailuresInv DEF AdminNext
<1>2. CASE UNCHANGED adminVars
  BY <1>2 DEF adminVars, AdminInv, AdminTypes, MutexInv, RevokedInv, CutInv, TableInv,
              RevokedStaysBlocked, PolicyOf
<1> QED
  BY <1>1, <1>2

(* The inductive invariant holds in every reachable state of the plane. *)
THEOREM AdminInvariant ==
    AdminSpec => []AdminInv
BY AdminInitInv, AdminNextInv, PTL DEF AdminSpec

(* Between two operations of admin_mutations.go RAM, file and live table agree,
   unless a failed restore was reported. *)
THEOREM PolicyTheorem ==
    AdminSpec => []PolicyIsEnforced
<1>1. AdminInv => PolicyIsEnforced
  BY DEF AdminInv, MutexInv, TableInv, PolicyIsEnforced
<1> QED
  BY <1>1, AdminInvariant, PTL

(* No failure and no interleaving of applyPolicyLocked, persistLocked and
   rollbackLocked lifts the block of a revoked peer. *)
THEOREM RevokedTheorem ==
    AdminSpec => []RevokedStaysBlocked
<1>1. AdminInv => RevokedStaysBlocked
  BY DEF AdminInv, TableInv
<1> QED
  BY <1>1, AdminInvariant, PTL

(* The file changes in persistLocked only. *)
LEMMA DiskStep ==
    [AdminNext]_adminVars => disk' = disk \/ disk' = mem
<1> SUFFICES ASSUME [AdminNext]_adminVars PROVE disk' = disk \/ disk' = mem
  OBVIOUS
<1>1. CASE Request
  BY <1>1 DEF Request, settings, ban, unban, revoke, forwarding, forwardingByID, Begin
<1>2. CASE Holder
  BY <1>2 DEF Holder, applyPolicyLocked, DeleteRules, AddRules, persistLocked
<1>3. CASE StartUp
  BY <1>3 DEF StartUp, ensureBaseRules, StartPolicy, RetryPolicy, StartForward, Restore
<1>4. CASE Cutting
  BY <1>4 DEF Cutting, CutPeer, applyRevocations, SweepPeer
<1>5. CASE Failures
  BY <1>5 DEF Failures, Restart, Reboot, RestartWith, PeersReturn
<1>6. CASE UNCHANGED adminVars
  BY <1>6 DEF adminVars
<1> QED
  BY <1>1, <1>2, <1>3, <1>4, <1>5, <1>6 DEF AdminNext

(* A revocation that reached the file stays there, whatever fails. *)
THEOREM RevocationTheorem ==
    AdminSpec => RevocationIsFinal
<1>1. AdminInv /\ [AdminNext]_adminVars => [disk.revoked \subseteq disk'.revoked]_adminVars
  BY DiskStep DEF AdminInv, RevokedInv
<1> QED
  BY <1>1, AdminInvariant, PTL DEF AdminSpec, RevocationIsFinal

(* Peers are removed in CutPeer and SweepPeer only. *)
LEMMA PeersStep ==
    AdminInv /\ [AdminNext]_adminVars => peers \ peers' \subseteq disk.revoked
<1> SUFFICES ASSUME AdminInv, [AdminNext]_adminVars PROVE peers \ peers' \subseteq disk.revoked
  OBVIOUS
<1>0. CutInv /\ peers \subseteq Peers
  BY DEF AdminInv, AdminTypes
<1>1. CASE Request
  BY <1>1 DEF Request, settings, ban, unban, revoke, forwarding, forwardingByID, Begin
<1>2. CASE Holder
  BY <1>2 DEF Holder, applyPolicyLocked, DeleteRules, AddRules, persistLocked
<1>3. CASE StartUp
  BY <1>3 DEF StartUp, ensureBaseRules, StartPolicy, RetryPolicy, StartForward, Restore
<1>4. CASE Cutting
  <2>1. CASE CutPeer
    BY <1>0, <2>1 DEF CutPeer, CutInv
  <2>2. CASE applyRevocations
    BY <2>2 DEF applyRevocations
  <2>3. CASE SweepPeer
    BY <1>0, <2>3 DEF SweepPeer, CutInv
  <2> QED
    BY <1>4, <2>1, <2>2, <2>3 DEF Cutting
<1>5. CASE Failures
  BY <1>0, <1>5 DEF Failures, Restart, Reboot, PeersReturn
<1>6. CASE UNCHANGED adminVars
  BY <1>6 DEF adminVars
<1> QED
  BY <1>1, <1>2, <1>3, <1>4, <1>5, <1>6 DEF AdminNext

(* removeLivePeer, called without the lock, only ever meets a peer whose
   revocation is in the file. *)
THEOREM CutTheorem ==
    AdminSpec => OnlyRevokedIsCut
<1>1. AdminInv /\ [AdminNext]_adminVars => [peers \ peers' \subseteq disk.revoked]_adminVars
  BY PeersStep
<1> QED
  BY <1>1, AdminInvariant, PTL DEF AdminSpec, OnlyRevokedIsCut

-----------------------------------------------------------------------------
(* The blocks that Without keeps are finitely many, and their ranks grow with their
   places in the chain. *)
LEMMA KeptFinite ==
    ASSUME chain \in Seq(Block), NEW owner
    PROVE  /\ Kept(owner) \subseteq 1 .. Len(chain)
           /\ IsFiniteSet(Kept(owner)) /\ Cardinality(Kept(owner)) \in Nat
           /\ \A k \in Kept(owner) : Rank(owner, k) \in 1 .. Cardinality(Kept(owner))
           /\ \A j, k \in Kept(owner) : j < k => Rank(owner, j) < Rank(owner, k)
<1> DEFINE K == Kept(owner)
           Upto(k) == {j \in K : j <= k}
<1>1. K \subseteq 1 .. Len(chain) /\ Len(chain) \in Nat
  BY DEF Kept
<1>2. IsFiniteSet(1 .. Len(chain))
  BY <1>1, FS_Interval
<1>3. IsFiniteSet(K) /\ Cardinality(K) \in Nat
  BY <1>1, <1>2, FS_Subset, FS_CardinalityType
<1>6. ASSUME NEW k PROVE Rank(owner, k) = Cardinality(Upto(k))
  BY DEF Rank
<1> HIDE DEF K
<1>4. ASSUME NEW k \in K
      PROVE  /\ IsFiniteSet(Upto(k)) /\ Cardinality(Upto(k)) \in Nat
             /\ Cardinality(Upto(k)) <= Cardinality(K) /\ Cardinality(Upto(k)) # 0
  <2>1. Upto(k) \in SUBSET K /\ k \in Upto(k)
    BY <1>1
  <2> HIDE DEF Upto
  <2>2. IsFiniteSet(Upto(k)) /\ Cardinality(Upto(k)) <= Cardinality(K)
    BY <1>3, <2>1, FS_Subset
  <2>3. Cardinality(Upto(k)) \in Nat
    BY <2>2, FS_CardinalityType
  <2> QED
    BY <2>1, <2>2, <2>3, FS_EmptySet
<1>5. ASSUME NEW j \in K, NEW k \in K, j < k PROVE Cardinality(Upto(j)) < Cardinality(Upto(k))
  <2>0. /\ k \in Int /\ j \in Int /\ K \subseteq Int
        /\ k <= k /\ ~(k <= j) /\ \A i \in Int : i <= j => i <= k
    BY <1>1, <1>5
  <2>1. Upto(j) \in SUBSET Upto(k) /\ k \in Upto(k) /\ k \notin Upto(j)
    BY <2>0
  <2>2. IsFiniteSet(Upto(k)) /\ Cardinality(Upto(k)) \in Nat /\ Cardinality(Upto(j)) \in Nat
    BY <1>4
  <2> HIDE DEF Upto
  <2>3. Cardinality(Upto(j)) <= Cardinality(Upto(k)) /\ Cardinality(Upto(j)) # Cardinality(Upto(k))
    BY <2>1, <2>2, FS_Subset
  <2> QED
    BY <2>2, <2>3
<1> HIDE DEF Upto
<1>7. \A k \in K : Rank(owner, k) \in 1 .. Cardinality(K)
  BY <1>3, <1>4, <1>6
<1>8. \A j, k \in K : j < k => Rank(owner, j) < Rank(owner, k)
  BY <1>5, <1>6
<1> QED
  BY <1>1, <1>3, <1>7, <1>8 DEF K

(* The place in the chain of each block that Without keeps. *)
Place(owner, n) == CHOOSE k \in Kept(owner) : Rank(owner, k) = n

(* Every rank has its place: ranks are an injection between sets of the same size. *)
LEMMA Places ==
    ASSUME chain \in Seq(Block), NEW owner, NEW n \in 1 .. Cardinality(Kept(owner))
    PROVE  Place(owner, n) \in Kept(owner) /\ Rank(owner, Place(owner, n)) = n
<1> DEFINE K == Kept(owner)
           N == 1 .. Cardinality(K)
           r == [k \in K |-> Rank(owner, k)]
<1>1. /\ K \subseteq 1 .. Len(chain) /\ IsFiniteSet(K) /\ Cardinality(K) \in Nat
      /\ \A k \in K : Rank(owner, k) \in N
      /\ \A j, k \in K : j < k => Rank(owner, j) < Rank(owner, k)
  BY KeptFinite
<1>2. r \in [K -> N]
  BY <1>1
<1>3. \A j, k \in K : r[j] = r[k] => j = k
  BY <1>1
<1>4. r \in Injection(K, N)
  BY <1>2, <1>3 DEF Injection, IsInjective
<1>5. IsFiniteSet(N) /\ Cardinality(N) = Cardinality(K)
  BY <1>1, FS_Interval
<1>6. r \in Surjection(K, N)
  BY <1>1, <1>4, <1>5, FS_Injection
<1>7. \E k \in K : r[k] = n
  BY <1>6 DEF Surjection
<1>8. \E k \in Kept(owner) : Rank(owner, k) = n
  BY <1>7
<1> QED
  BY <1>8 DEF Place

(* What Without keeps: blocks of other owners, all of them, in their order. *)
LEMMA WithoutFacts ==
    ASSUME chain \in Seq(Block), NEW owner
    PROVE  /\ Without(owner) \in Seq(Block)
           /\ \A n \in DOMAIN Without(owner) :
                  Place(owner, n) \in DOMAIN chain /\ Without(owner)[n] = chain[Place(owner, n)]
           /\ \A n \in DOMAIN Without(owner) : Without(owner)[n].owner # owner
           /\ \A m, n \in DOMAIN Without(owner) : m < n => Place(owner, m) < Place(owner, n)
           /\ \A k \in DOMAIN chain : chain[k].owner # owner =>
                  \E n \in DOMAIN Without(owner) : Without(owner)[n] = chain[k]
<1> DEFINE K == Kept(owner)
           N == 1 .. Cardinality(K)
           W == Without(owner)
<1>1. /\ K \subseteq 1 .. Len(chain) /\ Cardinality(K) \in Nat
      /\ \A k \in K : Rank(owner, k) \in N
      /\ \A j, k \in K : j < k => Rank(owner, j) < Rank(owner, k)
  BY KeptFinite
<1>2. ASSUME NEW n \in N PROVE Place(owner, n) \in K /\ Rank(owner, Place(owner, n)) = n
  BY <1>2, Places
<1>3. W = [n \in N |-> chain[Place(owner, n)]]
  BY DEF Without, Place
<1>4. \A k \in K : k \in DOMAIN chain /\ chain[k] \in Block /\ chain[k].owner # owner
  BY DEF Kept
<1>5. W \in Seq(Block) /\ DOMAIN W = N
  BY <1>1, <1>2, <1>3, <1>4
<1>6. \A n \in N : Place(owner, n) \in DOMAIN chain /\ W[n] = chain[Place(owner, n)] /\ W[n].owner # owner
  BY <1>2, <1>3, <1>4
<1>7. ASSUME NEW m \in N, NEW n \in N, m < n PROVE Place(owner, m) < Place(owner, n)
  BY <1>1, <1>2, <1>7
<1>8. ASSUME NEW k \in DOMAIN chain, chain[k].owner # owner PROVE \E n \in N : W[n] = chain[k]
  <2>1. k \in K
    BY <1>8 DEF Kept
  <2>2. Rank(owner, k) \in N
    BY <1>1, <2>1
  <2>3. Place(owner, Rank(owner, k)) \in K
        /\ Rank(owner, Place(owner, Rank(owner, k))) = Rank(owner, k)
    BY <1>2, <2>2
  <2>4. Place(owner, Rank(owner, k)) = k
    BY <1>1, <2>1, <2>3
  <2> QED
    BY <1>6, <2>2, <2>4
<1> HIDE DEF W
<1>9. QED
  BY <1>5, <1>6, <1>7, <1>8 DEF W

-----------------------------------------------------------------------------
(* Some block of an owner in the chain c forwards the port p. *)
Answers(c, owner, p) == \E k \in DOMAIN c : c[k].owner = owner /\ p \in c[k].ports

(* No block of the DMZ; no other block behind one of the DMZ. *)
NoDmz(c)   == \A k \in DOMAIN c : c[k].owner # "dmz"
DmzLast(c) == \A k, n \in DOMAIN c : k < n /\ c[k].owner = "dmz" => c[n].owner = "dmz"

(* The ports of an owner are those that some block of it forwards. *)
LEMMA LiveAnswers ==
    ASSUME NEW owner, NEW p PROVE p \in LivePorts(owner) <=> Answers(chain, owner, p)
BY DEF LivePorts, Answers

(* The same of the chain after a step. *)
LEMMA LiveAnswersNext ==
    ASSUME NEW owner, NEW p PROVE p \in LivePorts(owner)' <=> Answers(chain', owner, p)
BY DEF LivePorts, Answers

(* The edits of the chain.  The blocks of an owner are removed ... *)
LEMMA RemoveEdit ==
    ASSUME chain \in Seq(Block), DmzLast(chain), NEW owner
    PROVE  /\ Without(owner) \in Seq(Block) /\ DmzLast(Without(owner))
           /\ NoDmz(chain) \/ owner = "dmz" => NoDmz(Without(owner))
           /\ \A p : ~Answers(Without(owner), owner, p)
           /\ \A o, p : o # owner => (Answers(Without(owner), o, p) <=> Answers(chain, o, p))
<1> DEFINE W == Without(owner)
           P(n) == Place(owner, n)
<1>1. /\ W \in Seq(Block)
      /\ \A n \in DOMAIN W : P(n) \in DOMAIN chain /\ W[n] = chain[P(n)]
      /\ \A n \in DOMAIN W : W[n].owner # owner
      /\ \A m, n \in DOMAIN W : m < n => P(m) < P(n)
      /\ \A k \in DOMAIN chain : chain[k].owner # owner => \E n \in DOMAIN W : W[n] = chain[k]
  BY WithoutFacts
<1> HIDE DEF W, P
<1>2. DmzLast(W)
  BY <1>1 DEF DmzLast
<1>3. NoDmz(chain) \/ owner = "dmz" => NoDmz(W)
  BY <1>1 DEF NoDmz
<1>4. \A p : ~Answers(W, owner, p)
  BY <1>1 DEF Answers
<1>5. ASSUME NEW o, NEW p, o # owner PROVE Answers(W, o, p) <=> Answers(chain, o, p)
  <2>1. ASSUME Answers(W, o, p) PROVE Answers(chain, o, p)
    BY <1>1, <2>1 DEF Answers
  <2>2. ASSUME Answers(chain, o, p) PROVE Answers(W, o, p)
    <3>1. PICK k \in DOMAIN chain : chain[k].owner = o /\ p \in chain[k].ports
      BY <2>2 DEF Answers
    <3>2. PICK n \in DOMAIN W : W[n] = chain[k]
      BY <1>1, <1>5, <3>1
    <3> QED
      BY <3>1, <3>2 DEF Answers
  <2> QED
    BY <2>1, <2>2
<1> QED
  BY <1>1, <1>2, <1>3, <1>4, <1>5 DEF W

(* ... a block that is not the DMZ's is inserted at the head ... *)
LEMMA InsertEdit ==
    ASSUME chain \in Seq(Block), DmzLast(chain), NEW b \in Block, b.owner # "dmz",
           NEW c, c = <<b>> \o chain
    PROVE  /\ c \in Seq(Block) /\ DmzLast(c)
           /\ NoDmz(chain) => NoDmz(c)
           /\ \A o, p : Answers(c, o, p) <=> (Answers(chain, o, p) \/ (o = b.owner /\ p \in b.ports))
<1>1. /\ c \in Seq(Block) /\ Len(chain) \in Nat /\ Len(c) = Len(chain) + 1 /\ c[1] = b
      /\ DOMAIN c = 1 .. Len(c) /\ DOMAIN chain = 1 .. Len(chain)
      /\ \A n \in DOMAIN chain : c[n + 1] = chain[n]
      /\ \A n \in DOMAIN c : n # 1 => n - 1 \in DOMAIN chain /\ c[n] = chain[n - 1]
  OBVIOUS
<1>2. DmzLast(c)
  BY <1>1 DEF DmzLast
<1>3. NoDmz(chain) => NoDmz(c)
  BY <1>1 DEF NoDmz
<1>4. ASSUME NEW o, NEW p
      PROVE  Answers(c, o, p) <=> (Answers(chain, o, p) \/ (o = b.owner /\ p \in b.ports))
  <2>1. ASSUME Answers(c, o, p) PROVE Answers(chain, o, p) \/ (o = b.owner /\ p \in b.ports)
    BY <1>1, <2>1 DEF Answers
  <2>2. ASSUME Answers(chain, o, p) PROVE Answers(c, o, p)
    <3>1. PICK k \in DOMAIN chain : chain[k].owner = o /\ p \in chain[k].ports
      BY <2>2 DEF Answers
    <3>2. k + 1 \in DOMAIN c /\ c[k + 1] = chain[k]
      BY <1>1, <3>1
    <3> QED
      BY <3>1, <3>2 DEF Answers
  <2>3. 1 \in DOMAIN c
    BY <1>1
  <2>4. ASSUME o = b.owner, p \in b.ports PROVE Answers(c, o, p)
    BY <1>1, <2>3, <2>4 DEF Answers
  <2> QED
    BY <2>1, <2>2, <2>4
<1> QED
  BY <1>1, <1>2, <1>3, <1>4

(* ... and one of the DMZ is appended. *)
LEMMA AppendEdit ==
    ASSUME chain \in Seq(Block), DmzLast(chain), NEW b \in Block, b.owner = "dmz",
           NEW c, c = Append(chain, b)
    PROVE  /\ c \in Seq(Block) /\ DmzLast(c)
           /\ \A p : Answers(c, "admin", p) <=> Answers(chain, "admin", p)
<1>1. /\ c \in Seq(Block) /\ Len(chain) \in Nat /\ Len(c) = Len(chain) + 1 /\ c[Len(c)] = b
      /\ DOMAIN c = 1 .. Len(c) /\ DOMAIN chain = 1 .. Len(chain)
      /\ \A n \in DOMAIN chain : n \in DOMAIN c /\ c[n] = chain[n]
      /\ \A n \in DOMAIN c : n # Len(c) => n \in DOMAIN chain
  OBVIOUS
<1>2. DmzLast(c)
  BY <1>1 DEF DmzLast
<1>3. ASSUME NEW p PROVE Answers(c, "admin", p) <=> Answers(chain, "admin", p)
  BY <1>1 DEF Answers
<1> QED
  BY <1>1, <1>2, <1>3

-----------------------------------------------------------------------------
(* The extension plane's own state. *)
ExtTypes ==
    /\ ext \in ExtState /\ extDisk \in ExtState /\ dmzLost \subseteq {"live", "durable"}
    /\ dmz \in [step : {"free", "remove", "read", "add", "rollback"}, mode : {"do", "undo", "restore"},
                old : ExtState, explicit : SUBSET Ports]
    /\ rq = NoRequest \/ rq.kind \in {"status", "put", "delete"}
    /\ rq.kind = "put" => rq.id \in Ids

(* The DMZ's blocks come last, and there are none between their removal and the
   step that adds them, or after an operation that left the DMZ off. *)
ChainInv ==
    /\ chain \in Seq(Block) /\ DmzLast(chain)
    /\ dmz.step \in {"read", "add"} => ext.dmz = "on" /\ NoDmz(chain)
    /\ dmz.step = "free" /\ "live" \notin dmzLost /\ ext.dmz = "off" => NoDmz(chain)

(* The explicit rules' blocks: those of the file, unless they are being replaced
   or a failure was reported; the new ones when these are written. *)
RulesInv ==
    /\ step = "free" => op = "policy"
    /\ op = "policy" => mem.rules = disk.rules
    /\ op = "policy" => "forward" \in lost \/ LivePorts("admin") = Explicit(disk)
    /\ step = "add" => LivePorts("admin") = {}
    /\ step = "persist" /\ op = "forward" => "forward" \in lost \/ LivePorts("admin") = Explicit(mem)

(* What the two planes share besides. *)
ForwardingInv ==
    AdminInv /\ ExtTypes /\ ChainInv /\ RulesInv /\ ("durable" \notin dmzLost => ext = extDisk)

-----------------------------------------------------------------------------
(* The first state: no rules, and the DMZ off. *)
LEMMA ForwardingInitInv ==
    Init => ForwardingInv
<1> SUFFICES ASSUME Init PROVE ForwardingInv
  OBVIOUS
<1>1. AdminInv
  BY AdminInitInv DEF Init
<1>2. ExtTypes
  BY DEF Init, ExtTypes, ExtState, Idle, NoRequest, Switch
<1>3. ChainInv
  BY DEF Init, AdminInit, ChainInv, DmzLast, NoDmz, Idle
<1>4. RulesInv
  BY DEF Init, AdminInit, RulesInv
<1> QED
  BY <1>1, <1>2, <1>3, <1>4 DEF ForwardingInv, Init

(* The explicit rules' ports after an edit of the chain. *)
LEMMA SamePorts ==
    ASSUME \A p : Answers(chain', "admin", p) <=> Answers(chain, "admin", p)
    PROVE  LivePorts("admin")' = LivePorts("admin")
<1>1. ASSUME NEW p PROVE p \in LivePorts("admin")' <=> p \in LivePorts("admin")
  BY LiveAnswers, LiveAnswersNext
<1> QED
  BY <1>1

(* A step of the extension plane or of a peer leaves the admin plane's state alone,
   the explicit rules included. *)
LEMMA AdminAlone ==
    ASSUME AdminInv, RulesInv,
           UNCHANGED <<mem, disk, old, policy, step, op, mode, phase, lost, peers, cutting, sweep>>,
           \A p : Answers(chain', "admin", p) <=> Answers(chain, "admin", p)
    PROVE  AdminInv' /\ RulesInv'
<1>1. AdminInv'
  BY DEF AdminInv, AdminTypes, MutexInv, RevokedInv, CutInv, TableInv, RevokedStaysBlocked, PolicyOf
<1>2. LivePorts("admin")' = LivePorts("admin")
  BY SamePorts
<1>3. RulesInv'
  BY <1>2 DEF RulesInv, Explicit
<1> QED
  BY <1>1, <1>3

(* What the extension plane does to its own state when the chain stays. *)
LEMMA OwnStep ==
    ASSUME ForwardingInv, UNCHANGED <<mem, disk, old, policy, chain, step, op, mode, phase, lost, peers,
                                      cutting, sweep>>,
           ExtTypes', "durable" \notin dmzLost' => ext' = extDisk',
           dmz'.step \in {"read", "add"} => ext'.dmz = "on" /\ NoDmz(chain),
           dmz'.step = "free" /\ "live" \notin dmzLost' /\ ext'.dmz = "off" => NoDmz(chain)
    PROVE  ForwardingInv'
<1>1. AdminInv' /\ RulesInv'
  BY AdminAlone DEF ForwardingInv
<1>2. ChainInv'
  BY DEF ForwardingInv, ChainInv
<1> QED
  BY <1>1, <1>2 DEF ForwardingInv

(* Requests for the DMZ, and the loop. *)
LEMMA DmzRequestInv ==
    ASSUME ForwardingInv, NEW to \in Switch, Dmz(to) \/ Reassert
    PROVE  ForwardingInv'
<1>0. ExtTypes /\ ChainInv /\ ("durable" \notin dmzLost => ext = extDisk)
  BY DEF ForwardingInv
<1>1. [ext EXCEPT !.dmz = to] \in ExtState /\ ext \in ExtState
  BY <1>0 DEF ExtTypes, ExtState
<1>2. /\ dmz' \in [step : {"free", "remove", "read", "add", "rollback"},
                   mode : {"do", "undo", "restore"}, old : ExtState, explicit : SUBSET Ports]
      /\ dmz'.step = "remove" \/ UNCHANGED <<ext, dmz, dmzLost>>
  <2>1. [dmz |-> "off", owners |-> {}] \in ExtState
    BY DEF ExtState, Switch
  <2>2. CASE UNCHANGED <<ext, dmz, dmzLost>>
    BY <1>0, <2>2 DEF ExtTypes
  <2>3. CASE \/ dmz' = [Idle EXCEPT !.step = "remove", !.mode = "do", !.old = ext]
             \/ dmz' = [Idle EXCEPT !.step = "remove"]
    BY <1>1, <2>1, <2>3 DEF Idle
  <2> QED
    BY <2>2, <2>3 DEF Dmz, Reassert
<1>3. ExtTypes'
  BY <1>0, <1>1, <1>2 DEF Dmz, Reassert, Persist, ExtTypes
<1>4. "durable" \notin dmzLost' => ext' = extDisk'
  BY <1>0 DEF Dmz, Reassert, Persist
<1> QED
  BY <1>0, <1>2, <1>3, <1>4, OwnStep DEF Dmz, Reassert, ChainInv, adminVars

(* A removal or a restore that fails is rolled back or reported. *)
LEMMA DmzEnds ==
    ASSUME ExtTypes, DmzDone \/ DmzFailed
    PROVE  /\ dmzLost' \subseteq {"live", "durable"}
           /\ "durable" \in dmzLost' <=> "durable" \in dmzLost
           /\ dmz' \in [step : {"free", "remove", "read", "add", "rollback"},
                        mode : {"do", "undo", "restore"}, old : ExtState, explicit : SUBSET Ports]
           /\ dmz'.step \in {"free", "rollback"}
           /\ DmzFailed => dmz'.step = "rollback" \/ "live" \in dmzLost'
BY DEF DmzDone, DmzFailed, ExtTypes, ExtState, Idle, Switch

(* The steps of the operation that holds dmzMu: its rollback ... *)
LEMMA RollbackDmzInv ==
    ASSUME ForwardingInv, rollbackProtectedDMZLocked PROVE ForwardingInv'
<1>0. ExtTypes /\ ChainInv /\ ("durable" \notin dmzLost => ext = extDisk)
  BY DEF ForwardingInv
<1>1. /\ dmz' \in [step : {"free", "remove", "read", "add", "rollback"},
                   mode : {"do", "undo", "restore"}, old : ExtState, explicit : SUBSET Ports]
      /\ dmz'.step = "remove" /\ dmz.old \in ExtState
  BY <1>0 DEF rollbackProtectedDMZLocked, ExtTypes
<1>2. ExtTypes' /\ ("durable" \notin dmzLost' => ext' = extDisk')
  BY <1>0, <1>1 DEF rollbackProtectedDMZLocked, Persist, ExtTypes
<1> QED
  BY <1>1, <1>2, OwnStep DEF rollbackProtectedDMZLocked

(* ... its reading of the admin plane's file ... *)
LEMMA ReadAdminInv ==
    ASSUME ForwardingInv, ReadAdmin PROVE ForwardingInv'
<1>0. ExtTypes /\ ChainInv /\ ("durable" \notin dmzLost => ext = extDisk)
  BY DEF ForwardingInv
<1>1. /\ dmz' \in [step : {"free", "remove", "read", "add", "rollback"},
                   mode : {"do", "undo", "restore"}, old : ExtState, explicit : SUBSET Ports]
      /\ dmz'.step \in {"add", "free", "rollback"} /\ dmzLost' \subseteq {"live", "durable"}
      /\ "durable" \in dmzLost' <=> "durable" \in dmzLost
  <2>1. CASE DmzDone \/ DmzFailed
    BY <1>0, <2>1, DmzEnds
  <2>2. CASE dmz' = [dmz EXCEPT !.step = "add", !.explicit = Explicit(disk)] /\ UNCHANGED dmzLost
    BY <1>0, <2>2 DEF ExtTypes, Explicit
  <2> QED
    BY <2>1, <2>2 DEF ReadAdmin
<1>2. /\ UNCHANGED <<ext, extDisk, rq>> /\ dmz.step = "read"
      /\ UNCHANGED <<mem, disk, old, policy, chain, step, op, mode, phase, lost, peers, cutting, sweep>>
  BY DEF ReadAdmin
<1>3. ExtTypes' /\ ("durable" \notin dmzLost' => ext' = extDisk')
  BY <1>0, <1>1, <1>2 DEF ExtTypes
<1>4. ext.dmz = "on" /\ NoDmz(chain)
  BY <1>0, <1>2 DEF ChainInv
<1> QED
  BY <1>1, <1>2, <1>3, <1>4, OwnStep

(* ... the removal of the tagged rules ... *)
LEMMA RemoveDmzInv ==
    ASSUME ForwardingInv, removeProtectedDMZRules PROVE ForwardingInv'
<1>0. AdminInv /\ RulesInv /\ ExtTypes /\ ChainInv /\ ("durable" \notin dmzLost => ext = extDisk)
  BY DEF ForwardingInv
<1>1. CASE DmzFailed /\ UNCHANGED chain
  <2>1. ExtTypes' /\ ("durable" \notin dmzLost' => ext' = extDisk')
    BY <1>0, <1>1, DmzEnds DEF removeProtectedDMZRules, ExtTypes
  <2> QED
    BY <1>0, <1>1, <2>1, DmzEnds, OwnStep DEF removeProtectedDMZRules
<1>2. CASE /\ chain' = Without("dmz")
           /\ IF ext.dmz = "off" THEN DmzDone
              ELSE dmz' = [dmz EXCEPT !.step = "read"] /\ UNCHANGED dmzLost
  <2>1. /\ chain' \in Seq(Block) /\ DmzLast(chain') /\ NoDmz(chain')
        /\ \A p : Answers(chain', "admin", p) <=> Answers(chain, "admin", p)
    BY <1>0, <1>2, RemoveEdit DEF ChainInv
  <2>2. AdminInv' /\ RulesInv'
    BY <1>0, <2>1, AdminAlone DEF removeProtectedDMZRules
  <2>3. /\ dmz' \in [step : {"free", "remove", "read", "add", "rollback"},
                     mode : {"do", "undo", "restore"}, old : ExtState, explicit : SUBSET Ports]
        /\ dmzLost' \subseteq {"live", "durable"}
        /\ "durable" \in dmzLost' <=> "durable" \in dmzLost
    <3>1. CASE DmzDone
      BY <1>0, <3>1, DmzEnds
    <3>2. CASE dmz' = [dmz EXCEPT !.step = "read"] /\ UNCHANGED dmzLost
      BY <1>0, <3>2 DEF ExtTypes
    <3> QED
      BY <1>2, <3>1, <3>2
  <2>4. ExtTypes' /\ ("durable" \notin dmzLost' => ext' = extDisk')
    BY <1>0, <2>3 DEF removeProtectedDMZRules, ExtTypes
  <2>5. dmz'.step \in {"read", "add"} => ext'.dmz = "on"
    <3>1. CASE ext.dmz = "off"
      BY <1>2, <3>1 DEF DmzDone, Idle
    <3>2. CASE ext.dmz # "off"
      BY <1>0, <3>2 DEF removeProtectedDMZRules, ExtTypes, ExtState, Switch
    <3> QED
      BY <3>1, <3>2
  <2> QED
    BY <2>1, <2>2, <2>4, <2>5 DEF ForwardingInv, ChainInv
<1> QED
  BY <1>1, <1>2 DEF removeProtectedDMZRules

(* ... and the new ones. *)
LEMMA AddDmzInv ==
    ASSUME ForwardingInv, AddDmz PROVE ForwardingInv'
<1>0. AdminInv /\ RulesInv /\ ExtTypes /\ ChainInv /\ ("durable" \notin dmzLost => ext = extDisk)
  BY DEF ForwardingInv
<1>1. ExtTypes' /\ ("durable" \notin dmzLost' => ext' = extDisk')
  BY <1>0, DmzEnds DEF AddDmz, ExtTypes
<1>2. CASE DmzFailed /\ UNCHANGED chain
  BY <1>0, <1>1, <1>2, DmzEnds, OwnStep DEF AddDmz
<1>3. CASE /\ DmzDone
           /\ chain' = Append(chain, [owner |-> "dmz", ports |-> protectedDMZAllowedRanges(dmz.explicit)])
  <2> DEFINE b == [owner |-> "dmz", ports |-> protectedDMZAllowedRanges(dmz.explicit)]
  <2>1. b \in Block /\ b.owner = "dmz"
    BY DEF Block, Owners, protectedDMZAllowedRanges
  <2>2. chain' = Append(chain, b)
    BY <1>3
  <2> HIDE DEF b
  <2>3. /\ chain' \in Seq(Block) /\ DmzLast(chain')
        /\ \A p : Answers(chain', "admin", p) <=> Answers(chain, "admin", p)
    BY <1>0, <2>1, <2>2, AppendEdit DEF ChainInv
  <2>4. AdminInv' /\ RulesInv'
    BY <1>0, <2>3, AdminAlone DEF AddDmz
  <2>5. dmz'.step = "free" /\ ext'.dmz = "on"
    BY <1>0, <1>3 DEF AddDmz, DmzDone, Idle, ChainInv
  <2> QED
    BY <1>1, <2>3, <2>4, <2>5 DEF ForwardingInv, ChainInv
<1> QED
  BY <1>2, <1>3 DEF AddDmz

(* The requests about owners, before and under s.mu. *)
LEMMA ReadRulesInv ==
    ASSUME ForwardingInv, NEW kind \in {"status", "put", "delete"}, NEW i, ReadRules(kind, i),
           kind = "put" => i \in Ids
    PROVE  ForwardingInv'
<1>0. ExtTypes /\ ChainInv /\ ("durable" \notin dmzLost => ext = extDisk)
  BY DEF ForwardingInv
<1>1. UNCHANGED <<ext, extDisk, dmz, dmzLost, adminVars>> /\ rq'.kind = kind /\ rq'.id = i
  BY DEF ReadRules
<1>2. ExtTypes'
  BY <1>0, <1>1 DEF ExtTypes
<1> QED
  BY <1>0, <1>1, <1>2, OwnStep DEF adminVars, ChainInv

(* One section under s.mu changes the owners and leaves the DMZ's intent. *)
LEMMA CommitInv ==
    ASSUME ForwardingInv, Commit PROVE ForwardingInv'
<1>0. ExtTypes /\ ChainInv /\ ("durable" \notin dmzLost => ext = extDisk)
  BY DEF ForwardingInv
<1>1. rq' = NoRequest /\ rq'.kind = "none" /\ dmz' = dmz
  BY DEF Commit, NoRequest
<1>2. CASE UNCHANGED <<ext, extDisk, dmzLost>>
  <2>1. ExtTypes'
    BY <1>0, <1>1, <1>2 DEF ExtTypes
  <2> QED
    BY <1>0, <1>1, <1>2, <2>1, OwnStep DEF Commit, ChainInv
<1>3. ASSUME NEW owners \in SUBSET Ids, Persist([ext EXCEPT !.owners = owners])
      PROVE  ForwardingInv'
  <2>1. [ext EXCEPT !.owners = owners] \in ExtState /\ [ext EXCEPT !.owners = owners].dmz = ext.dmz
    BY <1>0 DEF ExtTypes, ExtState
  <2>2. ext' = extDisk' /\ ext' \in ExtState /\ ext'.dmz = ext.dmz /\ dmzLost' = dmzLost \ {"durable"}
    BY <1>3, <2>1 DEF Persist
  <2>3. ExtTypes'
    BY <1>0, <1>1, <2>2 DEF ExtTypes
  <2> QED
    BY <1>0, <1>1, <2>2, <2>3, OwnStep DEF Commit, ChainInv
<1>4. /\ ext.owners \cap rq.seen \in SUBSET Ids /\ ext.owners \ {rq.id} \in SUBSET Ids
      /\ rq.kind = "put" => ext.owners \cup {rq.id} \in SUBSET Ids
      /\ rq.kind \in {"status", "put", "delete"}
  BY <1>0 DEF ExtTypes, ExtState, Commit
<1>5. CASE rq.kind = "status"
  BY <1>2, <1>3, <1>4, <1>5 DEF Commit
<1>6. CASE rq.kind = "put"
  BY <1>2, <1>3, <1>4, <1>6 DEF Commit
<1>7. CASE rq.kind = "delete"
  BY <1>2, <1>3, <1>4, <1>7 DEF Commit
<1> QED
  BY <1>4, <1>5, <1>6, <1>7

(* Peers' own forwards. *)
LEMMA PeerForwardInv ==
    ASSUME ForwardingInv, clearPeerForwarding \/ (\E port \in Ports : forward(port))
    PROVE  ForwardingInv'
<1>0. AdminInv /\ RulesInv /\ ExtTypes /\ ChainInv /\ ("durable" \notin dmzLost => ext = extDisk)
  BY DEF ForwardingInv
<1>1. UNCHANGED extVars
      /\ UNCHANGED <<mem, disk, old, policy, step, op, mode, phase, lost, peers, cutting, sweep>>
  BY DEF clearPeerForwarding, forward
<1>2. /\ chain' \in Seq(Block) /\ DmzLast(chain') /\ (NoDmz(chain) => NoDmz(chain'))
      /\ \A p : Answers(chain', "admin", p) <=> Answers(chain, "admin", p)
  <2>1. CASE clearPeerForwarding
    BY <1>0, <2>1, RemoveEdit DEF clearPeerForwarding, ChainInv
  <2>2. ASSUME NEW port \in Ports, forward(port)
        PROVE  /\ chain' \in Seq(Block) /\ DmzLast(chain') /\ (NoDmz(chain) => NoDmz(chain'))
               /\ \A p : Answers(chain', "admin", p) <=> Answers(chain, "admin", p)
    <3> DEFINE b == [owner |-> "peer", ports |-> {port}]
    <3>1. b \in Block /\ b.owner = "peer" /\ chain' = <<b>> \o chain
      BY <2>2 DEF forward, Block, Owners
    <3> HIDE DEF b
    <3>2. /\ chain' \in Seq(Block) /\ DmzLast(chain') /\ (NoDmz(chain) => NoDmz(chain'))
          /\ \A o, p : Answers(chain', o, p)
                       <=> (Answers(chain, o, p) \/ (o = b.owner /\ p \in b.ports))
      <4>1. b.owner # "dmz" /\ chain \in Seq(Block) /\ DmzLast(chain)
        BY <1>0, <3>1 DEF ChainInv
      <4> QED
        BY <3>1, <4>1, InsertEdit
    <3> QED
      BY <3>1, <3>2
  <2> QED
    BY <2>1, <2>2
<1>3. AdminInv' /\ RulesInv'
  BY <1>0, <1>1, <1>2, AdminAlone
<1>4. ExtTypes' /\ ChainInv'
  BY <1>0, <1>1, <1>2 DEF extVars, ExtTypes, ChainInv
<1> QED
  BY <1>0, <1>1, <1>3, <1>4 DEF ForwardingInv, extVars

-----------------------------------------------------------------------------
(* A step of the admin plane that leaves the other plane alone, given what it made
   of the chain. *)
LEMMA AdminStep ==
    ASSUME ForwardingInv, UNCHANGED extVars, AdminInv', RulesInv',
           chain' \in Seq(Block), DmzLast(chain'), NoDmz(chain) => NoDmz(chain')
    PROVE  ForwardingInv'
<1>1. ExtTypes' /\ ChainInv'
  BY DEF ForwardingInv, extVars, ExtTypes, ChainInv
<1> QED
  BY <1>1 DEF ForwardingInv, extVars

(* The handlers of the admin API do not touch the chain when they begin. *)
LEMMA RequestRules ==
    ASSUME AdminInv, RulesInv, Request PROVE RulesInv' /\ chain' = chain
<1>0. mem \in State /\ (step = "free" => mem = disk)
  BY DEF AdminInv, AdminTypes, MutexInv
<1> DEFINE Begun == /\ step = "free" /\ UNCHANGED <<disk, chain, lost>>
                    /\ step' \in {"apply", "delete"}
                    /\ op' = "policy" => mem'.rules = mem.rules
<1>1. Begun
  <2>1. ASSUME NEW m \in Switch, NEW l \in Switch, settings(m, l) PROVE Begun
    BY <1>0, <2>1 DEF settings, Begin, State
  <2>2. ASSUME NEW p \in Peers, ban(p) \/ unban(p) \/ revoke(p) PROVE Begun
    BY <1>0, <2>2 DEF ban, unban, revoke, Begin, State
  <2>3. ASSUME NEW i \in Ids, forwardingByID(i) PROVE Begun
    BY <2>3 DEF forwardingByID, Begin
  <2>4. ASSUME NEW i \in Ids, NEW port, forwarding(i, port) PROVE Begun
    BY <2>4 DEF forwarding, Begin
  <2> QED
    BY <2>1, <2>2, <2>3, <2>4 DEF Request
<1>2. LivePorts("admin")' = LivePorts("admin") /\ Explicit(disk)' = Explicit(disk)
  BY <1>1 DEF LivePorts, Explicit
<1>3. op = "policy" /\ mem = disk
  BY <1>0, <1>1 DEF RulesInv
<1> QED
  BY <1>1, <1>2, <1>3 DEF RulesInv

(* An application that succeeds, given the live rules it leaves. *)
LEMMA AppliedRules ==
    ASSUME AdminInv, RulesInv, Applied, UNCHANGED disk,
           op = "policy" => LivePorts("admin")' = LivePorts("admin"),
           op = "forward" => LivePorts("admin")' = Explicit(mem)
    PROVE  RulesInv'
<1>0. /\ op \in {"policy", "forward"} /\ (mode # "do" => mem = disk)
  BY DEF AdminInv, AdminTypes, MutexInv
<1>1. mem' = mem /\ Explicit(mem)' = Explicit(mem) /\ Explicit(disk)' = Explicit(disk)
  BY DEF Applied, Unlock, Explicit
<1>2. CASE op = "policy"
  BY <1>0, <1>1, <1>2 DEF Applied, Unlock, RulesInv
<1>3. CASE op = "forward"
  BY <1>0, <1>1, <1>3 DEF Applied, Unlock, RulesInv
<1> QED
  BY <1>0, <1>2, <1>3

(* A rollback forgets the rules that were not committed. *)
LEMMA RollbackRules ==
    ASSUME AdminInv, RulesInv, Rollback, UNCHANGED <<disk, chain, lost>>
    PROVE  RulesInv'
<1>0. op \in {"policy", "forward"} /\ old = disk
  BY DEF AdminInv, AdminTypes, MutexInv
<1>1. LivePorts("admin")' = LivePorts("admin") /\ Explicit(disk)' = Explicit(disk)
  BY DEF LivePorts, Explicit
<1> QED
  BY <1>0, <1>1 DEF Rollback, RulesInv

(* An application that fails is rolled back or reported. *)
LEMMA ApplyFailedRules ==
    ASSUME AdminInv, RulesInv, ApplyFailed, UNCHANGED <<disk, chain>>
    PROVE  RulesInv'
<1>0. op \in {"policy", "forward"} /\ (mode # "do" => mem = disk)
  BY DEF AdminInv, AdminTypes, MutexInv
<1>1. LivePorts("admin")' = LivePorts("admin") /\ Explicit(disk)' = Explicit(disk)
  BY DEF LivePorts, Explicit
<1>2. CASE mode = "do"
  BY <1>2, RollbackRules DEF ApplyFailed
<1>3. CASE mode # "do"
  BY <1>0, <1>1, <1>3 DEF ApplyFailed, Unlock, RulesInv
<1> QED
  BY <1>2, <1>3

(* The steps of the operation that holds mu. *)
LEMMA HolderRules ==
    ASSUME AdminInv, RulesInv, chain \in Seq(Block), DmzLast(chain), Holder
    PROVE  /\ RulesInv' /\ chain' \in Seq(Block) /\ DmzLast(chain')
           /\ NoDmz(chain) => NoDmz(chain')
<1>0. MutexInv /\ AdminTypes
  BY DEF AdminInv
<1>1. CASE applyPolicyLocked
  <2>1. op = "policy" /\ chain' = chain /\ LivePorts("admin")' = LivePorts("admin")
    BY <1>0, <1>1 DEF applyPolicyLocked, MutexInv, LivePorts
  <2> QED
    BY <1>1, <2>1, AppliedRules, ApplyFailedRules DEF applyPolicyLocked
<1>2. CASE DeleteRules
  <2>0. op = "forward"
    BY <1>0, <1>2 DEF DeleteRules, MutexInv
  <2>1. CASE ApplyFailed /\ UNCHANGED chain
    BY <1>2, <2>1, ApplyFailedRules DEF DeleteRules
  <2>2. CASE chain' = Without("admin") /\ step' = "add" /\ UNCHANGED <<mem, old, op, mode, cutting, lost>>
    <3>1. /\ chain' \in Seq(Block) /\ DmzLast(chain') /\ (NoDmz(chain) => NoDmz(chain'))
          /\ \A p : ~Answers(chain', "admin", p)
      BY <2>2, RemoveEdit
    <3>2. \A p : p \notin LivePorts("admin")'
      BY <3>1, LiveAnswersNext
    <3>3. RulesInv'
      BY <2>0, <2>2, <3>2 DEF RulesInv
    <3> QED
      BY <3>1, <3>3
  <2> QED
    BY <1>2, <2>1, <2>2 DEF DeleteRules
<1>3. CASE AddRules
  <2>0. op = "forward" /\ LivePorts("admin") = {} /\ UNCHANGED disk
    BY <1>0, <1>3 DEF AddRules, MutexInv, RulesInv
  <2>1. CASE ApplyFailed /\ UNCHANGED chain
    BY <2>0, <2>1, ApplyFailedRules
  <2>2. CASE /\ Applied
             /\ chain' = IF Explicit(mem) = {} THEN chain
                         ELSE <<[owner |-> "admin", ports |-> Explicit(mem)]>> \o chain
    <3>1. CASE Explicit(mem) = {}
      <4>1. chain' = chain /\ LivePorts("admin")' = Explicit(mem)
        BY <2>0, <2>2, <3>1 DEF LivePorts
      <4> QED
        BY <2>0, <2>2, <4>1, AppliedRules
    <3>2. CASE Explicit(mem) # {}
      <4> DEFINE b == [owner |-> "admin", ports |-> Explicit(mem)]
      <4>1. /\ b \in Block /\ b.owner = "admin" /\ b.ports = Explicit(mem) /\ chain' = <<b>> \o chain
        BY <2>2, <3>2 DEF Block, Owners, Explicit
      <4> HIDE DEF b
      <4>2. b.owner # "dmz"
        BY <4>1
      <4>3. /\ chain' \in Seq(Block) /\ DmzLast(chain') /\ (NoDmz(chain) => NoDmz(chain'))
            /\ \A o, p : Answers(chain', o, p)
                         <=> (Answers(chain, o, p) \/ (o = b.owner /\ p \in b.ports))
        BY <4>1, <4>2, InsertEdit
      <4>4. ASSUME NEW p PROVE p \in LivePorts("admin")' <=> p \in Explicit(mem)
        BY <2>0, <4>1, <4>3, LiveAnswers, LiveAnswersNext
      <4>5. LivePorts("admin")' = Explicit(mem)
        BY <4>4
      <4> QED
        BY <2>0, <2>2, <4>3, <4>5, AppliedRules
    <3> QED
      BY <3>1, <3>2
  <2> QED
    BY <1>3, <2>1, <2>2 DEF AddRules
<1>4. CASE persistLocked
  <2>0. chain' = chain /\ LivePorts("admin")' = LivePorts("admin") /\ lost' = lost
    BY <1>4 DEF persistLocked, LivePorts
  <2>1. CASE Rollback /\ UNCHANGED disk
    BY <2>0, <2>1, RollbackRules
  <2>2. CASE disk' = mem /\ Unlock(mem)
    <3>1. mem' = mem /\ Explicit(disk)' = Explicit(mem) /\ op' = "policy" /\ step' = "free"
      BY <2>2 DEF Unlock, Explicit
    <3>2. mem.rules = disk.rules => Explicit(mem) = Explicit(disk)
      BY DEF Explicit
    <3>3. step = "persist" /\ op \in {"policy", "forward"}
      BY <1>0, <1>4 DEF persistLocked, AdminTypes
    <3>4. RulesInv'
      BY <2>0, <2>2, <3>1, <3>2, <3>3 DEF RulesInv
    <3> QED
      BY <2>0, <3>4
  <2> QED
    BY <1>4, <2>0, <2>1, <2>2 DEF persistLocked
<1> QED
  BY <1>1, <1>2, <1>3, <1>4 DEF Holder

(* The rest of the admin plane. *)
LEMMA AdminPlaneInv ==
    ASSUME ForwardingInv, AdminPlane PROVE ForwardingInv'
<1>0. /\ AdminInv /\ RulesInv /\ chain \in Seq(Block) /\ DmzLast(chain) /\ UNCHANGED extVars
  BY DEF ForwardingInv, ChainInv, AdminPlane
<1>1. AdminInv'
  BY <1>0, RequestInv, HolderInv, StartUpInv, CuttingInv DEF AdminPlane, StartUp
<1>2. CASE Request
  BY <1>0, <1>1, <1>2, RequestRules, AdminStep
<1>3. CASE Holder
  BY <1>0, <1>1, <1>3, HolderRules, AdminStep
<1>4. CASE StartPolicy \/ RetryPolicy \/ StartForward \/ Cutting
  <2>1. /\ UNCHANGED <<mem, disk, chain, lost>>
        /\ \/ UNCHANGED <<op, step>>
           \/ step = "free" /\ step' \in {"apply", "delete"} /\ op' \in {"policy", "forward"}
    BY <1>4 DEF StartPolicy, RetryPolicy, StartForward, Restore, Cutting, CutPeer,
                applyRevocations, SweepPeer
  <2>2. LivePorts("admin")' = LivePorts("admin") /\ Explicit(disk)' = Explicit(disk)
        /\ Explicit(mem)' = Explicit(mem)
    BY <2>1 DEF LivePorts, Explicit
  <2>3. RulesInv'
    BY <1>0, <2>1, <2>2 DEF RulesInv
  <2> QED
    BY <1>0, <1>1, <2>1, <2>3, AdminStep
<1> QED
  BY <1>2, <1>3, <1>4 DEF AdminPlane

(* The NAT table is made, and restarts. *)
LEMMA OutsideInv ==
    ASSUME ForwardingInv, EnsureBase \/ AgentRestart PROVE ForwardingInv'
<1>0. AdminInv /\ RulesInv /\ ExtTypes /\ ChainInv /\ ("durable" \notin dmzLost => ext = extDisk)
  BY DEF ForwardingInv
<1>1. AdminInv'
  BY <1>0, StartUpInv, FailuresInv DEF EnsureBase, AgentRestart, StartUp, Failures
<1>2. CASE EnsureBase
  <2>1. /\ chain' = <<>> /\ UNCHANGED <<mem, disk, step, op, ext, extDisk, dmz, rq>>
        /\ "forward" \in lost' /\ dmzLost' = dmzLost \cup {"live"}
    BY <1>2 DEF EnsureBase, ensureBaseRules
  <2>2. LivePorts("admin")' = {}
    BY <2>1 DEF LivePorts
  <2>3. RulesInv'
    BY <1>0, <2>1, <2>2 DEF RulesInv
  <2>4. ExtTypes' /\ ("durable" \notin dmzLost' => ext' = extDisk')
    BY <1>0, <2>1 DEF ExtTypes
  <2>5. ChainInv'
    BY <1>0, <2>1 DEF ChainInv, DmzLast, NoDmz
  <2> QED
    BY <1>1, <2>3, <2>4, <2>5 DEF ForwardingInv
<1>3. CASE /\ Restart \/ Reboot
           /\ ext' = extDisk /\ dmz' = Idle /\ rq' = NoRequest /\ dmzLost' = {"live"}
           /\ UNCHANGED extDisk
  <2>1. /\ chain' = <<>> \/ chain' = chain
        /\ mem' = disk /\ disk' = disk /\ step' = "free" /\ op' = "policy" /\ "forward" \in lost'
    BY <1>3 DEF Restart, Reboot, RestartWith
  <2>2. RulesInv'
    BY <2>1 DEF RulesInv
  <2>3. [dmz |-> "off", owners |-> {}] \in ExtState
    BY DEF ExtState, Switch
  <2>4. ExtTypes'
    BY <1>0, <1>3, <2>3 DEF ExtTypes, Idle, NoRequest
  <2>5. chain' \in Seq(Block) /\ DmzLast(chain')
    <3>1. CASE chain' = <<>>
      BY <3>1 DEF DmzLast
    <3>2. CASE chain' = chain
      BY <1>0, <3>2 DEF ChainInv
    <3> QED
      BY <2>1, <3>1, <3>2
  <2>6. ChainInv'
    BY <1>3, <2>5 DEF ChainInv, Idle
  <2> QED
    BY <1>1, <1>3, <2>2, <2>4, <2>6 DEF ForwardingInv
<1>4. CASE PeersReturn /\ UNCHANGED extVars
  <2>1. UNCHANGED <<mem, disk, chain, lost, op, step>>
    BY <1>4 DEF PeersReturn
  <2>2. RulesInv'
    BY <1>0, <2>1 DEF RulesInv, LivePorts, Explicit
  <2> QED
    BY <1>0, <1>1, <1>4, <2>1, <2>2, AdminStep DEF ChainInv
<1> QED
  BY <1>2, <1>3, <1>4 DEF AgentRestart

(* Every step of the two planes preserves the invariant. *)
LEMMA ForwardingNextInv ==
    ForwardingInv /\ [Next]_vars => ForwardingInv'
<1> SUFFICES ASSUME ForwardingInv, [Next]_vars PROVE ForwardingInv'
  OBVIOUS
<1>1. CASE UNCHANGED vars
  <2>1. AdminInv'
    BY <1>1, AdminNextInv DEF vars, ForwardingInv
  <2>2. RulesInv' /\ ExtTypes' /\ ChainInv'
    BY <1>1 DEF vars, adminVars, extVars, ForwardingInv, RulesInv, LivePorts, Explicit, ExtTypes, ChainInv
  <2> QED
    BY <1>1, <2>1, <2>2 DEF vars, extVars, ForwardingInv
<1>2. CASE Reassert
  <2>1. "on" \in Switch
    BY DEF Switch
  <2> QED
    BY <1>2, <2>1, DmzRequestInv
<1> QED
  BY <1>1, <1>2, AdminPlaneInv, OutsideInv, DmzRequestInv, RollbackDmzInv, ReadAdminInv, RemoveDmzInv,
     AddDmzInv, ReadRulesInv, CommitInv, PeerForwardInv
  DEF Next, DmzStep

-----------------------------------------------------------------------------
(* The inductive invariant holds in every reachable state of the two planes. *)
THEOREM ForwardingInvariant ==
    Spec => []ForwardingInv
BY ForwardingInitInv, ForwardingNextInv, PTL DEF Spec

(* Whatever the two planes, the peers and the loop do to the NAT chain meanwhile,
   an explicit rule or a peer's rule is never shadowed by the DMZ
   (prioritizeExplicitForwarding, peerForwardScript, protectedDMZScript). *)
THEOREM ExplicitTheorem ==
    Spec => []ExplicitWins
<1>1. ForwardingInv => ExplicitWins
  BY DEF ForwardingInv, ChainInv, DmzLast, ExplicitWins
<1> QED
  BY <1>1, ForwardingInvariant, PTL

(* A DMZ that is off has no live rule once its operation is over, unless a restore
   that failed was reported (rollbackProtectedDMZLocked, applyProtectedDMZLocked). *)
THEOREM DmzOffTheorem ==
    Spec => []DmzOffMeansOff
<1>1. NoDmz(chain) => LivePorts("dmz") = {}
  BY DEF NoDmz, LivePorts
<1>2. ForwardingInv => DmzOffMeansOff
  BY <1>1 DEF ForwardingInv, ChainInv, DmzOffMeansOff
<1> QED
  BY <1>2, ForwardingInvariant, PTL

(* The live explicit forwards are those of the file between two operations, unless
   a failed restore was reported, although the other plane and the peers edit the
   same chain (applyForwardRulesLocked). *)
THEOREM ForwardsTheorem ==
    Spec => []ForwardsAreEnforced
<1>1. ForwardingInv => ForwardsAreEnforced
  BY DEF ForwardingInv, RulesInv, ForwardsAreEnforced
<1> QED
  BY <1>1, ForwardingInvariant, PTL

(* The extension plane's memory is its file, unless a rollback that could not be
   written was reported: the handlers under two locks share the file (persistLocked
   of admin_forwarding_extension.go). *)
THEOREM DurableTheorem ==
    Spec => []ExtIsDurable
<1>1. ForwardingInv => ExtIsDurable
  BY DEF ForwardingInv, ExtIsDurable
<1> QED
  BY <1>1, ForwardingInvariant, PTL

(* What the admin plane promises about bans and revocations it keeps next to the
   extension plane as well (applyPolicyLocked, persistLocked, rollbackLocked). *)
THEOREM ComposedPolicyTheorem ==
    Spec => [](PolicyIsEnforced /\ RevokedStaysBlocked)
<1>1. ForwardingInv => PolicyIsEnforced /\ RevokedStaysBlocked
  BY DEF ForwardingInv, AdminInv, MutexInv, TableInv, PolicyIsEnforced
<1> QED
  BY <1>1, ForwardingInvariant, PTL
===============================================================================
