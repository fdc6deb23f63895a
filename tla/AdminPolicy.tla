------------------------------ MODULE AdminPolicy ------------------------------
(***************************************************************************)
(* The router agent's persistent admin plane (admin_mutations.go): settings, *)
(* bans, revocations and explicit port forwarding.  The same facts live in *)
(* RAM, in the state file, in the nftables admin table (one transaction),  *)
(* in the NAT chain (two transactions), and in the WireGuard peer list.    *)
(*                                                                         *)
(* Every handler holds mu for its whole body, so one operation runs at a   *)
(* time; a step is one command or write it makes.  Outside mu are the cut  *)
(* of a revoked peer and the sweep that repeats it.  Addresses, protocols, *)
(* ranges, time stamps and HTTP answers are left out; a rule is the port   *)
(* it forwards.                                                            *)
(***************************************************************************)
EXTENDS Integers, Sequences, FiniteSets

CONSTANTS
    Peers,       \* public keys of WireGuard peers
    Ids,         \* identifiers of forwarding rules
    Ports,       \* WAN ports
    Reserved,    \* ReservedPorts
    MaxFaults,   \* bound: nft, wg and file operations that fail
    MaxRestarts  \* bound: restarts of the agent, of the host and of the peers' service

ASSUME AdminAssumption ==
    /\ Reserved \subseteq Ports /\ MaxFaults \in Nat /\ MaxRestarts \in Nat
    /\ Ports \cap {"none", "disabled"} = {}

VARIABLES
    mem, disk,  \* a.state and the state file
    old,        \* the clone a handler rolls back to
    policy,     \* the live table router_vpn_admin
    chain,      \* the live NAT chain: blocks of rules, first match wins
    base,       \* the NAT table: "absent", "stale" (of the previous process), "made"
    step, op, mode,  \* the operation that holds mu
    phase,      \* how far startAdminMutationPlane and its goroutine are
    lost,       \* history: live tables a failed restore was reported for, and
                \* "table" until the admin table is first made after a host start
    peers,      \* live WireGuard peers
    cutting,    \* revoke handlers between Unlock and removeLivePeer
    sweep,      \* what applyRevocations still has to remove
    faults, restarts

adminVars == <<mem, disk, old, policy, chain, base, step, op, mode, phase, lost,
               peers, cutting, sweep, faults, restarts>>

Switch == {"on", "off"}
State  == [master : Switch, lan : Switch, banned : SUBSET Peers, revoked : SUBSET Peers,
           rules : [Ids -> Ports \cup {"none", "disabled"}]]
Table  == [master : Switch, lan : Switch, banned : SUBSET Peers]
Owners == {"admin", "dmz", "peer"}
Block  == [owner : Owners, ports : SUBSET Ports]

(* defaultAdminState *)
defaultAdminState == [master |-> "on", lan |-> "on", banned |-> {}, revoked |-> {},
                      rules |-> [i \in Ids |-> "none"]]

(* The table that applyPolicyLocked renders, and an empty one. *)
PolicyOf(s) == [master |-> s.master, lan |-> s.lan, banned |-> s.banned]
Open        == [master |-> "on", lan |-> "on", banned |-> {}]

(* The ports of the enabled explicit rules. *)
Explicit(s) == {s.rules[i] : i \in Ids} \cap Ports

(* The chain without the blocks of an owner: the n-th block that is kept is the
   one with n kept ones up to it. *)
Kept(owner)    == {k \in DOMAIN chain : chain[k].owner # owner}
Rank(owner, k) == Cardinality({j \in Kept(owner) : j <= k})
Without(owner) ==
    [n \in 1 .. Cardinality(Kept(owner)) |-> chain[CHOOSE k \in Kept(owner) : Rank(owner, k) = n]]

LivePorts(owner) == UNION {chain[k].ports : k \in {n \in DOMAIN chain : chain[n].owner = owner}}

Fault   == faults > 0 /\ faults' = faults - 1
NoFault == UNCHANGED faults

-----------------------------------------------------------------------------
(* Every handler begins alike: mu is free, the request changes a.state, and
   the old state is kept for the rollback. *)
Begin(s, what) ==
    /\ phase # "boot" /\ step = "free"
    /\ mem' = s /\ old' = mem
    /\ op' = what /\ mode' = "do"
    /\ step' = IF what = "policy" THEN "apply" ELSE "delete"
    /\ UNCHANGED <<disk, policy, chain, base, phase, lost, peers, cutting, sweep, faults, restarts>>

settings(m, l) == Begin([mem EXCEPT !.master = m, !.lan = l], "policy")

ban(p) == p \notin mem.revoked /\ Begin([mem EXCEPT !.banned = @ \cup {p}], "policy")

unban(p) == p \notin mem.revoked /\ Begin([mem EXCEPT !.banned = @ \ {p}], "policy")

revoke(p) ==
    /\ phase # "boot" /\ step = "free"
    /\ mem' = [mem EXCEPT !.revoked = @ \cup {p}, !.banned = @ \cup {p}]
    /\ old' = mem /\ op' = "policy" /\ mode' = "do" /\ step' = "apply"
    /\ cutting' = cutting \cup {[peer |-> p, at |-> "locked"]}
    /\ UNCHANGED <<disk, policy, chain, base, phase, lost, peers, sweep, faults, restarts>>

(* POST /forwarding creates or replaces a rule, enabled on a port or disabled;
   validateAdminForward refuses a reserved port. *)
forwarding(i, port) == port \notin Reserved /\ Begin([mem EXCEPT !.rules[i] = port], "forward")

forwardingByID(i) ==
    mem.rules[i] # "none" /\ Begin([mem EXCEPT !.rules[i] = "none"], "forward")

-----------------------------------------------------------------------------
(* mu is released, and the handler's local variables are gone. *)
Unlock(s) ==
    mem' = s /\ old' = s /\ step' = "free" /\ op' = "policy" /\ mode' = "restore"

(* The live application is over.  A handler goes on to persist, or rolls back;
   a rollback or a start-up restore that fails is only reported. *)
Applied ==
    /\ lost' = lost \ (IF op = "policy" THEN {"policy", "table"} ELSE {"forward"})
    /\ IF mode = "do" THEN step' = "persist" /\ UNCHANGED <<mem, old, op, mode>>
       ELSE Unlock(mem)
    /\ UNCHANGED cutting

(* A revoke handler that fails never reaches removeLivePeer. *)
Settled(at) ==
    cutting' = IF at = "fail" THEN {c \in cutting : c.at = "unlocked"}
               ELSE {[c EXCEPT !.at = "unlocked"] : c \in cutting}

Rollback ==
    /\ mem' = old /\ mode' = "undo"
    /\ step' = IF op = "policy" THEN "apply" ELSE "delete"
    /\ UNCHANGED <<old, op>>
    /\ Settled("fail")

ApplyFailed ==
    IF mode = "do" THEN Rollback /\ UNCHANGED lost
    ELSE Unlock(mem) /\ lost' = lost \cup {op} /\ UNCHANGED cutting

(* Mutant: the table is deleted in a transaction of its own. *)
MutApplyPolicyTwice ==
    /\ step = "apply"
    /\ \/ NoFault /\ policy' = PolicyOf(mem) /\ Applied
       \/ Fault /\ policy' = Open /\ ApplyFailed
    /\ UNCHANGED <<disk, chain, base, phase, peers, sweep, restarts>>

(* applyPolicyLocked: one transaction replaces the whole table. *)
applyPolicyLocked ==
    /\ step = "apply"
    /\ \/ NoFault /\ policy' = PolicyOf(mem) /\ Applied
       \/ Fault /\ ApplyFailed /\ UNCHANGED policy
    /\ UNCHANGED <<disk, chain, base, phase, peers, sweep, restarts>>

(* applyForwardRulesLocked, first half: list the chain, delete the tagged
   rules.  Listing fails as long as there is no table. *)
DeleteRules ==
    /\ step = "delete"
    /\ \/ /\ base # "absent" /\ NoFault
          /\ chain' = Without("admin") /\ step' = "add"
          /\ UNCHANGED <<mem, old, op, mode, cutting, lost>>
       \/ /\ IF base = "absent" THEN NoFault ELSE Fault
          /\ ApplyFailed /\ UNCHANGED chain
    /\ UNCHANGED <<disk, policy, base, phase, peers, sweep, restarts>>

(* Mutant: the rules are appended, as the script says, and not inserted. *)
MutAddAtTail ==
    /\ step = "add"
    /\ \/ /\ NoFault /\ Applied
          /\ chain' = IF Explicit(mem) = {} THEN chain
                      ELSE Append(chain, [owner |-> "admin", ports |-> Explicit(mem)])
       \/ Fault /\ Explicit(mem) # {} /\ ApplyFailed /\ UNCHANGED chain
    /\ UNCHANGED <<disk, policy, base, phase, peers, sweep, restarts>>

(* Second half: nftScript's prioritizeExplicitForwarding turns "add" into
   "insert", so the enabled rules go to the head of the chain. *)
AddRules ==
    /\ step = "add"
    /\ \/ /\ NoFault /\ Applied
          /\ chain' = IF Explicit(mem) = {} THEN chain
                      ELSE <<[owner |-> "admin", ports |-> Explicit(mem)]>> \o chain
       \/ Fault /\ Explicit(mem) # {} /\ ApplyFailed /\ UNCHANGED chain
    /\ UNCHANGED <<disk, policy, base, phase, peers, sweep, restarts>>

(* Mutant: a write that fails leaves the tables as they are. *)
MutPersistNoRollback ==
    /\ step = "persist"
    /\ \/ NoFault /\ disk' = mem /\ Unlock(mem) /\ Settled("ok")
       \/ Fault /\ Unlock(old) /\ Settled("fail") /\ UNCHANGED disk
    /\ UNCHANGED <<policy, chain, base, phase, lost, peers, sweep, restarts>>

(* persistLocked: the rename is the commit point. *)
persistLocked ==
    /\ step = "persist"
    /\ \/ NoFault /\ disk' = mem /\ Unlock(mem) /\ Settled("ok")
       \/ Fault /\ Rollback /\ UNCHANGED disk
    /\ UNCHANGED <<policy, chain, base, phase, lost, peers, sweep, restarts>>

-----------------------------------------------------------------------------
(* removeLivePeer at the end of revoke, after Unlock; it may fail. *)
CutPeer ==
    \E c \in cutting :
        /\ c.at = "unlocked" /\ cutting' = cutting \ {c}
        /\ \/ NoFault /\ peers' = peers \ {c.peer}
           \/ Fault /\ UNCHANGED peers
        /\ UNCHANGED <<mem, disk, old, policy, chain, base, step, op, mode, phase, lost, sweep, restarts>>

(* Mutant: the sweep copies the list without taking the lock. *)
MutSweepUnlocked ==
    /\ phase = "up" /\ sweep = {} /\ mem.revoked # {}
    /\ sweep' = mem.revoked
    /\ UNCHANGED <<mem, disk, old, policy, chain, base, step, op, mode, phase, lost, peers,
                   cutting, faults, restarts>>

(* Mutant: revocations are asserted when the plane starts, and not again. *)
MutSweepOnce ==
    /\ phase = "forwards" /\ sweep = {} /\ step = "free" /\ mem.revoked # {}
    /\ sweep' = mem.revoked
    /\ UNCHANGED <<mem, disk, old, policy, chain, base, step, op, mode, phase, lost, peers,
                   cutting, faults, restarts>>

(* applyRevocations: copy the list under mu, then remove one peer after the
   other without it. *)
applyRevocations ==
    /\ phase = "up" /\ sweep = {} /\ step = "free" /\ mem.revoked # {}
    /\ sweep' = mem.revoked
    /\ UNCHANGED <<mem, disk, old, policy, chain, base, step, op, mode, phase, lost, peers,
                   cutting, faults, restarts>>

SweepPeer ==
    \E p \in sweep :
        /\ sweep' = sweep \ {p}
        /\ \/ NoFault /\ peers' = peers \ {p}
           \/ Fault /\ UNCHANGED peers
        /\ UNCHANGED <<mem, disk, old, policy, chain, base, step, op, mode, phase, lost, cutting,
                       restarts>>

-----------------------------------------------------------------------------
(* main(): the NAT table is deleted and made again. *)
ensureBaseRules ==
    /\ base # "made"
    /\ base' = "made" /\ chain' = <<>> /\ lost' = lost \cup {"forward"}
    /\ UNCHANGED <<mem, disk, old, policy, step, op, mode, phase, peers, cutting, sweep, faults,
                   restarts>>

(* startAdminMutationPlane applies the policy before it serves, and again two
   seconds later, followed by the forwards; by then main() has made the table. *)
Restore(from, what, next) ==
    /\ phase = from /\ step = "free"
    /\ phase' = next /\ op' = what /\ mode' = "restore"
    /\ step' = IF what = "policy" THEN "apply" ELSE "delete"
    /\ UNCHANGED <<mem, disk, old, policy, chain, base, lost, peers, cutting, sweep, faults, restarts>>

StartPolicy  == Restore("boot", "policy", "retry")
RetryPolicy  == base = "made" /\ Restore("retry", "policy", "forwards")
StartForward == Restore("forwards", "forward", "up")

(* Mutant: a state file that cannot be read is taken for a missing one. *)
MutRestartFromDefaults(table, natTable, unmade) ==
    /\ restarts > 0 /\ restarts' = restarts - 1
    /\ mem' = defaultAdminState /\ old' = mem' /\ disk' = mem'
    /\ policy' = table /\ base' = natTable /\ chain' = IF natTable = "absent" THEN <<>> ELSE chain
    /\ step' = "free" /\ op' = "policy" /\ mode' = "restore" /\ phase' = "boot"
    /\ lost' = {"policy", "forward"} \cup unmade /\ cutting' = {} /\ sweep' = {}
    /\ UNCHANGED faults

(* The process ends anywhere and starts again from the file.  The kernel's
   tables outlive it, unless the host went down too. *)
RestartWith(table, natTable, unmade) ==
    /\ restarts > 0 /\ restarts' = restarts - 1
    /\ mem' = disk /\ old' = disk
    /\ policy' = table /\ base' = natTable /\ chain' = IF natTable = "absent" THEN <<>> ELSE chain
    /\ step' = "free" /\ op' = "policy" /\ mode' = "restore" /\ phase' = "boot"
    /\ lost' = {"policy", "forward"} \cup unmade /\ cutting' = {} /\ sweep' = {}
    /\ UNCHANGED <<disk, faults>>

Restart == RestartWith(policy, IF base = "absent" THEN "absent" ELSE "stale", lost \cap {"table"}) /\ UNCHANGED peers
Reboot  == RestartWith(Open, "absent", {"table"}) /\ peers' = Peers

(* A restart of the WireGuard service brings every configured peer back. *)
PeersReturn ==
    /\ restarts > 0 /\ restarts' = restarts - 1 /\ peers' = Peers
    /\ UNCHANGED <<mem, disk, old, policy, chain, base, step, op, mode, phase, lost, cutting, sweep,
                   faults>>

-----------------------------------------------------------------------------
AdminInit ==
    /\ mem = defaultAdminState /\ disk = mem /\ old = mem
    /\ policy = Open /\ chain = <<>> /\ base = "absent"
    /\ step = "free" /\ op = "policy" /\ mode = "restore" /\ phase = "boot"
    /\ lost = {"policy", "forward", "table"} /\ peers = Peers /\ cutting = {} /\ sweep = {}
    /\ faults = MaxFaults /\ restarts = MaxRestarts

Request ==
    \/ \E m, l \in Switch : settings(m, l)
    \/ \E p \in Peers : ban(p) \/ unban(p) \/ revoke(p)
    \/ \E i \in Ids : forwardingByID(i) \/ \E port \in Ports \cup {"disabled"} : forwarding(i, port)

Holder   == applyPolicyLocked \/ DeleteRules \/ AddRules \/ persistLocked
StartUp  == ensureBaseRules \/ StartPolicy \/ RetryPolicy \/ StartForward
Cutting  == CutPeer \/ applyRevocations \/ SweepPeer
Failures == Restart \/ Reboot \/ PeersReturn

AdminNext == Request \/ Holder \/ StartUp \/ Cutting \/ Failures

AdminSpec == AdminInit /\ [][AdminNext]_adminVars

(* The loop sweeps every 15 s.  mu is held by one handler after the other, so
   it gets the lock only under strong fairness (sync.Mutex is starvation-free). *)
AdminFairSpec ==
    /\ AdminSpec
    /\ WF_adminVars(Holder) /\ WF_adminVars(StartUp) /\ WF_adminVars(CutPeer) /\ WF_adminVars(SweepPeer)
    /\ SF_adminVars(StartPolicy) /\ SF_adminVars(RetryPolicy) /\ SF_adminVars(StartForward)
    /\ SF_adminVars(applyRevocations)

-----------------------------------------------------------------------------
(* The state is well formed, and only a handler that holds the lock or has
   released it after its commit has a peer to cut. *)
AdminTypeOK ==
    /\ mem \in State /\ disk \in State /\ old \in State /\ policy \in Table
    /\ chain \in Seq(Block) /\ base \in {"absent", "stale", "made"}
    /\ step \in {"free", "apply", "delete", "add", "persist"}
    /\ op \in {"policy", "forward"} /\ mode \in {"do", "undo", "restore"}
    /\ phase \in {"boot", "retry", "forwards", "up"}
    /\ lost \subseteq {"policy", "forward", "table"} /\ peers \subseteq Peers
    /\ cutting \subseteq [peer : Peers, at : {"locked", "unlocked"}] /\ sweep \subseteq Peers
    /\ faults \in Nat /\ restarts \in Nat
    /\ (\E c \in cutting : c.at = "locked") => step # "free" /\ mode = "do"

(* Between two operations RAM is what the file says, and so is the live table,
   unless a failed restore was reported.  (settings, ban, unban, revoke and
   rollbackLocked: a failure at any step leaves the state before the request.) *)
PolicyIsEnforced ==
    step = "free" => mem = disk /\ ("policy" \in lost \/ policy = PolicyOf(disk))

(* The same of the explicit forwards, although they are replaced in two
   transactions (applyForwardRulesLocked). *)
ForwardsAreEnforced ==
    step = "free" /\ "forward" \notin lost => LivePorts("admin") = Explicit(disk)

(* A revoked peer is blocked at every moment, in the middle of operations and
   after failures, reported or not, once a policy was applied after the host
   started.  (The comment at applyPolicyLocked: a failed admission must not
   remove the bans.) *)
RevokedStaysBlocked == disk.revoked \subseteq policy.banned \/ "table" \in lost

(* No operation, rollback, crash or restart takes a revocation back. *)
RevocationIsFinal == [][disk.revoked \subseteq disk'.revoked]_adminVars

(* Only a peer whose revocation is in the file is ever cut, although the cut
   happens outside the lock (revoke after Unlock, applyRevocations). *)
OnlyRevokedIsCut == [][peers \ peers' \subseteq disk.revoked]_adminVars

(* A peer whose revocation is in the file does not stay: the loop removes it
   again whenever the WireGuard service brings it back. *)
RevokedPeerGoesAway == \A p \in Peers : p \in disk.revoked ~> p \notin peers
=============================================================================
