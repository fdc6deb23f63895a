---------------------------- MODULE AdminForwarding ----------------------------
(***************************************************************************)
(* The forwarding extension plane (admin_forwarding_extension.go) next to  *)
(* the admin plane: Protected DMZ, which forwards every port that nothing  *)
(* else uses, and the owners of the explicit rules.  The two planes share  *)
(* no lock.  They meet in the admin plane's state FILE, which this one     *)
(* reads, and in the NAT chain, which both edit; peers add rules of their  *)
(* own to the chain (main.go, forward and clear).                          *)
(*                                                                         *)
(* The DMZ's target, owner and protocol are left out: it is on or off.     *)
(***************************************************************************)
EXTENDS AdminPolicy

VARIABLES
    ext, extDisk, \* s.state and its file: the DMZ and the set of rules that have an owner
    dmz,          \* the operation that holds dmzMu: its step, mode, rollback state, and
                  \* the admin state it read
    rq,           \* a status or owner request between its read of the file and s.mu
    dmzLost       \* history: what a failed rollback or restore of the DMZ was reported for

extVars == <<ext, extDisk, dmz, rq, dmzLost>>
vars    == <<adminVars, extVars>>

ExtState  == [dmz : Switch, owners : SUBSET Ids]
Idle      == [step |-> "free", mode |-> "restore", old |-> [dmz |-> "off", owners |-> {}],
              explicit |-> {}]
NoRequest == [kind |-> "none", id |-> "none", seen |-> {}]

HasRule(s, i) == s.rules[i] # "none"

(* Mutant: only reserved ports are left out of the DMZ. *)
MutAllowedAll(explicit) == Ports \ Reserved

(* protectedDMZAllowedRanges *)
protectedDMZAllowedRanges(explicit) == Ports \ (Reserved \cup explicit)

-----------------------------------------------------------------------------
(* persistLocked of this plane: it writes the whole state, the DMZ's and the
   owners'. *)
Persist(new) == ext' = new /\ extDisk' = new /\ dmzLost' = dmzLost \ {"durable"}

(* dmz, POST and DELETE: under dmzMu, the intent is persisted first, and the
   live rules follow. *)
Dmz(to) ==
    /\ dmz.step = "free"
    /\ \/ /\ NoFault /\ Persist([ext EXCEPT !.dmz = to])
          /\ dmz' = [Idle EXCEPT !.step = "remove", !.mode = "do", !.old = ext]
       \/ Fault /\ UNCHANGED <<ext, extDisk, dmz, dmzLost>>
    /\ UNCHANGED <<rq, mem, disk, old, policy, chain, base, step, op, mode, phase, lost, peers,
                   cutting, sweep, restarts>>

(* Mutant: the rules are restored after the start, and not looked at again. *)
MutReassertOnce ==
    /\ dmz.step = "free" /\ "live" \in dmzLost
    /\ dmz' = [Idle EXCEPT !.step = "remove"]
    /\ UNCHANGED <<ext, extDisk, rq, dmzLost, adminVars>>

(* The loop of the plane's goroutine: once after the start, then every 15 s. *)
Reassert ==
    /\ dmz.step = "free"
    /\ dmz' = [Idle EXCEPT !.step = "remove"]
    /\ UNCHANGED <<ext, extDisk, rq, dmzLost, adminVars>>

(* Mutant: a failure after the intent was saved is answered, and nothing undone. *)
MutDmzFailedStays == dmz' = Idle /\ UNCHANGED dmzLost

(* applyProtectedDMZLocked returned: a request that failed is rolled back, a
   rollback or a round of the loop that failed is only reported. *)
DmzDone   == dmz' = Idle /\ dmzLost' = dmzLost \ {"live"}
DmzFailed ==
    IF dmz.mode = "do" THEN dmz' = [dmz EXCEPT !.step = "rollback"] /\ UNCHANGED dmzLost
    ELSE dmz' = Idle /\ dmzLost' = dmzLost \cup {"live"}

(* rollbackProtectedDMZLocked: the durable intent first.  Its own write may fail
   as well; the live restore is tried in any case. *)
rollbackProtectedDMZLocked ==
    /\ dmz.step = "rollback"
    /\ dmz' = [dmz EXCEPT !.step = "remove", !.mode = "undo"]
    /\ \/ NoFault /\ Persist(dmz.old)
       \/ Fault /\ ext' = dmz.old /\ dmzLost' = dmzLost \cup {"durable"} /\ UNCHANGED extDisk
    /\ UNCHANGED <<rq, mem, disk, old, policy, chain, base, step, op, mode, phase, lost, peers,
                   cutting, sweep, restarts>>

(* applyProtectedDMZLocked: remove the tagged rules; without a table there is
   nothing to remove. *)
removeProtectedDMZRules ==
    /\ dmz.step = "remove"
    /\ \/ /\ NoFault /\ chain' = Without("dmz")
          /\ IF ext.dmz = "off" THEN DmzDone
             ELSE dmz' = [dmz EXCEPT !.step = "read"] /\ UNCHANGED dmzLost
       \/ Fault /\ DmzFailed /\ UNCHANGED chain
    /\ UNCHANGED <<ext, extDisk, rq, mem, disk, old, policy, base, step, op, mode, phase, lost,
                   peers, cutting, sweep, restarts>>

(* readAdminState: the file, not the other plane's memory.  It may fail; with the
   master off there is nothing to add. *)
ReadAdmin ==
    /\ dmz.step = "read"
    /\ \/ /\ disk.master = "on" /\ NoFault /\ UNCHANGED dmzLost
          /\ dmz' = [dmz EXCEPT !.step = "add", !.explicit = Explicit(disk)]
       \/ disk.master = "off" /\ NoFault /\ DmzDone
       \/ Fault /\ DmzFailed
    /\ UNCHANGED <<ext, extDisk, rq, mem, disk, old, policy, chain, base, step, op, mode, phase,
                   lost, peers, cutting, sweep, restarts>>

(* protectedDMZScript: the ranges are appended at the end of the chain. *)
AddDmz ==
    /\ dmz.step = "add"
    /\ \/ /\ base # "absent" /\ NoFault /\ DmzDone
          /\ chain' = Append(chain, [owner |-> "dmz",
                                     ports |-> protectedDMZAllowedRanges(dmz.explicit)])
       \/ /\ IF base = "absent" THEN NoFault ELSE Fault
          /\ DmzFailed /\ UNCHANGED chain
    /\ UNCHANGED <<ext, extDisk, rq, mem, disk, old, policy, base, step, op, mode, phase, lost,
                   peers, cutting, sweep, restarts>>

-----------------------------------------------------------------------------
(* status and owner read the admin file first and lock afterwards. *)
ReadRules(kind, i) ==
    /\ rq = NoRequest
    /\ kind # "status" => HasRule(disk, i)
    /\ rq' = [kind |-> kind, id |-> i, seen |-> {j \in Ids : HasRule(disk, j)}]
    /\ UNCHANGED <<ext, extDisk, dmz, dmzLost, adminVars>>

(* One section under s.mu: change, persist, and take back what cannot be
   persisted.  status drops the owners of rules it did not see. *)
Commit ==
    /\ rq # NoRequest /\ rq' = NoRequest
    /\ LET owners == CASE rq.kind = "status" -> ext.owners \cap rq.seen
                       [] rq.kind = "put"    -> ext.owners \cup {rq.id}
                       [] rq.kind = "delete" -> ext.owners \ {rq.id}
       IN  IF rq.kind = "status" /\ owners = ext.owners
           THEN UNCHANGED <<ext, extDisk, dmzLost, faults>>
           ELSE \/ NoFault /\ Persist([ext EXCEPT !.owners = owners])
                \/ Fault /\ UNCHANGED <<ext, extDisk, dmzLost>>
    /\ UNCHANGED <<dmz, mem, disk, old, policy, chain, base, step, op, mode, phase, lost,
                   peers, cutting, sweep, restarts>>

(* A peer's own forward is inserted at the head; clear removes them. *)
forward(port) ==
    /\ base = "made" /\ port \notin Reserved
    /\ \A k \in DOMAIN chain : chain[k].owner # "peer"   \* bound: one at a time
    /\ chain' = <<[owner |-> "peer", ports |-> {port}]>> \o chain
    /\ UNCHANGED <<extVars, mem, disk, old, policy, base, step, op, mode, phase, lost, peers,
                   cutting, sweep, faults, restarts>>

clearPeerForwarding ==
    /\ base = "made" /\ LivePorts("peer") # {}
    /\ chain' = Without("peer")
    /\ UNCHANGED <<extVars, mem, disk, old, policy, base, step, op, mode, phase, lost, peers,
                   cutting, sweep, faults, restarts>>
-----------------------------------------------------------------------------
(* The two planes side by side.  A restart ends both. *)
Init ==
    /\ AdminInit
    /\ ext = [dmz |-> "off", owners |-> {}] /\ extDisk = ext
    /\ dmz = Idle /\ rq = NoRequest /\ dmzLost = {"live"}

AdminPlane ==
    /\ Request \/ Holder \/ StartPolicy \/ RetryPolicy \/ StartForward \/ Cutting
    /\ UNCHANGED extVars

EnsureBase ==
    ensureBaseRules /\ dmzLost' = dmzLost \cup {"live"} /\ UNCHANGED <<ext, extDisk, dmz, rq>>

AgentRestart ==
    \/ /\ Restart \/ Reboot
       /\ ext' = extDisk /\ dmz' = Idle /\ rq' = NoRequest /\ dmzLost' = {"live"}
       /\ UNCHANGED extDisk
    \/ PeersReturn /\ UNCHANGED extVars

DmzStep == removeProtectedDMZRules \/ ReadAdmin \/ AddDmz \/ rollbackProtectedDMZLocked

Next ==
    \/ AdminPlane \/ EnsureBase \/ AgentRestart
    \/ \E to \in Switch : Dmz(to)
    \/ Reassert \/ DmzStep
    \/ ReadRules("status", "none")
    \/ \E i \in Ids : ReadRules("put", i) \/ ReadRules("delete", i)
    \/ Commit
    \/ \E port \in Ports : forward(port)
    \/ clearPeerForwarding

Spec == Init /\ [][Next]_vars

(* Every goroutine runs, the loop's ticker fires again and again, and dmzMu and
   mu are starvation-free. *)
FairSpec ==
    /\ Spec
    /\ WF_vars(Holder /\ UNCHANGED extVars) /\ WF_vars(EnsureBase)
    /\ SF_vars(AdminPlane /\ phase' # phase)
    /\ WF_vars(DmzStep) /\ SF_vars(Reassert)

-----------------------------------------------------------------------------
(* The extension plane's state is well formed: an operation that has begun to
   undo itself has the intent from before it in memory. *)
TypeOK ==
    /\ AdminTypeOK
    /\ ext \in ExtState /\ extDisk \in ExtState /\ dmzLost \subseteq {"live", "durable"}
    /\ dmz \in [step : {"free", "remove", "read", "add", "rollback"}, mode : {"do", "undo", "restore"},
                old : ExtState, explicit : SUBSET Ports]
    /\ rq = NoRequest \/ rq \in [kind : {"status", "put", "delete"}, id : Ids \cup {"none"},
                                 seen : SUBSET Ids]
    /\ dmz.mode = "undo" => ext.dmz = dmz.old.dmz

(* Whatever the two planes, the peers and the loop do to the chain meanwhile, a
   port that an explicit rule or a peer's rule forwards is never answered by the
   DMZ (the comments at nftScript and peerForwardScript). *)
ExplicitWins ==
    \A k, n \in DOMAIN chain :
        k < n /\ chain[k].owner = "dmz" /\ chain[n].owner # "dmz"
            => chain[k].ports \cap chain[n].ports = {}

(* With no DMZ operation under way, a DMZ that is off has no live rule, unless a
   restore that failed was reported: a request that fails at any step leaves the
   rules of the DMZ from before it (protectedDMZTransactionError). *)
DmzOffMeansOff ==
    dmz.step = "free" /\ "live" \notin dmzLost /\ ext.dmz = "off" => LivePorts("dmz") = {}

(* With no DMZ operation under way, the owners and the DMZ in memory are those of
   the file, unless a write of the rollback that failed was reported: two locks,
   three handlers and a rollback write the one file. *)
ExtIsDurable == dmz.step = "free" /\ "durable" \notin dmzLost => ext = extDisk

(* The DMZ never holds on to a port that has become explicit, although it reads
   the file at another time than the one at which it edits the chain. *)
DmzYields ==
    \A p \in Ports : <>[](p \in Explicit(disk)) => <>[](p \notin LivePorts("dmz"))

(* A DMZ that is and stays on, with the master on, comes back after a restart,
   after the master was off and after failures, for every port nothing else uses. *)
DmzComesBack ==
    \A p \in Ports \ Reserved :
        <>[](ext.dmz = "on" /\ disk.master = "on" /\ p \notin Explicit(disk))
            => []<>(p \in LivePorts("dmz"))

(* A status request, which removes the owners of rules that are gone, keeps the
   owner of a rule that exists ("owners persist per normal rule"). *)
StatusKeepsOwners ==
    [][rq.kind = "status" /\ rq' = NoRequest /\ phase' # "boot"
        => \A i \in ext.owners : HasRule(disk, i) => i \in ext'.owners]_vars

(* Taking a failed change of the DMZ back leaves alone the owners, which other
   requests commit under another lock ("Forwarding-extension ownership and
   Protected DMZ use transaction semantics"). *)
RollbackKeepsOwners ==
    [][dmz.step = "rollback" /\ dmz'.mode = "undo" => ext'.owners = ext.owners]_vars
=============================================================================
