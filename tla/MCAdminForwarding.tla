--------------------------- MODULE MCAdminForwarding ---------------------------
(* The two planes over one rule and one port, for TLC. *)
EXTENDS AdminForwarding

(* LAN access plays no part in forwarding. *)
LanStays == mem.lan = "on"

Owning == rq # NoRequest \/ ext.owners \cup extDisk.owners \cup dmz.old.owners # {}

Quiet == mem.master = "on" /\ LivePorts("peer") = {}

(* Owners and the DMZ meet in one file, owners and the chain do not meet: what is
   known about owners is explored while the admin plane and the peers rest. *)
Focus == LanStays /\ (Owning => Quiet /\ step = "free" /\ phase = "up")

(* The configurations about the chain only, and about owners only. *)
ChainOnly == LanStays /\ rq = NoRequest

OwnersOnly == LanStays /\ Quiet
=============================================================================
