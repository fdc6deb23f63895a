------------------------------ MODULE MCTorLeases ------------------------------
(* Tor leases, for TLC: one request, so one owner. *)
EXTENDS TorLeases

(* Bound: Stop calls of one owner at a time. *)
TwoStops == \A q \in Requests : Cardinality({c \in Callers : stop[q][c] # "idle"}) <= 2
=============================================================================
