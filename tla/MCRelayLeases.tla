----------------------------- MODULE MCRelayLeases -----------------------------
EXTENDS RelayLeases, TLC

CONSTANTS p1, p2, q1, q2, q3

(* q1 and q2 come from one peer; q1 and q3 use one paired credential. *)
MCPeer       == (q1 :> p1) @@ (q2 :> p1) @@ (q3 :> p2)
MCCredential == (q1 :> "a") @@ (q2 :> "b") @@ (q3 :> "a")
=============================================================================
