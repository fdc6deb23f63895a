------------------------- MODULE MCUpdateController -------------------------
(***************************************************************************)
(* The update controller over three releases a -> b -> c, two concurrent   *)
(* apply requests and a bounded number of faults.                          *)
(***************************************************************************)
EXTENDS UpdateController, TLC

CONSTANTS a, b, c, r1, r2

Ancestry == {<<a, b>>, <<b, c>>, <<a, c>>}

RequestSymmetry == Permutations(Requests)
=============================================================================
