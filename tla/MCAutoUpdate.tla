---------------------------- MODULE MCAutoUpdate ----------------------------
(***************************************************************************)
(* The scheduler, an operator and the controller over two releases after a.*)
(***************************************************************************)
EXTENDS AutoUpdate

CONSTANTS a, b, c, operator

Ancestry == {<<a, b>>, <<b, c>>, <<a, c>>}

(* Once recovery has adopted a live request, for good since races only grows,
   none of the properties of these runs claims anything: behaviours are followed
   up to that step. *)
NotAdopted == "adopted" \notin races
=============================================================================
