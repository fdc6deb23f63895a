--------------------------- MODULE MCServerControl ---------------------------
(***************************************************************************)
(* Server control with one peer behind each control tool.                  *)
(***************************************************************************)
EXTENDS ServerControl
=============================================================================
