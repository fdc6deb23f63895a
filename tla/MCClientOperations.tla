-------------------------- MODULE MCClientOperations --------------------------
(* The client's transactions, for TLC: everybody takes part. *)
EXTENDS ClientOperations

MCActors == {"settings", "monitor", "recorder", "startup", "shutdown"}
=============================================================================
