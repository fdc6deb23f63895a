---------------------------- MODULE MCDownloadJobs ----------------------------
(***************************************************************************)
(* Download jobs: one job under two HTTP threads, or two jobs under one.   *)
(***************************************************************************)
EXTENDS DownloadJobs

(* Bound: clean-ups at a time. *)
TwoCleaners == Cardinality({t \in Threads : \E j \in Jobs : CleansUp(t, j)}) <= 2

(* The bound of the table is about the time before the shutdown. *)
InService == closed = "no"
=============================================================================
