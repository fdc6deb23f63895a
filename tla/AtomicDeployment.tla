-------------------------- MODULE AtomicDeployment --------------------------
(***************************************************************************)
(* What the update controller promises: the server is at one release, and  *)
(* an update is one transaction that either moves it to a strict descendant*)
(* or leaves it where it was.  The promise ends where two updates come to  *)
(* run at once; from then on nothing is promised.                          *)
(***************************************************************************)
CONSTANTS SHA, Descends, Unknown, NoSHA

VARIABLES
    current,  \* the release the server is at, Unknown if it is not one exact SHA
    pending,  \* the target of the open transaction, or NoSHA
    void      \* the promise has ended

Init == current \in SHA \cup {Unknown} /\ pending = NoSHA /\ void = FALSE

Begin ==
    /\ pending = NoSHA
    /\ pending' \in SHA
    /\ <<current, pending'>> \in Descends
    /\ UNCHANGED current

Commit == pending # NoSHA /\ current' = pending /\ pending' = NoSHA

Abort == pending # NoSHA /\ pending' = NoSHA /\ UNCHANGED current

Void == void' = TRUE

Next == Void \/ (void' = void /\ (Begin \/ Commit \/ Abort))

Spec == Init /\ [][Next]_<<current, pending, void>>
=============================================================================
