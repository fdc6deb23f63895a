----------------------------- MODULE MCNativeUpdate -----------------------------
(* Signed manifests for TLC: an upgrade, two that share a sequence, one that signs
   an earlier target in another package, and one without a package for this
   platform. *)
EXTENDS NativeUpdate

Signed(seq, sha, dig) == [seq |-> seq, sha |-> sha, dig |-> dig]

MCManifests == {Signed(1, "b", "db"), Signed(2, "c", "dc"), Signed(2, "b", "db"),
                Signed(3, "b", "db2"), Signed(4, "a", None)}

(* The same commit is packaged twice. *)
Repackaged == {Signed(1, "b", "db"), Signed(2, "b", "db2")}
=============================================================================
