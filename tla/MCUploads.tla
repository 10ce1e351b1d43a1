------------------------------- MODULE MCUploads -------------------------------
(* Instances of Uploads for TLC. *)
EXTENDS Uploads, TLC

CONSTANTS a, b, f1, f2, f3, t1, t2

FileSymmetry == Permutations({f1, f2}) \cup Permutations({t1, t2}) \cup Permutations({a, b})

=============================================================================
