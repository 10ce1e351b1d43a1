---------------------------- MODULE MCSessionRuns ----------------------------
(* Instances of SessionRuns for TLC. *)
EXTENDS SessionRuns, TLC

CONSTANTS s1, s2, u1, u2, r1, r2, r3, p1, p2

TwoSessionsOneUser == s1 :> u1 @@ s2 :> u1
TwoSessionsTwoUsers == s1 :> u1 @@ s2 :> u2
OneSession == s1 :> u1

RunSymmetry == Permutations(Runs)
RunAndPidSymmetry == Permutations(Runs) \cup Permutations(Pids)

=============================================================================
