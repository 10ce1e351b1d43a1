----------------------------- MODULE MCClaudeLogin -----------------------------
(* Instances of ClaudeLogin for TLC. *)
EXTENDS ClaudeLogin

CONSTANTS l1, l2, k1, k2, k3, r1, r2

(* The user authorizes the first login twice. *)
TwoAndOne == [k \in Codes |-> IF k = k3 THEN l2 ELSE l1]

=============================================================================
