------------------------------- MODULE MCChatView -------------------------------
(* Instances of ChatView for TLC. *)
EXTENDS ChatView

CONSTANTS a, b, t1, t2, t3, v1, v2

(* The first two turns belong to one conversation. *)
TwoAndOne == [t \in Turns |-> IF t = t3 THEN b ELSE a]
OneEach == [t \in Turns |-> IF t = t1 THEN a ELSE b]

=============================================================================
