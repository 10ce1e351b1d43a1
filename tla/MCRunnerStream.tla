---------------------------- MODULE MCRunnerStream -----------------------------
(* Instances of RunnerStream for TLC. *)
EXTENDS StreamLog

CONSTANTS m1, m2, x, y, k

Block(i, t, c) == [kind |-> "assistant", id |-> i, text |-> t, call |-> c]
Answer(c, s) == [kind |-> "answer", call |-> c, status |-> s]
Final(s) == [kind |-> "result", status |-> s]

(* Two messages that use the same call, one of them in two lines. *)
SomeLines ==
  {Block(m1, x, NoCall), Block(m1, y, k), Block(m2, NoText, k), Answer(k, "done"), Final("done")}

=============================================================================
