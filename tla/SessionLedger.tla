---------------------------- MODULE SessionLedger ----------------------------
(***************************************************************************)
(* What a claudoo.session row promises about its turns, with every         *)
(* transaction a single step: a turn is accepted only by a session at      *)
(* rest, its result is written at most once, it is counted at most once,   *)
(* and the row is changed by nothing else than turns, action_stop and the  *)
(* reaper.  SessionRuns is shown to implement this.                        *)
(***************************************************************************)
EXTENDS Integers

CONSTANTS Sessions, Turns

VARIABLES st,     \* the state of each session
          count,  \* its turn_count
          of,     \* the session of each turn
          phase   \* how far each turn has come

ledger == <<st, count, of, phase>>

Outcomes == {"done", "error"}
Unfinished == {"open", "settled"}
Phases == Unfinished \cup {"new", "void", "counted", "failed", "lost"}

Init ==
  /\ st = [s \in Sessions |-> "idle"]
  /\ count = [s \in Sessions |-> 0]
  /\ of \in [Turns -> Sessions]
  /\ phase = [t \in Turns |-> "new"]

Moves(t, from, to) == phase[t] \in from /\ phase' = [phase EXCEPT ![t] = to]

Accept(t) ==
  /\ Moves(t, {"new"}, "open")
  /\ st[of[t]] # "running"
  /\ st' = [st EXCEPT ![of[t]] = "running"]
  /\ UNCHANGED <<count, of>>

Refuse(t) == Moves(t, {"new"}, "void") /\ UNCHANGED <<st, count, of>>

(* The result line of the turn is written to the row. *)
Settle(t) ==
  /\ Moves(t, {"open"}, "settled")
  /\ \E out \in Outcomes : st' = [st EXCEPT ![of[t]] = out]
  /\ UNCHANGED <<count, of>>

(* The turn ends: it counts, and a session still running comes to rest; an  *)
(* exception on the way leaves an error whatever the state was.             *)
Count(t) ==
  /\ Moves(t, Unfinished, "counted")
  /\ count' = [count EXCEPT ![of[t]] = count[of[t]] + 1]
  /\ \E out \in Outcomes :
       st' \in {IF st[of[t]] = "running" THEN [st EXCEPT ![of[t]] = out] ELSE st,
               [st EXCEPT ![of[t]] = "error"]}
  /\ UNCHANGED of

Fail(t) ==
  /\ Moves(t, Unfinished, "failed")
  /\ st' = [st EXCEPT ![of[t]] = "error"]
  /\ UNCHANGED <<count, of>>

(* The turn ends without a trace in the row. *)
Lose(t) == Moves(t, Unfinished, "lost") /\ UNCHANGED <<st, count, of>>

Stop(s) == st' = [st EXCEPT ![s] = "idle"] /\ UNCHANGED <<count, of, phase>>

Reap(stuck) ==
  /\ \A s \in stuck : st[s] = "running"
  /\ st' = [s \in Sessions |-> IF s \in stuck THEN "error" ELSE st[s]]
  /\ UNCHANGED <<count, of, phase>>

Next ==
  \/ \E t \in Turns : Accept(t) \/ Refuse(t) \/ Settle(t) \/ Count(t) \/ Fail(t) \/ Lose(t)
  \/ \E s \in Sessions : Stop(s)
  \/ \E stuck \in SUBSET Sessions : Reap(stuck)

Spec == Init /\ [][Next]_ledger

=============================================================================
