-------------------------------- MODULE TurnLog --------------------------------
(***************************************************************************)
(* What the record of a turn promises: the messages stored for it are       *)
(* always the reading of a prefix of what the CLI printed, the prefix grows *)
(* a line at a time, and nothing is added once the supervision is over; an  *)
(* error may leave the last line half done, and no more than that.          *)
(*                                                                         *)
(* The reading is a relation between messages and a whole prefix; the       *)
(* program keeps its messages up to date line by line (claudoo_runner.py,   *)
(* _handle_event).  Places are counted, so that a line is the first of a    *)
(* message or a text of it wherever the others are.                         *)
(***************************************************************************)
EXTENDS Naturals, Sequences, FiniteSets

CONSTANTS Lines,     \* what the CLI may print, see RunnerStream
          NoId,      \* the id of a message that has none
          NoText,
          NoCall,
          Calls      \* ids of tool calls

VARIABLES said, noted, chat, open
vars == <<said, noted, chat, open>>

Place(picked, i) == Cardinality({j \in picked : j <= i})

Assistant(ls) == {i \in DOMAIN ls : ls[i].kind = "assistant"}

(* The lines of the message that line i belongs to. *)
Same(ls, i) == IF ls[i].id = NoId THEN {i} ELSE {j \in Assistant(ls) : ls[j].id = ls[i].id}

Starts(ls) == {i \in Assistant(ls) : \A j \in Same(ls, i) : i <= j}

(* The body is the texts of the message's lines, in their order. *)
Texts(ls, own) == {i \in own : ls[i].text # NoText}
IsBody(body, ls, own) ==
  /\ Len(body) = Cardinality(Texts(ls, own))
  /\ \A i \in Texts(ls, own) : body[Place(Texts(ls, own), i)] = ls[i].text

(* A call runs until it is answered; the last answer is the one that counts.*)
(* The answers to a call of a message without an id are not looked for.     *)
Asked(ls, own, k) == {i \in own : ls[i].call = k}
Answers(ls, own, k) ==
  {j \in DOMAIN ls : /\ ls[j].kind = "answer"
                     /\ ls[j].call = k
                     /\ \E i \in Asked(ls, own, k) : i < j /\ ls[i].id # NoId}
IsStatus(status, ls, own, k) ==
  \/ Asked(ls, own, k) = {} /\ status = "none"
  \/ Asked(ls, own, k) # {} /\ Answers(ls, own, k) = {} /\ status = "running"
  \/ \E j \in Answers(ls, own, k) :
       (\A x \in Answers(ls, own, k) : x <= j) /\ status = ls[j].status

IsMessage(m, ls, i) ==
  /\ m.id = ls[i].id
  /\ IsBody(m.body, ls, Same(ls, i))
  /\ \A k \in Calls : IsStatus(m.calls[k], ls, Same(ls, i), k)

Blocks == {l \in Lines : l.kind = "assistant"}
Message == [id : {l.id : l \in Blocks}, body : Seq({l.text : l \in Blocks}),
            calls : [Calls -> {"none", "running", "done", "error"}]]

(* One message for each start, in the order of the starts. *)
Reads(ms, ls) ==
  /\ ms \in Seq(Message)
  /\ Len(ms) = Cardinality(Starts(ls))
  /\ \A i \in Starts(ls) : IsMessage(ms[Place(Starts(ls), i)], ls, i)

(* Some of the messages read as after the last line, some as before it. *)
Torn(ms, before, after) ==
  /\ ms \in Seq(Message)
  /\ Len(ms) \in {Cardinality(Starts(before)), Cardinality(Starts(after))}
  /\ \A i \in Starts(after) :
       LET p == Place(Starts(after), i)
       IN p <= Len(ms) => \/ IsMessage(ms[p], after, i)
                          \/ i \in Starts(before) /\ IsMessage(ms[p], before, i)

Init == said = <<>> /\ noted = 0 /\ chat = <<>> /\ open = TRUE

Say ==
  /\ \E l \in Lines : said' = Append(said, l)
  /\ UNCHANGED <<noted, chat, open>>

Note ==
  /\ open
  /\ noted < Len(said)
  /\ noted' = noted + 1
  /\ Reads(chat', SubSeq(said, 1, noted'))
  /\ UNCHANGED <<said, open>>

Tear ==
  /\ open
  /\ noted < Len(said)
  /\ Torn(chat', SubSeq(said, 1, noted), SubSeq(said, 1, noted + 1))
  /\ open' = FALSE
  /\ UNCHANGED <<said, noted>>

Close ==
  /\ open' = FALSE
  /\ UNCHANGED <<said, noted, chat>>

Next == Say \/ Note \/ Tear \/ Close

Spec == Init /\ [][Next]_vars

=============================================================================
