--------------------------- MODULE RunnerStreamProofs ---------------------------
(***************************************************************************)
(* For any lines, any size of the pipe, and any interleaving of the CLI,    *)
(* what it starts, the reader thread, the worker, stops and the reaper.     *)
(***************************************************************************)
EXTENDS StreamLog, FiniteSetTheorems, TLAPS

-----------------------------------------------------------------------------
(* The counters, and the processes at the end. *)

Flow ==
  /\ printed \in Seq(Lines)
  /\ handled \in Nat /\ pumped \in Nat
  /\ handled <= pumped /\ pumped <= Len(printed)
  /\ worker \in {"top", "get", "poll", "wait", "stderr", "over"}
  /\ ended \in {"no", "sentinel", "poll", "timeout", "exception"}
  /\ cli \in {"up", "stuck", "exited"}
  /\ eof /\ ~broken => ~out /\ pumped = Len(printed)

Ends ==
  /\ ended = "no" <=> worker \in {"top", "get", "poll"}
  /\ worker = "stderr" => cli = "exited"
  /\ worker = "over" => cli = "exited" \/ ended = "exception"
  /\ ended = "sentinel" => eof /\ handled = pumped
  /\ ended \in {"timeout", "exception"} => worker = "over"

LEMMA InitFlow == Init => Flow /\ Ends
<1>1. Init => printed \in Seq(Lines) /\ Len(printed) = 0
  BY DEF Init
<1>2. Init => /\ handled = 0 /\ pumped = 0 /\ eof = FALSE
              /\ cli = "up" /\ worker = "top" /\ ended = "no"
  BY DEF Init
<1>3. Init => handled \in Nat /\ pumped \in Nat /\ handled <= pumped /\ pumped <= Len(printed)
  BY <1>1, <1>2
<1>4. Init => Flow
  BY <1>1, <1>2, <1>3, Zenon DEF Flow
<1>5. Init => Ends
  BY <1>2 DEF Ends
<1> QED BY <1>4, <1>5

(* A stdout that is closed stays closed. *)
LEMMA Closing == LetGo /\ ~out => ~out'
BY DEF LetGo

LEMMA OutsideFlow ==
  ASSUME Flow, Ends,
         \/ \E l \in Lines : PrintLine(l)
         \/ CloseOutput \/ Complain \/ Exit \/ ChildEnds \/ DeadlinePasses
         \/ Stop \/ Reap
         \/ Pump \/ PutSentinel \/ ReadFails
  PROVE  Flow' /\ Ends'
<1> USE DEF Flow, Ends, record
<1>1. ASSUME NEW l \in Lines, PrintLine(l) PROVE Flow' /\ Ends'
  <2>1. printed' \in Seq(Lines) /\ Len(printed') = Len(printed) + 1
    BY <1>1 DEF PrintLine
  <2> QED BY <1>1, <2>1 DEF PrintLine, reader
<1>2. CASE CloseOutput \/ Complain
  BY <1>2 DEF CloseOutput, Complain, reader
<1>3. CASE Exit
  BY <1>3, Closing DEF Exit, reader
<1>4. CASE ChildEnds
  <2>1. ~out => ~out'
    BY <1>4 DEF ChildEnds
  <2> QED BY <1>4, <2>1 DEF ChildEnds, reader
<1>5. CASE DeadlinePasses \/ Stop
  BY <1>5 DEF DeadlinePasses, Stop, reader, process
<1>6. CASE Reap
  BY <1>6, Closing DEF Reap, Kill, Killed, reader
<1>7. CASE Pump
  BY <1>7 DEF Pump, process
<1>8. CASE PutSentinel
  BY <1>8 DEF PutSentinel, AtEof, process
<1>9. CASE ReadFails
  BY <1>9 DEF ReadFails, process
<1> QED BY <1>1, <1>2, <1>3, <1>4, <1>5, <1>6, <1>7, <1>8, <1>9

LEMMA WorkerFlow == Flow /\ Ends /\ Worker => Flow' /\ Ends'
<1> SUFFICES ASSUME Flow, Ends, Worker PROVE Flow' /\ Ends'
  OBVIOUS
<1> USE DEF Flow, Ends, reader, process, record, Abandon
<1>1. CASE TimedOut
  BY <1>1, Closing DEF TimedOut, Kill, Killed
<1>2. CASE Get \/ SkipLine
  BY <1>2 DEF Get, SkipLine
<1>3. CASE HandleLine
  BY <1>3 DEF HandleLine
<1>4. CASE HandleFails
  BY <1>4 DEF HandleFails
<1>5. CASE TakeSentinel
  BY <1>5 DEF TakeSentinel
<1>6. CASE GetEmpty
  BY <1>6 DEF GetEmpty
<1>7. CASE Poll
  BY <1>7 DEF Poll
<1>8. CASE WaitExit
  BY <1>8, Closing DEF WaitExit, Kill, Killed
<1>9. CASE Finish
  BY <1>9 DEF Finish, ErrorsRead
<1>10. CASE FinishFails
  BY <1>10 DEF FinishFails, ErrorsRead
<1> QED BY <1>1, <1>2, <1>3, <1>4, <1>5, <1>6, <1>7, <1>8, <1>9, <1>10 DEF Worker

LEMMA StepFlow == Flow /\ Ends /\ [Next]_vars => Flow' /\ Ends'
<1>1. Flow /\ Ends /\ UNCHANGED vars => Flow' /\ Ends'
  BY DEF Flow, Ends, vars, process, reader, record
<1> QED BY <1>1, OutsideFlow, WorkerFlow DEF Next

LEMMA FlowHolds == Spec => [](Flow /\ Ends)
BY InitFlow, StepFlow, PTL DEF Spec

(* The sentinel is met behind the last line and the CLI can write no more   *)
(* (ReadToTheEnd), unless the reader thread failed: no interleaving of      *)
(* exits, closed pipes, reader thread and worker loses a line.              *)
THEOREM SentinelIsLast == Spec => []ReadToTheEnd
<1>1. Flow /\ Ends => ReadToTheEnd
  BY DEF Flow, Ends, ReadToTheEnd
<1> QED BY <1>1, FlowHolds, PTL

(* A supervision that no exception ended leaves no CLI, also when the CLI   *)
(* has closed its output or the reader thread failed                        *)
(* (OnlyExceptionsLeaveTheCli).                                             *)
THEOREM SupervisionLeavesNoCli == Spec => []OnlyExceptionsLeaveTheCli
<1>1. Flow /\ Ends => OnlyExceptionsLeaveTheCli
  BY DEF Flow, Ends, OnlyExceptionsLeaveTheCli
<1> QED BY <1>1, FlowHolds, PTL

-----------------------------------------------------------------------------
(* The outcome *)

Told == {i \in 1..handled : printed[i].kind = "result" /\ i > cut.at}
Decides(i) == i \in Told /\ \A j \in Told : j <= i
ByStatus == IF rc THEN "done" ELSE "error"

CutType == /\ cut.at \in Nat /\ cut.at <= handled
           /\ cut = [at |-> cut.at, as |-> cut.as]
           /\ cut.as \in {"running", "idle", "error"}

OutcomeInv ==
  /\ Told # {} => \E i : Decides(i)
  /\ worker # "over" =>
       /\ Told = {} => state = cut.as
       /\ \A i : Decides(i) => state = printed[i].status
  /\ worker = "over" /\ ended = "sentinel" =>
       /\ Told = {} => state = IF cut.as # "running" THEN cut.as ELSE ByStatus
       /\ \A i : Decides(i) => state = printed[i].status

LEMMA InitOutcome == Init => OutcomeInv /\ CutType
BY DEF Init, OutcomeInv, CutType, Told, Decides

LEMMA StepCut == Flow /\ CutType /\ [Next]_vars => CutType'
<1> SUFFICES ASSUME Flow, CutType, [Next]_vars PROVE CutType'
  OBVIOUS
<1>1. CASE Stop \/ Reap
  <2>1. cut' \in {[at |-> handled, as |-> "idle"], [at |-> handled, as |-> "error"]} /\ handled' = handled
    BY <1>1 DEF Stop, Reap, Cut, record
  <2> QED BY <2>1 DEF Flow, CutType
<1>2. CASE ~(Stop \/ Reap)
  <2>1. cut' = cut /\ handled' \in {handled, handled + 1}
    BY <1>2 DEF Next, Worker, vars, record, row, PrintLine, CloseOutput, Complain, Exit, ChildEnds,
                DeadlinePasses, Pump, PutSentinel, ReadFails, TimedOut, Get, HandleLine, SkipLine,
                HandleFails, TakeSentinel, GetEmpty, Poll, WaitExit, Finish, FinishFails, Abandon
  <2> QED BY <2>1 DEF Flow, CutType
<1> QED BY <1>1, <1>2

(* Steps that leave the outcome alone. *)
LEMMA SameOutcome ==
  ASSUME Flow, Ends, OutcomeInv,
         UNCHANGED <<handled, row>>, \A i \in 1..handled : printed'[i] = printed[i],
         worker = "over" <=> worker' = "over",
         worker = "over" => UNCHANGED <<ended, rc>>
  PROVE  OutcomeInv'
<1>1. Told' = Told
  BY DEF Told, row
<1>2. \A i : Decides(i)' <=> Decides(i)
  BY <1>1 DEF Decides
<1>3. \A i : Decides(i) => printed'[i] = printed[i]
  BY DEF Decides, Told
<1>4. worker = "over" => ByStatus' = ByStatus
  BY DEF ByStatus
<1>5. UNCHANGED <<state, cut>> /\ (worker = "over" => ended' = ended)
  BY DEF row
<1>6. Told' # {} => \E i : Decides(i)'
  BY <1>1, <1>2 DEF OutcomeInv
<1>7. CASE worker # "over"
  BY <1>1, <1>2, <1>3, <1>5, <1>6, <1>7 DEF OutcomeInv
<1>8. CASE worker = "over"
  BY <1>1, <1>2, <1>3, <1>4, <1>5, <1>6, <1>8 DEF OutcomeInv
<1> QED BY <1>7, <1>8

(* A stop or the reaper decides, until the next result line. *)
LEMMA CutOutcome ==
  ASSUME Flow, OutcomeInv, Stop \/ Reap
  PROVE  OutcomeInv'
<1>1. /\ state' = cut'.as /\ cut'.as # "running" /\ cut'.at = handled
      /\ UNCHANGED handled
  BY DEF Stop, Reap, Cut, record
<1>2. Told' = {}
  BY <1>1 DEF Told, Flow
<1> QED BY <1>1, <1>2 DEF OutcomeInv, Decides

LEMMA HandleOutcome ==
  ASSUME Flow, Ends, CutType, OutcomeInv, HandleLine
  PROVE  OutcomeInv'
<1> DEFINE l == printed[handled + 1]
<1>0. PICK n \in Nat : n = handled + 1
  BY DEF Flow
<1>1. /\ worker = "get" /\ worker' = "top" /\ handled' = n /\ UNCHANGED <<printed, cut>>
      /\ handled \in Nat /\ n \in 1..Len(printed) /\ l = printed[n] /\ n > cut.at
  BY <1>0 DEF HandleLine, Flow, process, CutType
<1>2. l \in Lines
  BY <1>1 DEF Flow
<1>3. CASE l.kind = "result"
  <2>1. state' = l.status
    BY <1>3 DEF HandleLine, Result
  <2>2. Decides(n)' /\ \A i : Decides(i)' => i = n
    BY <1>1, <1>3 DEF Decides, Told
  <2> QED BY <1>1, <2>1, <2>2 DEF OutcomeInv, Decides
<1>4. CASE l.kind # "result"
  <2>1. UNCHANGED state
    BY <1>4 DEF HandleLine, UpsertAssistant, PatchToolResults
  <2>2. 1..n = (1..handled) \cup {n}
    BY <1>0, <1>1
  <2>3. Told' = Told
    BY <1>1, <1>4, <2>2 DEF Told
  <2>4. \A i : Decides(i)' <=> Decides(i)
    BY <2>3 DEF Decides
  <2> QED BY <1>1, <2>1, <2>3, <2>4 DEF OutcomeInv
<1> QED BY <1>3, <1>4

LEMMA FinishOutcome ==
  ASSUME Flow, Ends, OutcomeInv, Finish
  PROVE  OutcomeInv'
<1>1. /\ worker = "stderr" /\ worker' = "over" /\ UNCHANGED <<printed, handled, rc, ended, cut>>
      /\ state' = FinalState
  BY DEF Finish, ErrorsRead, process, record
<1>2. Told' = Told /\ (\A i : Decides(i)' <=> Decides(i)) /\ ByStatus' = ByStatus
  BY <1>1 DEF Told, Decides, ByStatus
<1>3. Told = {} => state' = IF cut.as # "running" THEN cut.as ELSE ByStatus
  BY <1>1 DEF OutcomeInv, FinalState, ByStatus
<1>4. ASSUME NEW i, Decides(i) PROVE state' = printed[i].status
  <2>1. printed[i] \in Lines /\ printed[i].kind = "result"
    BY <1>4 DEF Decides, Told, Flow
  <2>2. printed[i].status # "running"
    BY <2>1, LineAssumption
  <2>3. state = printed[i].status
    BY <1>1, <1>4 DEF OutcomeInv
  <2> QED BY <1>1, <2>2, <2>3 DEF FinalState
<1> QED BY <1>1, <1>2, <1>3, <1>4 DEF OutcomeInv

LEMMA StepOutcome == Flow /\ Ends /\ CutType /\ OutcomeInv /\ [Next]_vars => OutcomeInv'
<1> SUFFICES ASSUME Flow, Ends, CutType, OutcomeInv, [Next]_vars PROVE OutcomeInv'
  OBVIOUS
<1>1. ASSUME NEW l \in Lines, PrintLine(l) PROVE OutcomeInv'
  <2>1. \A i \in 1..handled : printed'[i] = printed[i]
    BY <1>1 DEF PrintLine, Flow
  <2> QED BY <1>1, <2>1, SameOutcome DEF PrintLine, record
<1>2. CASE \/ CloseOutput \/ Complain \/ ChildEnds \/ DeadlinePasses
           \/ Pump \/ PutSentinel \/ ReadFails \/ UNCHANGED vars
  BY <1>2, SameOutcome DEF CloseOutput, Complain, ChildEnds, DeadlinePasses, Pump, PutSentinel,
                           ReadFails, vars, process, record
<1>3. CASE Exit
  <2>1. worker = "over" /\ ended = "sentinel" => cli = "exited"
    BY DEF Flow, Ends
  <2>2. UNCHANGED <<worker, ended, printed, handled, state, cut>> /\ cli # "exited"
    BY <1>3 DEF Exit, record, row
  <2>3. Told' = Told /\ \A i : Decides(i)' <=> Decides(i)
    BY <2>2 DEF Told, Decides
  <2> QED BY <2>1, <2>2, <2>3 DEF OutcomeInv
<1>4. CASE Get \/ SkipLine \/ TakeSentinel \/ GetEmpty \/ Poll \/ WaitExit
  BY <1>4, SameOutcome
     DEF Get, SkipLine, TakeSentinel, GetEmpty, Poll, WaitExit, Kill, process, record
<1>5. CASE TimedOut \/ HandleFails \/ FinishFails
  <2>1. worker' = "over" /\ ended' # "sentinel" /\ UNCHANGED <<printed, handled, cut>>
    BY <1>5 DEF TimedOut, HandleFails, FinishFails, Abandon, Kill, process, record
  <2>2. Told' = Told /\ \A i : Decides(i)' <=> Decides(i)
    BY <2>1 DEF Told, Decides
  <2> QED BY <2>1, <2>2 DEF OutcomeInv
<1>6. CASE HandleLine
  BY <1>6, HandleOutcome
<1>7. CASE Finish
  BY <1>7, FinishOutcome
<1>8. CASE Stop \/ Reap
  BY <1>8, CutOutcome
<1> QED BY <1>1, <1>2, <1>3, <1>4, <1>5, <1>6, <1>7, <1>8 DEF Next, Worker

LEMMA OutcomeHolds == Spec => [](OutcomeInv /\ CutType)
BY InitOutcome, StepOutcome, StepCut, FlowHolds, PTL DEF Spec

(* A turn read to its end ends as the last result event says, or as a stop  *)
(* or the reaper left it after that, and only without either as the exit    *)
(* status says (OutcomeIsTheClis).                                          *)
THEOREM LastResultDecides == Spec => []OutcomeIsTheClis
<1>1. ASSUME Flow, Ends, CutType, OutcomeInv, worker = "over", ended = "sentinel", ~broken
      PROVE  state = IF Results # {} THEN printed[LastResult].status
                     ELSE IF cut.as # "running" THEN cut.as
                     ELSE IF rc THEN "done" ELSE "error"
  <2>1. Results = Told
    BY <1>1 DEF Results, Told, Flow, Ends
  <2>2. CASE Results = {}
    BY <1>1, <2>1, <2>2 DEF OutcomeInv, ByStatus
  <2>3. CASE Results # {}
    <3>1. PICK i : Decides(i)
      BY <1>1, <2>1, <2>3 DEF OutcomeInv
    <3>2. LastResult \in Results /\ \A j \in Results : j <= LastResult
      BY <2>1, <3>1 DEF LastResult, Decides
    <3>3. LastResult = i
      BY <1>1, <2>1, <3>1, <3>2 DEF Decides, Told, Flow
    <3> QED BY <1>1, <2>3, <3>1, <3>3 DEF OutcomeInv
  <2> QED BY <2>2, <2>3
<1>2. Flow /\ Ends /\ CutType /\ OutcomeInv => OutcomeIsTheClis
  BY <1>1 DEF OutcomeIsTheClis
<1> QED BY <1>2, OutcomeHolds, FlowHolds, PTL

-----------------------------------------------------------------------------
(* The records *)

Texts == {l.text : l \in {x \in Lines : x.kind = "assistant"}}

Records ==
  /\ msgs \in Seq(Message)
  /\ msg_map \in [Ids -> 0..Len(msgs)]
  /\ \A r \in DOMAIN msgs : msgs[r].id # NoId => msg_map[msgs[r].id] = r

Seen ==
  /\ shown \in Seq(Message)
  /\ ended # "exception" => shown = msgs

Rest ==
  /\ rc \in BOOLEAN /\ child \in BOOLEAN /\ expired \in BOOLEAN
  /\ out \in BOOLEAN /\ eof \in BOOLEAN /\ broken \in BOOLEAN
  /\ Len(printed) <= MaxLines
  /\ state \in States

Status == {"none", "running", "done", "error"}

LEMMA MessageType == Message = [id : Ids \cup {NoId}, body : Seq(Texts), calls : [Calls -> Status]]
BY DEF Message, Texts, Status

LEMMA ExtendedType ==
  ASSUME NEW m \in Message, NEW l \in Lines, l.kind = "assistant"
  PROVE  Extended(m, l) \in Message /\ Extended(m, l).id = m.id
<1> DEFINE body == IF l.text = NoText THEN m.body ELSE Append(m.body, l.text)
           calls == [k \in Calls |-> IF k = l.call /\ m.calls[k] = "none" THEN "running" ELSE m.calls[k]]
<1>1. l.text \in Texts
  BY DEF Texts
<1>2. body \in Seq(Texts)
  BY <1>1, MessageType
<1>3. calls \in [Calls -> Status]
  BY MessageType DEF Status
<1>4. Extended(m, l) = [id |-> m.id, body |-> body, calls |-> calls]
  <2>1. m = [id |-> m.id, body |-> m.body, calls |-> m.calls]
    BY MessageType
  <2>2. Extended(m, l) = [[m EXCEPT !.body = body] EXCEPT !.calls = calls]
    BY <2>1 DEF Extended
  <2> QED BY <2>1, <2>2
<1> QED BY <1>2, <1>3, <1>4, MessageType

LEMMA FreshType ==
  ASSUME NEW l \in Lines, l.kind = "assistant"
  PROVE  Fresh(l) \in Message /\ Fresh(l).id = l.id /\ (l.id # NoId => l.id \in Ids)
<1>1. l.id \in Ids \cup {NoId}
  BY DEF Ids
<1>2. <<>> \in Seq(Texts) /\ [k \in Calls |-> "none"] \in [Calls -> Status]
  BY DEF Status
<1> QED BY <1>1, <1>2, MessageType DEF Fresh

LEMMA KnownRecord ==
  ASSUME Records, NEW l \in Lines, l.kind = "assistant", Known(l), Upsert(l)
  PROVE  /\ Records'
         /\ Written(l) \in DOMAIN msgs /\ DOMAIN msgs' = DOMAIN msgs
         /\ \A q \in DOMAIN msgs \ {Written(l)} : msgs'[q] = msgs[q]
<1> DEFINE r == msg_map[l.id]
           m == Extended(msgs[r], l)
<1>1. r \in DOMAIN msgs /\ r = Written(l)
  BY FreshType DEF Records, Known, Written
<1>2. m \in Message /\ m.id = msgs[r].id
  BY <1>1, ExtendedType DEF Records
<1>3. msgs' = [msgs EXCEPT ![r] = m] /\ UNCHANGED msg_map
  BY DEF Upsert
<1>4. msgs' \in Seq(Message) /\ Len(msgs') = Len(msgs) /\ DOMAIN msgs' = DOMAIN msgs
  BY <1>1, <1>2, <1>3 DEF Records
<1>5. \A q \in DOMAIN msgs : msgs'[q].id = msgs[q].id /\ (q # r => msgs'[q] = msgs[q])
  BY <1>1, <1>2, <1>3 DEF Records
<1> QED BY <1>1, <1>3, <1>4, <1>5 DEF Records

LEMMA NewRecord ==
  ASSUME Records, NEW l \in Lines, l.kind = "assistant", ~Known(l), Upsert(l)
  PROVE  /\ Records'
         /\ DOMAIN msgs' = DOMAIN msgs \cup {Written(l)}
         /\ \A q \in DOMAIN msgs : msgs'[q] = msgs[q]
<1> DEFINE m == Extended(Fresh(l), l)
           n == Len(msgs) + 1
<1>1. m \in Message /\ m.id = l.id /\ (l.id # NoId => l.id \in Ids) /\ n = Written(l)
  BY FreshType, ExtendedType DEF Written
<1>2. /\ msgs' = Append(msgs, m)
      /\ msg_map' = IF l.id = NoId THEN msg_map ELSE [msg_map EXCEPT ![l.id] = Len(msgs')]
  BY DEF Upsert, Mapped
<1>3. /\ msgs' \in Seq(Message) /\ Len(msgs') = n /\ msgs'[n] = m
      /\ DOMAIN msgs' = 1..n /\ \A q \in 1..Len(msgs) : msgs'[q] = msgs[q]
  BY <1>1, <1>2 DEF Records
<1>4. msg_map' \in [Ids -> 0..Len(msgs')]
  BY <1>1, <1>2, <1>3 DEF Records
<1>5. ASSUME NEW q \in DOMAIN msgs', msgs'[q].id # NoId PROVE msg_map'[msgs'[q].id] = q
  <2>1. CASE q = n
    BY <2>1, <1>1, <1>2, <1>3, <1>5 DEF Records
  <2>2. CASE q # n
    <3>1. q \in DOMAIN msgs /\ msgs'[q] = msgs[q] /\ q # 0
      BY <2>2, <1>3 DEF Records
    <3>2. msg_map[msgs[q].id] = q
      BY <3>1, <1>5 DEF Records
    <3>3. msgs[q].id # l.id
      BY <3>1, <3>2, <1>5 DEF Known
    <3> QED BY <3>1, <3>2, <3>3, <1>1, <1>2 DEF Records
  <2> QED BY <2>1, <2>2
<1>6. DOMAIN msgs = 1..Len(msgs) /\ 1..n = 1..Len(msgs) \cup {n}
  BY DEF Records
<1> QED BY <1>1, <1>3, <1>4, <1>5, <1>6 DEF Records

LEMMA PatchedRecords ==
  ASSUME Records, NEW l \in Lines, l.kind = "answer", NEW rs, Patch(l, rs)
  PROVE  /\ Records'
         /\ DOMAIN msgs' = DOMAIN msgs
         /\ \A r \in DOMAIN msgs \ rs : msgs'[r] = msgs[r]
<1> DEFINE patched(r) == [msgs[r] EXCEPT !.calls[l.call] = l.status]
<1>1. l.call \in Calls /\ l.status \in Status
  BY LineAssumption DEF Status
<1>2. ASSUME NEW r \in DOMAIN msgs PROVE patched(r) \in Message /\ patched(r).id = msgs[r].id
  <2>1. msgs[r] \in Message
    BY DEF Records
  <2>2. [msgs[r].calls EXCEPT ![l.call] = l.status] \in [Calls -> Status]
    BY <1>1, <2>1, MessageType
  <2>3. patched(r) = [id |-> msgs[r].id, body |-> msgs[r].body,
                      calls |-> [msgs[r].calls EXCEPT ![l.call] = l.status]]
    BY <2>1, MessageType
  <2> QED BY <2>1, <2>2, <2>3, MessageType
<1>3. /\ msgs' = [r \in DOMAIN msgs |-> IF r \in rs THEN patched(r) ELSE msgs[r]]
      /\ UNCHANGED msg_map
  BY DEF Patch
<1>4. msgs' \in Seq(Message) /\ Len(msgs') = Len(msgs) /\ DOMAIN msgs' = DOMAIN msgs
  BY <1>2, <1>3 DEF Records
<1>5. \A r \in DOMAIN msgs : msgs'[r].id = msgs[r].id
  BY <1>2, <1>3
<1> QED BY <1>3, <1>4, <1>5 DEF Records

(* What is announced after a write of the records ws. *)
LEMMA Announcing ==
  ASSUME NEW ms \in Seq(Message), NEW ws, NEW rs, shown \in Seq(Message),
         \A r \in DOMAIN ms \ ws : r \in DOMAIN shown /\ ms[r] = shown[r],
         \A r \in ws \ rs : r \in DOMAIN shown
  PROVE  /\ Announced(ms, rs) \in Seq(Message)
         /\ ws \subseteq rs => Announced(ms, rs) = ms
<1> DEFINE an == Announced(ms, rs)
<1>1. DOMAIN ms = 1..Len(ms) /\ Len(ms) \in Nat
  OBVIOUS
<1>2. an = [r \in DOMAIN ms |-> IF r \in rs THEN ms[r] ELSE shown[r]]
  BY DEF Announced
<1>3. \A r \in DOMAIN ms : (IF r \in rs THEN ms[r] ELSE shown[r]) \in Message
  <2>1. ASSUME NEW r \in DOMAIN ms, r \notin rs PROVE r \in DOMAIN shown
    BY <2>1
  <2> QED BY <2>1
<1>4. an \in [1..Len(ms) -> Message]
  BY <1>1, <1>2, <1>3
<1>5. ASSUME ws \subseteq rs PROVE an = ms
  <2>1. \A r \in DOMAIN ms : (IF r \in rs THEN ms[r] ELSE shown[r]) = ms[r]
    BY <1>5
  <2>2. ms = [r \in DOMAIN ms |-> ms[r]]
    OBVIOUS
  <2> QED BY <1>2, <2>1, <2>2
<1> QED BY <1>1, <1>4, <1>5

LEMMA UpsertSeen ==
  ASSUME Records, shown = msgs, NEW l \in Lines, l.kind = "assistant", Upsert(l)
  PROVE  Records' /\ Announced(msgs', {Written(l)}) = msgs'
<1>1. Records' /\ \A r \in DOMAIN msgs' \ {Written(l)} : r \in DOMAIN msgs /\ msgs'[r] = msgs[r]
  BY KnownRecord, NewRecord
<1>2. msgs \in Seq(Message) /\ msgs' \in Seq(Message)
  BY <1>1 DEF Records
<1> QED BY <1>1, <1>2, Announcing

LEMMA PatchSeen ==
  ASSUME Records, shown = msgs, NEW l \in Lines, l.kind = "answer",
         NEW ws, ws \subseteq DOMAIN msgs, Patch(l, ws), NEW rs
  PROVE  /\ Records' /\ Announced(msgs', rs) \in Seq(Message)
         /\ ws \subseteq rs => Announced(msgs', rs) = msgs'
<1>1. /\ Records'
      /\ \A r \in DOMAIN msgs' \ ws : r \in DOMAIN msgs /\ msgs'[r] = msgs[r]
      /\ \A r \in ws \ rs : r \in DOMAIN msgs
  BY PatchedRecords
<1>2. msgs \in Seq(Message) /\ msgs' \in Seq(Message)
  BY <1>1 DEF Records
<1> QED BY <1>1, <1>2, Announcing

LEMMA FailedSeen ==
  ASSUME Flow, Ends, Records, Seen, HandleFails
  PROVE  Records' /\ Seen'
<1> DEFINE l == printed[handled + 1]
<1>1. ended' = "exception" /\ shown = msgs
  BY DEF HandleFails, Ends, Seen
<1>2. CASE UNCHANGED <<msgs, msg_map, shown>>
  BY <1>1, <1>2 DEF Records, Seen
<1>3. CASE ~UNCHANGED <<msgs, msg_map, shown>>
  <2>1. handled < pumped /\ PartOf(l)
    BY <1>3 DEF HandleFails
  <2>2. l \in Lines
    BY <2>1 DEF Flow
  <2> HIDE DEF l
  <2>3. CASE l.kind = "assistant" /\ Upsert(l) /\ shown' \in {shown, Announced(msgs', {Written(l)})}
    <3>1. Records' /\ Announced(msgs', {Written(l)}) = msgs'
      BY <1>1, <2>2, <2>3, UpsertSeen
    <3> QED BY <1>1, <2>3, <3>1 DEF Records, Seen
  <2>4. ASSUME l.kind = "answer", NEW r \in Askers(l.call), NEW rs \in SUBSET Askers(l.call),
               Patch(l, rs), shown' \in {Announced(msgs', rs \ {r}), Announced(msgs', rs)}
        PROVE  Records' /\ Seen'
    <3>1. rs \subseteq DOMAIN msgs
      BY DEF Askers
    <3>2. Records' /\ \A x : Announced(msgs', x) \in Seq(Message)
      BY <1>1, <2>2, <2>4, <3>1, PatchSeen
    <3> QED BY <1>1, <2>4, <3>2 DEF Seen
  <2> QED BY <1>3, <2>1, <2>3, <2>4 DEF PartOf
<1> QED BY <1>2, <1>3

LEMMA StepRecords == Flow /\ Ends /\ Records /\ Seen /\ [Next]_vars => Records' /\ Seen'
<1> SUFFICES ASSUME Flow, Ends, Records, Seen, [Next]_vars PROVE Records' /\ Seen'
  OBVIOUS
<1>1. CASE HandleLine
  <2>1. printed[handled + 1] \in Lines
    BY <1>1 DEF HandleLine, Flow
  <2>2. PICK l \in Lines : \/ l.kind = "assistant" /\ UpsertAssistant(l)
                           \/ l.kind = "answer" /\ PatchToolResults(l)
                           \/ UNCHANGED <<msgs, msg_map, shown>>
    BY <1>1, <2>1 DEF HandleLine, Result
  <2>3. ended' = ended /\ shown = msgs
    BY <1>1 DEF HandleLine, Ends, Seen
  <2>4. CASE l.kind = "assistant" /\ UpsertAssistant(l)
    <3>1. Records' /\ shown' = msgs'
      BY <2>3, <2>4, UpsertSeen DEF UpsertAssistant
    <3> QED BY <3>1 DEF Records, Seen
  <2>5. CASE l.kind = "answer" /\ PatchToolResults(l)
    <3>1. Askers(l.call) \subseteq DOMAIN msgs
      BY DEF Askers
    <3>2. Records' /\ shown' = msgs'
      BY <2>3, <2>5, <3>1, PatchSeen DEF PatchToolResults
    <3> QED BY <3>2 DEF Records, Seen
  <2>6. CASE UNCHANGED <<msgs, msg_map, shown>>
    BY <2>3, <2>6 DEF Records, Seen
  <2> QED BY <2>2, <2>4, <2>5, <2>6
<1>2. CASE HandleFails
  BY <1>2, FailedSeen
<1>3. CASE ~HandleLine /\ ~HandleFails
  <2>1. UNCHANGED <<msgs, msg_map, shown>>
    BY <1>3 DEF Next, Worker, vars, record, PrintLine, CloseOutput, Complain, Exit, ChildEnds,
                DeadlinePasses, Stop, Reap, Pump, PutSentinel, ReadFails, TimedOut, Get, SkipLine,
                TakeSentinel, GetEmpty, Poll, WaitExit, Finish, FinishFails
  <2>2. ended = "exception" => ended' = "exception"
    BY <1>3 DEF Next, Worker, vars, Ends, PrintLine, CloseOutput, Complain, Exit, ChildEnds,
                DeadlinePasses, Stop, Reap, Pump, PutSentinel, ReadFails, TimedOut, Get, SkipLine,
                TakeSentinel, GetEmpty, Poll, WaitExit, Finish, ErrorsRead, FinishFails
  <2> QED BY <2>1, <2>2 DEF Records, Seen
<1> QED BY <1>1, <1>2, <1>3

LEMMA InitRecords == Init => Records /\ Seen /\ Rest
<1>1. Init => msgs = <<>> /\ shown = <<>> /\ msg_map = [i \in Ids |-> 0]
  BY DEF Init
<1>2. Init => Records /\ Seen
  BY <1>1 DEF Records, Seen
<1>3. Init => Rest
  <2>1. Init => Len(printed) = 0 /\ state = "running"
    BY DEF Init
  <2>2. Init => /\ rc \in BOOLEAN /\ child \in BOOLEAN /\ expired \in BOOLEAN
                /\ out \in BOOLEAN /\ eof \in BOOLEAN /\ broken \in BOOLEAN
    BY Zenon DEF Init
  <2>3. Init => Len(printed) <= MaxLines /\ state \in States
    BY <2>1, StreamAssumption DEF States
  <2> QED BY <2>2, <2>3, Zenon DEF Rest
<1> QED BY <1>2, <1>3

LEMMA RecordsHold == Spec => [](Records /\ Seen)
BY InitRecords, StepRecords, FlowHolds, PTL DEF Spec

(* Unless an exception ended the turn, what the chat was sent last of every *)
(* record is what the record is (EveryChangeIsShown).                       *)
THEOREM ChangesAreSent == Spec => []EveryChangeIsShown
<1>1. Seen => EveryChangeIsShown
  BY DEF Seen, EveryChangeIsShown
<1> QED BY <1>1, RecordsHold, PTL

-----------------------------------------------------------------------------
(* Types *)

LEMMA KillTypes == Rest /\ Kill => /\ rc' \in BOOLEAN /\ out' \in BOOLEAN /\ child' \in BOOLEAN
                                   /\ UNCHANGED printed
<1>1. Kill => rc' \in BOOLEAN /\ UNCHANGED <<child, printed>>
  BY Zenon DEF Kill
<1>2. out \in BOOLEAN /\ Kill => out' \in BOOLEAN
  BY Zenon DEF Kill, LetGo
<1> QED BY <1>1, <1>2 DEF Rest

LEMMA StepRest == Flow /\ Rest /\ [Next]_vars => Rest'
<1> SUFFICES ASSUME Flow, Rest, [Next]_vars PROVE Rest'
  OBVIOUS
<1> USE DEF Rest
<1>1. ASSUME NEW l \in Lines, PrintLine(l) PROVE Rest'
  BY <1>1, StreamAssumption DEF PrintLine, Flow, reader, row
<1>2. CASE CloseOutput \/ Complain
  BY <1>2 DEF CloseOutput, Complain, reader, row
<1>3. CASE Exit
  <2>1. rc' \in BOOLEAN /\ out' \in BOOLEAN
    BY <1>3, Zenon DEF Exit, LetGo
  <2> QED BY <1>3, <2>1 DEF Exit, reader, row
<1>4. CASE ChildEnds
  <2>1. out' \in BOOLEAN
    BY <1>4, Zenon DEF ChildEnds
  <2> QED BY <1>4, <2>1 DEF ChildEnds, reader, row
<1>5. CASE DeadlinePasses \/ Pump \/ PutSentinel \/ ReadFails \/ UNCHANGED vars
  BY <1>5 DEF DeadlinePasses, Pump, PutSentinel, ReadFails, vars, process, reader, row
<1>6. CASE Stop
  BY <1>6 DEF Stop, Cut, States, process, reader
<1>7. CASE Reap
  BY <1>7, KillTypes DEF Reap, Cut, States, reader
<1>8. CASE TimedOut
  BY <1>8, KillTypes DEF TimedOut, Abandon, States, reader
<1>9. CASE WaitExit
  BY <1>9, KillTypes DEF WaitExit, reader, row
<1>10. CASE Get \/ SkipLine \/ TakeSentinel \/ GetEmpty \/ Poll
  BY <1>10 DEF Get, SkipLine, TakeSentinel, GetEmpty, Poll, process, reader, row
<1>11. CASE HandleLine
  <2>1. printed[handled + 1] \in Lines
    BY <1>11 DEF HandleLine, Flow
  <2>2. state' \in States
    BY <1>11, <2>1, LineAssumption
       DEF HandleLine, UpsertAssistant, PatchToolResults, Result, States
  <2> QED BY <1>11, <2>2 DEF HandleLine, process, reader
<1>12. CASE HandleFails \/ FinishFails
  BY <1>12 DEF HandleFails, FinishFails, Abandon, process, reader, States
<1>13. CASE Finish
  BY <1>13 DEF Finish, FinalState, process, reader, States
<1> QED BY <1>1, <1>2, <1>3, <1>4, <1>5, <1>6, <1>7, <1>8, <1>9, <1>10, <1>11, <1>12, <1>13
        DEF Next, Worker

(* Every variable keeps its type, and msg_map leads to the record of an id  *)
(* and back (TypeOK).                                                       *)
THEOREM TypesHold == Spec => []TypeOK
<1>1. Spec => []Rest
  BY InitRecords, StepRest, FlowHolds, PTL DEF Spec
<1>2. Flow /\ Records /\ Seen /\ CutType /\ Rest => TypeOK
  <2> SUFFICES ASSUME Flow, Records, Seen, CutType, Rest PROVE TypeOK
    OBVIOUS
  <2>1. handled \in 0..pumped /\ pumped \in 0..Len(printed)
    BY DEF Flow
  <2>2. {rc, child, out, eof, broken, expired} \subseteq BOOLEAN
    BY Zenon DEF Rest
  <2>3. cut \in [at : 0..handled, as : {"running", "idle", "error"}]
    BY DEF Flow, CutType
  <2> QED BY <2>1, <2>2, <2>3 DEF Flow, Records, Seen, Rest, TypeOK
<1> QED BY <1>1, <1>2, FlowHolds, RecordsHold, OutcomeHolds, PTL

-----------------------------------------------------------------------------
(* The messages against the lines *)

(* Line n, which is l, follows the lines ls and makes them gs. *)
Follows(ls, n, l, gs) ==
  /\ n \in Nat /\ l \in Lines
  /\ DOMAIN ls \subseteq {i \in Nat : i < n}
  /\ \A i \in DOMAIN ls : ls[i] \in Lines /\ gs[i] = ls[i]
  /\ DOMAIN gs = DOMAIN ls \cup {n} /\ gs[n] = l
  /\ IsFiniteSet(DOMAIN ls)

LEMMA Counted ==
  ASSUME NEW S
  PROVE  /\ Log!Cardinality(S) = Cardinality(S)
         /\ \A i : Log!Place(S, i) = Cardinality({j \in S : j <= i})
<1>1. \A T : Log!Cardinality(T) = Cardinality(T)
  BY DEF Log!Cardinality, Cardinality
<1> QED BY <1>1 DEF Log!Place

LEMMA PlaceInRange ==
  ASSUME NEW S, IsFiniteSet(S), S \subseteq Nat, NEW i \in S
  PROVE  Log!Place(S, i) \in 1..Cardinality(S)
<1> DEFINE A == {j \in S : j <= i}
<1>1. A \in SUBSET S /\ i \in A
  OBVIOUS
<1>2. Log!Place(S, i) = Cardinality(A)
  BY Counted
<1> HIDE DEF A
<1>3. IsFiniteSet(A) /\ Cardinality(A) <= Cardinality(S)
  BY <1>1, FS_Subset
<1>4. /\ Cardinality(S) \in Nat
      /\ Cardinality(A) \in Nat /\ Cardinality(A) # 0
  BY <1>1, <1>3, FS_CardinalityType, FS_EmptySet
<1> QED BY <1>2, <1>3, <1>4

LEMMA Places ==
  ASSUME NEW S, IsFiniteSet(S), NEW n \in Nat, S \subseteq {i \in Nat : i < n}
  PROVE  /\ Cardinality(S) \in Nat
         /\ \A i \in S : Log!Place(S, i) \in 1..Cardinality(S)
         /\ \A i \in S : Log!Place(S \cup {n}, i) = Log!Place(S, i)
         /\ Log!Place(S \cup {n}, n) = Cardinality(S) + 1
         /\ Cardinality(S \cup {n}) = Cardinality(S) + 1
<1>1. Cardinality(S) \in Nat
  BY FS_CardinalityType
<1>2. S \subseteq Nat /\ \A i \in S : Log!Place(S, i) \in 1..Cardinality(S)
  <2>1. S \subseteq Nat
    OBVIOUS
  <2> QED BY <2>1, PlaceInRange
<1>3. ASSUME NEW i \in S PROVE Log!Place(S \cup {n}, i) = Log!Place(S, i)
  <2>1. i \in Nat /\ i < n
    OBVIOUS
  <2>2. {j \in S \cup {n} : j <= i} = {j \in S : j <= i}
    BY <2>1
  <2>3. Log!Place(S \cup {n}, i) = Cardinality({j \in S \cup {n} : j <= i})
    BY Counted, Zenon
  <2>4. Log!Place(S, i) = Cardinality({j \in S : j <= i})
    BY Counted, Zenon
  <2> QED BY <2>2, <2>3, <2>4, Zenon
<1>n. \A j \in S : j \in Nat /\ j < n
  OBVIOUS
<1>4. Log!Place(S \cup {n}, n) = Cardinality(S \cup {n})
  <2>1. \A j \in S \cup {n} : j <= n
    BY <1>n
  <2>2. {j \in S \cup {n} : j <= n} = S \cup {n}
    BY <2>1, Zenon
  <2>3. Log!Place(S \cup {n}, n) = Cardinality({j \in S \cup {n} : j <= n})
    BY Counted, Zenon
  <2> QED BY <2>2, <2>3, Zenon
<1>5. Cardinality(S \cup {n}) = Cardinality(S) + 1
  <2>1. n \notin S
    BY <1>n
  <2> QED BY <2>1, FS_AddElement
<1> QED BY <1>1, <1>2, <1>3, <1>4, <1>5

(* Two lines have different places. *)
LEMMA PlacesDiffer ==
  ASSUME NEW S, IsFiniteSet(S), S \subseteq Nat, NEW i \in S, NEW j \in S,
         Log!Place(S, i) = Log!Place(S, j)
  PROVE  i = j
<1>1. ASSUME NEW a \in S, NEW b \in S, a < b PROVE Log!Place(S, a) # Log!Place(S, b)
  <2> DEFINE A == {x \in S : x <= a}
             B == {x \in S : x <= b}
  <2>1. B \in SUBSET S
    OBVIOUS
  <2>2. A \in SUBSET B /\ b \in B /\ b \notin A
    <3>1. \A x \in S : x <= a => x <= b
      BY <1>1
    <3>2. b <= b /\ ~(b <= a)
      BY <1>1
    <3> QED BY <3>1, <3>2, Zenon
  <2>3. Log!Place(S, a) = Cardinality(A) /\ Log!Place(S, b) = Cardinality(B)
    BY Counted
  <2> HIDE DEF A, B
  <2>4. IsFiniteSet(B)
    BY <2>1, FS_Subset
  <2>5. Cardinality(B) # Cardinality(A)
    BY <2>2, <2>4, FS_Subset
  <2> QED BY <2>3, <2>5
<1>2. i \in Nat /\ j \in Nat
  OBVIOUS
<1>3. ~(i < j) /\ ~(j < i)
  BY <1>1
<1> QED BY <1>2, <1>3

(* Each place is that of a line. *)
LEMMA PlacesCover ==
  ASSUME NEW S, IsFiniteSet(S), S \subseteq Nat, NEW p \in 1..Cardinality(S)
  PROVE  \E i \in S : Log!Place(S, i) = p
<1> DEFINE f == [i \in S |-> Log!Place(S, i)]
           T == 1..Cardinality(S)
<1>1. Cardinality(S) \in Nat
  BY FS_CardinalityType
<1>2. ASSUME NEW i \in S PROVE Log!Place(S, i) \in T
  BY PlaceInRange
<1>3. IsFiniteSet(T) /\ Cardinality(T) = Cardinality(S)
  BY <1>1, FS_Interval
<1>4. f \in Injection(S, T)
  <2>1. f \in [S -> T]
    BY <1>2
  <2>2. \A i, j \in S : f[i] = f[j] => i = j
    BY PlacesDiffer
  <2> HIDE DEF f, T
  <2> QED BY <2>1, <2>2 DEF Injection, IsInjective
<1> HIDE DEF f, T
<1>5. f \in Surjection(S, T)
  BY <1>3, <1>4, FS_Injection
<1>6. PICK i \in S : f[i] = p
  BY <1>5 DEF Surjection, T
<1> QED BY <1>6 DEF f

-----------------------------------------------------------------------------

(* A line that is no block of text belongs to no message. *)
LEMMA OtherLine ==
  ASSUME NEW ls, NEW n, NEW l, NEW gs, Follows(ls, n, l, gs), l.kind # "assistant"
  PROVE  /\ Log!Assistant(gs) = Log!Assistant(ls)
         /\ \A i \in Log!Assistant(ls) : Log!Same(gs, i) = Log!Same(ls, i)
         /\ Log!Starts(gs) = Log!Starts(ls)
<1>1. Log!Assistant(gs) = Log!Assistant(ls)
  BY DEF Follows, Log!Assistant
<1>2. \A i \in Log!Assistant(ls) : Log!Same(gs, i) = Log!Same(ls, i)
  BY <1>1 DEF Follows, Log!Same, Log!Assistant
<1> QED BY <1>1, <1>2 DEF Log!Starts

(* A block of another message, or of none. *)
LEMMA NewMessage ==
  ASSUME NEW ls, NEW n, NEW l, NEW gs, Follows(ls, n, l, gs), l.kind = "assistant",
         l.id = NoId \/ \A i \in Log!Assistant(ls) : ls[i].id # l.id
  PROVE  /\ Log!Starts(gs) = Log!Starts(ls) \cup {n}
         /\ Log!Same(gs, n) = {n}
         /\ \A i \in Log!Assistant(ls) : Log!Same(gs, i) = Log!Same(ls, i)
<1>1. Log!Assistant(gs) = Log!Assistant(ls) \cup {n}
  BY DEF Follows, Log!Assistant
<1>2. \A i \in Log!Assistant(ls) : gs[i] = ls[i] /\ i \in Nat /\ i < n
  BY DEF Follows, Log!Assistant
<1>3. \A i \in Log!Assistant(ls) : Log!Same(gs, i) = Log!Same(ls, i)
  BY <1>1, <1>2 DEF Follows, Log!Same
<1>4. Log!Same(gs, n) = {n}
  BY <1>1, <1>2 DEF Follows, Log!Same
<1>5. Log!Starts(gs) = Log!Starts(ls) \cup {n}
  BY <1>1, <1>2, <1>3, <1>4 DEF Follows, Log!Starts
<1> QED BY <1>3, <1>4, <1>5

(* A block of a message that has begun. *)
LEMMA NextBlock ==
  ASSUME NEW ls, NEW n, NEW l, NEW gs, Follows(ls, n, l, gs), l.kind = "assistant", l.id # NoId,
         NEW s \in Log!Starts(ls), ls[s].id = l.id
  PROVE  /\ Log!Starts(gs) = Log!Starts(ls)
         /\ Log!Same(gs, s) = Log!Same(ls, s) \cup {n}
         /\ \A i \in Log!Starts(ls) \ {s} : /\ ls[i].id # l.id
                                            /\ Log!Same(gs, i) = Log!Same(ls, i)
<1>1. Log!Assistant(gs) = Log!Assistant(ls) \cup {n}
  BY DEF Follows, Log!Assistant
<1>2. \A i \in Log!Assistant(ls) : gs[i] = ls[i] /\ i \in Nat /\ i < n
  BY DEF Follows, Log!Assistant
<1>3. s \in Log!Assistant(ls)
  BY DEF Log!Starts
<1>4. \A i \in Log!Assistant(ls) : ls[i].id # l.id => Log!Same(gs, i) = Log!Same(ls, i)
  BY <1>1, <1>2 DEF Follows, Log!Same
<1>5. \A i \in Log!Assistant(ls) : ls[i].id = l.id => Log!Same(gs, i) = Log!Same(ls, i) \cup {n}
  BY <1>1, <1>2 DEF Follows, Log!Same
<1>6. \A i \in Log!Starts(ls) : ls[i].id = l.id => i = s
  BY <1>2 DEF Log!Starts, Log!Same
<1>7. n \notin Log!Starts(gs)
  BY <1>1, <1>2, <1>3 DEF Follows, Log!Starts, Log!Same
<1>8. \A i \in Log!Assistant(ls) : i \in Log!Starts(gs) <=> i \in Log!Starts(ls)
  BY <1>1, <1>2, <1>4, <1>5 DEF Follows, Log!Starts
<1>9. Log!Starts(gs) = Log!Starts(ls)
  BY <1>1, <1>7, <1>8 DEF Log!Starts
<1> QED BY <1>3, <1>4, <1>5, <1>6, <1>9 DEF Log!Starts

-----------------------------------------------------------------------------
(* The texts of a message *)

(* A line that is none of its own leaves a body as it is. *)
LEMMA BodyStays ==
  ASSUME NEW ls, NEW n, NEW l, NEW gs, Follows(ls, n, l, gs),
         NEW own, own \subseteq DOMAIN ls, NEW b, Log!IsBody(b, ls, own)
  PROVE  Log!IsBody(b, gs, own)
<1>1. \A i \in own : gs[i] = ls[i]
  BY DEF Follows
<1>2. Log!Texts(gs, own) = Log!Texts(ls, own)
  BY <1>1 DEF Log!Texts
<1> QED BY <1>1, <1>2 DEF Log!IsBody, Log!Texts

(* A block adds its text, if it has one, at the end. *)
LEMMA BodyGrows ==
  ASSUME NEW ls, NEW n, NEW l, NEW gs, Follows(ls, n, l, gs),
         NEW own, own \subseteq DOMAIN ls,
         NEW T, NEW b \in Seq(T), l.text \in T, Log!IsBody(b, ls, own)
  PROVE  Log!IsBody(IF l.text = NoText THEN b ELSE Append(b, l.text), gs, own \cup {n})
<1> DEFINE old == Log!Texts(ls, own)
           new == Log!Texts(gs, own \cup {n})
<1>1. \A i \in own : gs[i] = ls[i]
  BY DEF Follows
<1>2. gs[n] = l
  BY DEF Follows
<1>3. CASE l.text = NoText
  <2>1. new = old
    BY <1>1, <1>2, <1>3 DEF Log!Texts
  <2>2. \A i \in old : gs[i] = ls[i]
    BY <1>1 DEF Log!Texts
  <2> QED BY <1>3, <2>1, <2>2 DEF Log!IsBody
<1>4. CASE l.text # NoText
  <2> DEFINE c == Append(b, l.text)
  <2>1. new = old \cup {n}
    BY <1>1, <1>2, <1>4 DEF Log!Texts
  <2>2. IsFiniteSet(old) /\ n \in Nat /\ old \subseteq {i \in Nat : i < n}
    <3>1. old \in SUBSET DOMAIN ls
      BY DEF Log!Texts
    <3> QED BY <3>1, FS_Subset DEF Follows
  <2>3. \A i \in old : gs[i] = ls[i]
    BY <1>1 DEF Log!Texts
  <2> HIDE DEF old, new
  <2>4. /\ Cardinality(old) \in Nat
        /\ \A i \in old : Log!Place(old, i) \in 1..Cardinality(old)
        /\ \A i \in old : Log!Place(new, i) = Log!Place(old, i)
        /\ Log!Place(new, n) = Cardinality(old) + 1
        /\ Cardinality(new) = Cardinality(old) + 1
    BY <2>1, <2>2, Places
  <2>5. /\ Log!Cardinality(old) = Cardinality(old)
        /\ Log!Cardinality(new) = Cardinality(new)
    BY Counted
  <2>6. /\ Len(b) = Cardinality(old)
        /\ \A i \in old : b[Log!Place(old, i)] = ls[i].text
    BY <2>5 DEF Log!IsBody, old
  <2>7. Len(c) = Cardinality(new) /\ c[Log!Place(new, n)] = gs[n].text
    BY <1>2, <2>4, <2>6
  <2>8. \A i \in old : c[Log!Place(new, i)] = gs[i].text
    BY <2>3, <2>4, <2>6
  <2>9. Log!IsBody(c, gs, own \cup {n})
    BY <2>1, <2>5, <2>7, <2>8 DEF Log!IsBody, new
  <2> QED BY <1>4, <2>9
<1> QED BY <1>3, <1>4

-----------------------------------------------------------------------------
(* The calls of a message *)

LEMMA StatusStays ==
  ASSUME NEW ls, NEW n, NEW l, NEW gs, Follows(ls, n, l, gs),
         NEW own, own \subseteq DOMAIN ls, NEW k,
         \/ l.kind # "answer"
         \/ l.call # k
         \/ \A i \in Log!Asked(ls, own, k) : ls[i].id = NoId,
         NEW st, Log!IsStatus(st, ls, own, k)
  PROVE  Log!IsStatus(st, gs, own, k)
<1>1. \A i \in DOMAIN ls : gs[i] = ls[i]
  BY DEF Follows
<1>2. Log!Asked(gs, own, k) = Log!Asked(ls, own, k)
  BY <1>1 DEF Log!Asked
<1>3. Log!Answers(gs, own, k) = Log!Answers(ls, own, k)
  <2>1. n \notin Log!Answers(gs, own, k)
    BY <1>1, <1>2 DEF Log!Answers, Log!Asked, Follows
  <2>2. \A j \in DOMAIN ls : j \in Log!Answers(gs, own, k) <=> j \in Log!Answers(ls, own, k)
    <3>1. \A i \in Log!Asked(ls, own, k) : gs[i].id = ls[i].id
      BY <1>1 DEF Log!Asked
    <3> QED BY <1>1, <1>2, <3>1 DEF Log!Answers, Follows
  <2>3. DOMAIN gs = DOMAIN ls \cup {n}
    BY DEF Follows
  <2>4. \A j \in Log!Answers(gs, own, k) : j \in DOMAIN gs
    BY DEF Log!Answers
  <2>5. \A j \in Log!Answers(ls, own, k) : j \in DOMAIN ls
    BY DEF Log!Answers
  <2> QED BY <2>1, <2>2, <2>3, <2>4, <2>5, Zenon
<1>4. \A j \in Log!Answers(ls, own, k) : gs[j] = ls[j]
  BY <1>1 DEF Log!Answers
<1> QED BY <1>2, <1>3, <1>4, Zenon DEF Log!IsStatus

LEMMA StatusAnswered ==
  ASSUME NEW ls, NEW n, NEW l, NEW gs, Follows(ls, n, l, gs), l.kind = "answer",
         NEW own, own \subseteq DOMAIN ls,
         NEW i \in Log!Asked(ls, own, l.call), ls[i].id # NoId
  PROVE  Log!IsStatus(l.status, gs, own, l.call)
<1> DEFINE k == l.call
<1>1. i \in Log!Asked(gs, own, k) /\ gs[i].id # NoId /\ i < n
  BY DEF Log!Asked, Follows
<1>2. n \in Log!Answers(gs, own, k)
  BY <1>1 DEF Log!Answers, Follows
<1>3. \A j \in Log!Answers(gs, own, k) : j <= n
  BY DEF Log!Answers, Follows
<1>4. gs[n].status = l.status
  BY DEF Follows
<1> QED BY <1>2, <1>3, <1>4, Zenon DEF Log!IsStatus

LEMMA StatusNone ==
  ASSUME NEW ls, \A i \in DOMAIN ls : ls[i] \in Lines,
         NEW own, NEW k, NEW st, Log!IsStatus(st, ls, own, k)
  PROVE  st = "none" <=> Log!Asked(ls, own, k) = {}
<1>1. \A j \in Log!Answers(ls, own, k) : ls[j].status \in {"done", "error"}
  BY LineAssumption DEF Log!Answers
<1>2. Log!Asked(ls, own, k) = {} => Log!Answers(ls, own, k) = {}
  BY DEF Log!Answers
<1> QED BY <1>1, <1>2 DEF Log!IsStatus

(* A block that has the call makes it run, if it is not there yet. *)
LEMMA StatusAsked ==
  ASSUME NEW ls, NEW n, NEW l, NEW gs, Follows(ls, n, l, gs), l.kind = "assistant",
         NEW own, own \subseteq DOMAIN ls, NEW k, NEW st, Log!IsStatus(st, ls, own, k)
  PROVE  Log!IsStatus(IF k = l.call /\ st = "none" THEN "running" ELSE st,
                      gs, own \cup {n}, k)
<1> DEFINE old == Log!Asked(ls, own, k)
           new == Log!Asked(gs, own \cup {n}, k)
           to == IF k = l.call /\ st = "none" THEN "running" ELSE st
<1>1. /\ \A i \in DOMAIN ls : gs[i] = ls[i] /\ i \in Nat /\ i < n
      /\ gs[n] = l /\ n \in Nat /\ DOMAIN gs = DOMAIN ls \cup {n}
  BY DEF Follows
<1>2. new = old \cup (IF k = l.call THEN {n} ELSE {})
  BY <1>1 DEF Log!Asked
<1>3. Log!Answers(gs, own \cup {n}, k) = Log!Answers(ls, own, k)
  <2>1. n \notin Log!Answers(gs, own \cup {n}, k)
    BY <1>1 DEF Log!Answers
  <2>2. ASSUME NEW j \in DOMAIN ls
        PROVE  j \in Log!Answers(gs, own \cup {n}, k) <=> j \in Log!Answers(ls, own, k)
    <3>1. gs[j] = ls[j] /\ j \in DOMAIN gs /\ ~(n < j)
      BY <1>1
    <3>2. \A i \in old : gs[i] = ls[i]
      BY <1>1 DEF Log!Asked
    <3>3. (\E i \in new : i < j /\ gs[i].id # NoId) <=> (\E i \in old : i < j /\ ls[i].id # NoId)
      BY <1>2, <3>1, <3>2, Zenon
    <3> QED BY <3>1, <3>3, Zenon DEF Log!Answers
  <2>3. \A j \in Log!Answers(gs, own \cup {n}, k) : j \in DOMAIN gs
    BY DEF Log!Answers
  <2>4. \A j \in Log!Answers(ls, own, k) : j \in DOMAIN ls
    BY DEF Log!Answers
  <2> QED BY <1>1, <2>1, <2>2, <2>3, <2>4, Zenon
<1>4. \A j \in Log!Answers(ls, own, k) : gs[j] = ls[j]
  BY <1>1 DEF Log!Answers
<1>5. st = "none" <=> old = {}
  BY StatusNone DEF Follows
<1>6. old = {} => Log!Answers(ls, own, k) = {}
  BY DEF Log!Answers
<1>7. CASE old = {} /\ k = l.call
  <2>1. new # {} /\ Log!Answers(gs, own \cup {n}, k) = {} /\ to = "running"
    BY <1>2, <1>3, <1>5, <1>6, <1>7
  <2> QED BY <2>1, Zenon DEF Log!IsStatus
<1>8. CASE ~(old = {} /\ k = l.call)
  <2>1. to = st /\ (new = {} <=> old = {})
    BY <1>2, <1>5, <1>8
  <2> QED BY <1>3, <1>4, <2>1, Zenon DEF Log!IsStatus
<1> QED BY <1>7, <1>8

-----------------------------------------------------------------------------
(* A message *)

LEMMA OwnLines ==
  ASSUME NEW ls, NEW i \in Log!Assistant(ls)
  PROVE  Log!Same(ls, i) \subseteq DOMAIN ls /\ \A j \in Log!Same(ls, i) : ls[j].id = ls[i].id
BY DEF Log!Same, Log!Assistant

LEMMA LogMessage ==
  \A m : m \in Log!Message <=>
           m \in Message /\ m.id \in {l.id : l \in {x \in Lines : x.kind = "assistant"}}
<1>1. Status = {"none", "running", "done", "error"}
  BY DEF Status
<1>2. {l.id : l \in {x \in Lines : x.kind = "assistant"}} \subseteq Ids \cup {NoId}
  BY DEF Ids
<1> QED BY <1>1, <1>2 DEF Log!Message, Log!Blocks, Message

(* A line that neither adds to a message nor answers one of its calls. *)
LEMMA MessageStays ==
  ASSUME NEW ls, NEW n, NEW l, NEW gs, Follows(ls, n, l, gs),
         NEW i \in Log!Assistant(ls), Log!Same(gs, i) = Log!Same(ls, i),
         NEW m, Log!IsMessage(m, ls, i),
         l.kind = "answer" => ls[i].id = NoId \/ m.calls[l.call] = "none"
  PROVE  Log!IsMessage(m, gs, i)
<1> DEFINE own == Log!Same(ls, i)
<1>1. own \subseteq DOMAIN ls /\ \A j \in own : ls[j].id = ls[i].id
  BY OwnLines
<1>2. m.id = gs[i].id
  BY DEF Log!IsMessage, Log!Assistant, Follows
<1>3. Log!IsBody(m.body, gs, own)
  <2>1. Log!IsBody(m.body, ls, own)
    BY DEF Log!IsMessage
  <2> HIDE DEF own
  <2> QED BY <1>1, <2>1, BodyStays
<1>4. ASSUME NEW k \in Calls PROVE Log!IsStatus(m.calls[k], gs, own, k)
  <2>1. Log!IsStatus(m.calls[k], ls, own, k)
    BY DEF Log!IsMessage
  <2>2. \/ l.kind # "answer" \/ l.call # k
        \/ \A j \in Log!Asked(ls, own, k) : ls[j].id = NoId
    <3>1. CASE m.calls[k] = "none"
      <4>1. Log!Asked(ls, own, k) = {}
        BY <2>1, <3>1, StatusNone DEF Follows
      <4> QED BY <4>1
    <3>2. CASE ls[i].id = NoId
      BY <1>1, <3>2 DEF Log!Asked
    <3> QED BY <3>1, <3>2
  <2> HIDE DEF own
  <2> QED BY <1>1, <2>1, <2>2, StatusStays
<1> QED BY <1>2, <1>3, <1>4 DEF Log!IsMessage

LEMMA ExtendedParts ==
  ASSUME NEW m \in Message, NEW l
  PROVE  /\ Extended(m, l).id = m.id
         /\ Extended(m, l).body = IF l.text = NoText THEN m.body ELSE Append(m.body, l.text)
         /\ \A k \in Calls : Extended(m, l).calls[k] =
                               IF k = l.call /\ m.calls[k] = "none" THEN "running" ELSE m.calls[k]
<1> DEFINE body == IF l.text = NoText THEN m.body ELSE Append(m.body, l.text)
           calls == [k \in Calls |->
                       IF k = l.call /\ m.calls[k] = "none" THEN "running" ELSE m.calls[k]]
<1>1. m = [id |-> m.id, body |-> m.body, calls |-> m.calls]
  BY MessageType
<1>2. Extended(m, l) = [[m EXCEPT !.body = body] EXCEPT !.calls = calls]
  BY <1>1 DEF Extended
<1> HIDE DEF body, calls
<1>3. Extended(m, l) = [id |-> m.id, body |-> body, calls |-> calls]
  BY <1>1, <1>2
<1> QED BY <1>3 DEF body, calls

(* A block of the message whose lines are own. *)
LEMMA Blocked ==
  ASSUME NEW ls, NEW n, NEW l, NEW gs, Follows(ls, n, l, gs), l.kind = "assistant",
         NEW own, own \subseteq DOMAIN ls,
         NEW m \in Message, Log!IsBody(m.body, ls, own),
         \A k \in Calls : Log!IsStatus(m.calls[k], ls, own, k)
  PROVE  /\ Log!IsBody(Extended(m, l).body, gs, own \cup {n})
         /\ \A k \in Calls : Log!IsStatus(Extended(m, l).calls[k], gs, own \cup {n}, k)
<1>1. m.body \in Seq(Texts) /\ l.text \in Texts
  BY MessageType DEF Texts, Follows
<1>2. Log!IsBody(Extended(m, l).body, gs, own \cup {n})
  <2>1. Log!IsBody(IF l.text = NoText THEN m.body ELSE Append(m.body, l.text), gs, own \cup {n})
    BY <1>1, BodyGrows
  <2> QED BY <2>1, ExtendedParts, Zenon
<1>3. ASSUME NEW k \in Calls
      PROVE  Log!IsStatus(Extended(m, l).calls[k], gs, own \cup {n}, k)
  <2>1. Log!IsStatus(IF k = l.call /\ m.calls[k] = "none" THEN "running" ELSE m.calls[k],
                     gs, own \cup {n}, k)
    BY StatusAsked
  <2> QED BY <2>1, ExtendedParts
<1> QED BY <1>2, <1>3

LEMMA MessageExtended ==
  ASSUME NEW ls, NEW n, NEW l, NEW gs, Follows(ls, n, l, gs), l.kind = "assistant",
         NEW i \in Log!Assistant(ls), Log!Same(gs, i) = Log!Same(ls, i) \cup {n},
         NEW m \in Message, Log!IsMessage(m, ls, i)
  PROVE  Log!IsMessage(Extended(m, l), gs, i)
<1>1. Log!Same(ls, i) \subseteq DOMAIN ls
  BY OwnLines
<1>2. gs[i] = ls[i]
  BY DEF Log!Assistant, Follows
<1>3. Extended(m, l).id = m.id
  BY ExtendedParts
<1>4. /\ m.id = ls[i].id
      /\ Log!IsBody(m.body, ls, Log!Same(ls, i))
      /\ \A k \in Calls : Log!IsStatus(m.calls[k], ls, Log!Same(ls, i), k)
  BY DEF Log!IsMessage
<1>5. /\ Log!IsBody(Extended(m, l).body, gs, Log!Same(ls, i) \cup {n})
      /\ \A k \in Calls : Log!IsStatus(Extended(m, l).calls[k], gs, Log!Same(ls, i) \cup {n}, k)
  BY <1>1, <1>4, Blocked
<1> QED BY <1>2, <1>3, <1>4, <1>5 DEF Log!IsMessage

LEMMA MessageFresh ==
  ASSUME NEW ls, NEW n, NEW l, NEW gs, Follows(ls, n, l, gs), l.kind = "assistant",
         Log!Same(gs, n) = {n}
  PROVE  /\ Log!IsMessage(Extended(Fresh(l), l), gs, n)
         /\ Extended(Fresh(l), l) \in Log!Message
<1>1. l \in Lines /\ gs[n] = l
  BY DEF Follows
<1>2. Fresh(l) \in Message /\ Fresh(l).id = l.id
  BY <1>1, FreshType
<1>3. Fresh(l).body = <<>> /\ \A k \in Calls : Fresh(l).calls[k] = "none"
  BY DEF Fresh
<1>4. Log!IsBody(<<>>, ls, {})
  <2>1. Log!Texts(ls, {}) = {}
    BY DEF Log!Texts
  <2>2. Log!Cardinality({}) = 0
    BY Counted, FS_EmptySet
  <2> QED BY <2>1, <2>2 DEF Log!IsBody
<1>5. \A k : Log!IsStatus("none", ls, {}, k)
  BY DEF Log!IsStatus, Log!Asked
<1>6. /\ Log!IsBody(Extended(Fresh(l), l).body, gs, {} \cup {n})
      /\ \A k \in Calls : Log!IsStatus(Extended(Fresh(l), l).calls[k], gs, {} \cup {n}, k)
  <2>1. {} \subseteq DOMAIN ls
    OBVIOUS
  <2> QED BY <1>2, <1>3, <1>4, <1>5, <2>1, Blocked
<1>7. {} \cup {n} = Log!Same(gs, n)
  OBVIOUS
<1>8. Extended(Fresh(l), l).id = l.id /\ Extended(Fresh(l), l) \in Message
  BY <1>1, <1>2, ExtendedType
<1>9. Log!IsMessage(Extended(Fresh(l), l), gs, n)
  <2> DEFINE m == Extended(Fresh(l), l)
  <2> HIDE DEF m
  <2>1. m.id = gs[n].id
    BY <1>1, <1>8 DEF m
  <2>2. Log!IsBody(m.body, gs, Log!Same(gs, n))
    BY <1>6, <1>7, Zenon DEF m
  <2>3. \A k \in Calls : Log!IsStatus(m.calls[k], gs, Log!Same(gs, n), k)
    BY <1>6, <1>7, Zenon DEF m
  <2>4. Log!IsMessage(m, gs, n)
    BY <2>1, <2>2, <2>3, Zenon DEF Log!IsMessage
  <2> QED BY <2>4 DEF m
<1>10. Extended(Fresh(l), l) \in Log!Message
  BY <1>1, <1>8, LogMessage
<1> QED BY <1>9, <1>10

Patched(m, l) == [m EXCEPT !.calls[l.call] = l.status]

LEMMA MessageAnswered ==
  ASSUME NEW ls, NEW n, NEW l, NEW gs, Follows(ls, n, l, gs), l.kind = "answer",
         NEW i \in Log!Assistant(ls), Log!Same(gs, i) = Log!Same(ls, i), ls[i].id # NoId,
         NEW m \in Log!Message, Log!IsMessage(m, ls, i), m.calls[l.call] # "none"
  PROVE  Log!IsMessage(Patched(m, l), gs, i) /\ Patched(m, l) \in Log!Message
<1> DEFINE own == Log!Same(ls, i)
           calls == [m.calls EXCEPT ![l.call] = l.status]
<1>1. own \subseteq DOMAIN ls /\ \A j \in own : ls[j].id = ls[i].id
  BY OwnLines
<1>2. l.call \in Calls /\ l.status \in {"done", "error"}
  BY LineAssumption DEF Follows
<1>3. m \in Message /\ m.id \in {x.id : x \in {y \in Lines : y.kind = "assistant"}}
  BY LogMessage
<1>4. Patched(m, l) = [id |-> m.id, body |-> m.body, calls |-> calls]
  BY <1>3, MessageType DEF Patched
<1>5. calls \in [Calls -> Status]
  BY <1>2, <1>3, MessageType DEF Status
<1>6. Patched(m, l) \in Log!Message
  <2>1. Patched(m, l) \in Message
    BY <1>3, <1>4, <1>5, MessageType
  <2> QED BY <1>3, <1>4, <2>1, LogMessage
<1>7. m.id = gs[i].id
  BY DEF Log!IsMessage, Log!Assistant, Follows
<1>8. Log!IsBody(m.body, gs, own)
  <2>1. Log!IsBody(m.body, ls, own)
    BY DEF Log!IsMessage
  <2> HIDE DEF own
  <2> QED BY <1>1, <2>1, BodyStays
<1>9. ASSUME NEW k \in Calls PROVE Log!IsStatus(calls[k], gs, own, k)
  <2>1. Log!IsStatus(m.calls[k], ls, own, k)
    BY DEF Log!IsMessage
  <2>2. m.calls \in [Calls -> Status]
    BY <1>3, MessageType
  <2>3. CASE k = l.call
    <3>1. Log!Asked(ls, own, l.call) # {}
      BY <2>1, <2>3, StatusNone DEF Follows
    <3>2. PICK j \in Log!Asked(ls, own, l.call) : ls[j].id # NoId
      BY <1>1, <3>1 DEF Log!Asked
    <3>3. calls[k] = l.status
      BY <2>2, <2>3
    <3> HIDE DEF own, calls
    <3> QED BY <1>1, <2>3, <3>2, <3>3, StatusAnswered
  <2>4. CASE k # l.call
    <3>1. calls[k] = m.calls[k]
      BY <2>2, <2>4
    <3> HIDE DEF own, calls
    <3> QED BY <1>1, <2>1, <2>4, <3>1, StatusStays
  <2> QED BY <2>3, <2>4
<1>10. Log!IsMessage(Patched(m, l), gs, i)
  BY <1>4, <1>7, <1>8, <1>9 DEF Log!IsMessage
<1> QED BY <1>6, <1>10

-----------------------------------------------------------------------------
(* The messages, and the map *)

MapReads(mm, ls) ==
  \A id \in Ids :
    \/ mm[id] = 0 /\ \A i \in Log!Assistant(ls) : ls[i].id # id
    \/ /\ mm[id] # 0
       /\ \E s \in Log!Starts(ls) : ls[s].id = id /\ mm[id] = Log!Place(Log!Starts(ls), s)

LEMMA StartsPlaced ==
  ASSUME NEW ls, NEW n, NEW l, NEW gs, Follows(ls, n, l, gs), NEW ms, Log!Reads(ms, ls)
  PROVE  /\ IsFiniteSet(Log!Starts(ls))
         /\ Log!Starts(ls) \subseteq {i \in Nat : i < n} /\ Log!Starts(ls) \subseteq Nat
         /\ Log!Starts(ls) \subseteq Log!Assistant(ls)
         /\ \A i \in Log!Starts(ls) : gs[i] = ls[i]
         /\ ms \in Seq(Log!Message) /\ Len(ms) = Cardinality(Log!Starts(ls))
         /\ \A i \in Log!Starts(ls) : Log!Place(Log!Starts(ls), i) \in DOMAIN ms
<1> DEFINE S == Log!Starts(ls)
<1>1. S \subseteq Log!Assistant(ls) /\ S \in SUBSET DOMAIN ls
  BY DEF Log!Starts, Log!Assistant
<1>2. \A i \in DOMAIN ls : i \in Nat /\ i < n /\ gs[i] = ls[i]
  BY DEF Follows
<1>3. IsFiniteSet(DOMAIN ls) /\ n \in Nat
  BY DEF Follows
<1>4. ms \in Seq(Log!Message) /\ Len(ms) = Cardinality(S)
  BY Counted DEF Log!Reads
<1> HIDE DEF S
<1>5. IsFiniteSet(S)
  BY <1>1, <1>3, FS_Subset
<1>6. S \subseteq {i \in Nat : i < n}
  BY <1>1, <1>2
<1>7. \A i \in S : Log!Place(S, i) \in 1..Cardinality(S)
  BY <1>3, <1>5, <1>6, Places
<1>8. \A i \in S : Log!Place(S, i) \in DOMAIN ms
  BY <1>4, <1>7
<1>9. S \subseteq Nat /\ \A i \in S : gs[i] = ls[i]
  BY <1>1, <1>2
<1> QED BY <1>1, <1>4, <1>5, <1>6, <1>8, <1>9 DEF S

LEMMA ReadKnown ==
  ASSUME Records, NEW ls, NEW n, NEW l, NEW gs, Follows(ls, n, l, gs), l.kind = "assistant",
         Known(l), Upsert(l), Log!Reads(msgs, ls), MapReads(msg_map, ls)
  PROVE  Log!Reads(msgs', gs) /\ MapReads(msg_map', gs)
<1> DEFINE S == Log!Starts(ls)
           r == msg_map[l.id]
           m == Extended(msgs[r], l)
<1>1. l \in Lines /\ l.id \in Ids /\ l.id # NoId /\ r # 0
  BY FreshType DEF Follows, Known
<1>2. PICK s \in S : ls[s].id = l.id /\ r = Log!Place(S, s)
  BY <1>1 DEF MapReads
<1>3. /\ IsFiniteSet(S) /\ S \subseteq Nat /\ S \subseteq Log!Assistant(ls)
      /\ \A i \in S : gs[i] = ls[i]
      /\ msgs \in Seq(Log!Message) /\ Len(msgs) = Cardinality(S)
      /\ \A i \in S : Log!Place(S, i) \in DOMAIN msgs
  BY StartsPlaced
<1>4. /\ Log!Starts(gs) = S
      /\ Log!Same(gs, s) = Log!Same(ls, s) \cup {n}
      /\ \A i \in S \ {s} : Log!Same(gs, i) = Log!Same(ls, i)
  BY <1>1, <1>2, NextBlock
<1>5. \A i \in S : Log!IsMessage(msgs[Log!Place(S, i)], ls, i)
  BY DEF Log!Reads
<1>6. msgs' = [msgs EXCEPT ![r] = m] /\ UNCHANGED msg_map
  BY DEF Upsert
<1>7. MapReads(msg_map', gs)
  <2>1. Log!Assistant(gs) = Log!Assistant(ls) \cup {n} /\ gs[n] = l
    BY DEF Follows, Log!Assistant
  <2>2. \A i \in Log!Assistant(ls) : gs[i] = ls[i]
    BY DEF Follows, Log!Assistant
  <2>3. \A id \in Ids : msg_map[id] = 0 => id # l.id
    BY <1>1
  <2> HIDE DEF r, m
  <2> QED BY <1>3, <1>4, <1>6, <2>1, <2>2, <2>3 DEF MapReads
<1>8. r \in DOMAIN msgs /\ msgs[r] \in Log!Message
  BY <1>2, <1>3
<1>9. msgs[r] \in Message /\ Log!IsMessage(m, gs, s)
  <2>1. msgs[r] \in Message
    BY <1>8, LogMessage
  <2>2. Log!IsMessage(msgs[r], ls, s) /\ s \in Log!Assistant(ls)
    BY <1>2, <1>3, <1>5
  <2> HIDE DEF r
  <2> QED BY <1>4, <2>1, <2>2, MessageExtended
<1>10. m \in Log!Message
  <2>1. m \in Message /\ m.id = msgs[r].id
    BY <1>1, <1>9, ExtendedType
  <2> HIDE DEF m, r
  <2> QED BY <1>8, <2>1, LogMessage
<1> HIDE DEF m, r
<1>11. msgs' \in Seq(Log!Message) /\ Len(msgs') = Len(msgs)
  BY <1>3, <1>6, <1>8, <1>10
<1>12. ASSUME NEW i \in S PROVE Log!IsMessage(msgs'[Log!Place(S, i)], gs, i)
  <2>1. CASE i = s
    <3>1. msgs'[Log!Place(S, i)] = m
      BY <1>2, <1>3, <1>6, <1>8, <2>1
    <3> QED BY <1>9, <2>1, <3>1
  <2>2. CASE i # s
    <3>1. Log!Place(S, i) # r
      BY <1>2, <1>3, <2>2, PlacesDiffer
    <3>2. msgs'[Log!Place(S, i)] = msgs[Log!Place(S, i)]
      BY <1>3, <1>6, <3>1
    <3>3. Log!IsMessage(msgs[Log!Place(S, i)], ls, i) /\ i \in Log!Assistant(ls)
      BY <1>3, <1>5
    <3>4. Log!Same(gs, i) = Log!Same(ls, i)
      BY <1>4, <2>2
    <3>5. Log!IsMessage(msgs[Log!Place(S, i)], gs, i)
      BY <3>3, <3>4, MessageStays
    <3> QED BY <3>2, <3>5
  <2> QED BY <2>1, <2>2
<1>13. Log!Reads(msgs', gs)
  <2>1. Len(msgs') = Log!Cardinality(S)
    BY <1>3, <1>11, Counted
  <2> QED BY <1>4, <1>11, <1>12, <2>1, Zenon DEF Log!Reads
<1> QED BY <1>7, <1>13

LEMMA ReadNew ==
  ASSUME Records, NEW ls, NEW n, NEW l, NEW gs, Follows(ls, n, l, gs), l.kind = "assistant",
         ~Known(l), Upsert(l), Log!Reads(msgs, ls), MapReads(msg_map, ls)
  PROVE  Log!Reads(msgs', gs) /\ MapReads(msg_map', gs)
<1> DEFINE S == Log!Starts(ls)
           G == S \cup {n}
           m == Extended(Fresh(l), l)
<1>1. l \in Lines /\ (l.id # NoId => l.id \in Ids /\ msg_map[l.id] = 0) /\ n \in Nat /\ gs[n] = l
  BY FreshType DEF Follows, Known
<1>2. l.id = NoId \/ \A i \in Log!Assistant(ls) : ls[i].id # l.id
  BY <1>1 DEF MapReads
<1>3. /\ IsFiniteSet(S) /\ S \subseteq {i \in Nat : i < n} /\ S \subseteq Log!Assistant(ls)
      /\ \A i \in S : gs[i] = ls[i]
      /\ msgs \in Seq(Log!Message) /\ Len(msgs) = Cardinality(S)
      /\ \A i \in S : Log!Place(S, i) \in DOMAIN msgs
  BY StartsPlaced
<1>4. /\ Log!Starts(gs) = G
      /\ Log!Same(gs, n) = {n}
      /\ \A i \in Log!Assistant(ls) : Log!Same(gs, i) = Log!Same(ls, i)
  BY <1>2, NewMessage
<1>5. \A i \in S : Log!IsMessage(msgs[Log!Place(S, i)], ls, i)
  BY DEF Log!Reads
<1>6. /\ msgs' = Append(msgs, m)
      /\ msg_map' = IF l.id = NoId THEN msg_map ELSE [msg_map EXCEPT ![l.id] = Len(msgs')]
  BY DEF Upsert, Mapped
<1>7. Log!IsMessage(m, gs, n) /\ m \in Log!Message
  BY <1>4, MessageFresh
<1> HIDE DEF m
<1>8. /\ Cardinality(S) \in Nat
      /\ \A i \in S : Log!Place(G, i) = Log!Place(S, i)
      /\ Log!Place(G, n) = Cardinality(S) + 1
      /\ Cardinality(G) = Cardinality(S) + 1
  <2> HIDE DEF S
  <2> QED BY <1>1, <1>3, Places
<1>9. /\ msgs' \in Seq(Log!Message) /\ Len(msgs') = Cardinality(G)
      /\ msgs'[Log!Place(G, n)] = m
      /\ \A i \in S : msgs'[Log!Place(G, i)] = msgs[Log!Place(S, i)]
  <2> HIDE DEF S, G
  <2> QED BY <1>3, <1>6, <1>7, <1>8
<1>10. ASSUME NEW i \in G PROVE Log!IsMessage(msgs'[Log!Place(G, i)], gs, i)
  <2>1. CASE i = n
    BY <1>7, <1>9, <2>1
  <2>2. CASE i \in S
    <3>1. Log!IsMessage(msgs[Log!Place(S, i)], ls, i) /\ i \in Log!Assistant(ls)
      BY <1>3, <1>5, <2>2
    <3>2. Log!IsMessage(msgs[Log!Place(S, i)], gs, i)
      BY <1>4, <3>1, MessageStays
    <3> QED BY <1>9, <2>2, <3>2
  <2> QED BY <2>1, <2>2
<1>11. Log!Reads(msgs', gs)
  <2>1. Len(msgs') = Log!Cardinality(G)
    BY <1>9, Counted
  <2> HIDE DEF G
  <2> QED BY <1>4, <1>9, <1>10, <2>1, Zenon DEF Log!Reads
<1>12. MapReads(msg_map', gs)
  <2>1. Log!Assistant(gs) = Log!Assistant(ls) \cup {n}
    BY DEF Follows, Log!Assistant
  <2>2. \A i \in Log!Assistant(ls) : gs[i] = ls[i]
    BY DEF Follows, Log!Assistant
  <2>3. ASSUME NEW id \in Ids
        PROVE  \/ msg_map'[id] = 0 /\ \A i \in Log!Assistant(gs) : gs[i].id # id
               \/ /\ msg_map'[id] # 0
                  /\ \E s \in G : gs[s].id = id /\ msg_map'[id] = Log!Place(G, s)
    <3>1. id # NoId /\ msg_map \in [Ids -> 0..Len(msgs)]
      BY DEF Ids, Records
    <3>2. CASE id = l.id
      <4>1. msg_map'[id] = Log!Place(G, n) /\ msg_map'[id] # 0
        <5> HIDE DEF S, G
        <5> QED BY <1>6, <1>8, <1>9, <3>1, <3>2
      <4> QED BY <1>1, <3>2, <4>1
    <3>3. CASE id # l.id
      <4>1. msg_map'[id] = msg_map[id]
        BY <1>6, <3>1, <3>3
      <4>2. CASE msg_map[id] = 0
        <5>1. \A i \in Log!Assistant(ls) : ls[i].id # id
          BY <4>2 DEF MapReads
        <5> QED BY <1>1, <2>1, <2>2, <3>3, <4>1, <4>2, <5>1
      <4>3. CASE msg_map[id] # 0
        <5>1. PICK s \in S : ls[s].id = id /\ msg_map[id] = Log!Place(S, s)
          BY <4>3 DEF MapReads
        <5>2. s \in G /\ gs[s].id = id /\ msg_map'[id] = Log!Place(G, s)
          BY <1>3, <1>8, <4>1, <5>1
        <5> QED BY <4>1, <4>3, <5>2
      <4> QED BY <4>2, <4>3
    <3> QED BY <3>2, <3>3
  <2> HIDE DEF G
  <2> QED BY <1>4, <2>3 DEF MapReads
<1> QED BY <1>11, <1>12

(* An answer that has come to the records rs of those that asked. *)
LEMMA PartAnswer ==
  ASSUME Records, NEW ls, NEW n, NEW l, NEW gs, Follows(ls, n, l, gs), l.kind = "answer",
         NEW rs \in SUBSET Askers(l.call), Patch(l, rs),
         Log!Reads(msgs, ls), MapReads(msg_map, ls)
  PROVE  /\ Log!Torn(msgs', ls, gs)
         /\ rs = Askers(l.call) => Log!Reads(msgs', gs) /\ MapReads(msg_map', gs)
<1> DEFINE S == Log!Starts(ls)
           R(i) == Log!Place(S, i)
<1>1. /\ IsFiniteSet(S) /\ S \subseteq Nat /\ S \subseteq Log!Assistant(ls)
      /\ \A i \in S : gs[i] = ls[i]
      /\ msgs \in Seq(Log!Message) /\ Len(msgs) = Cardinality(S)
      /\ \A i \in S : R(i) \in DOMAIN msgs
  BY StartsPlaced
<1>2. /\ Log!Starts(gs) = S /\ Log!Assistant(gs) = Log!Assistant(ls)
      /\ \A i \in Log!Assistant(ls) : Log!Same(gs, i) = Log!Same(ls, i)
  BY <1>1, OtherLine
<1>3. \A i \in S : Log!IsMessage(msgs[R(i)], ls, i) /\ msgs[R(i)].id = ls[i].id
  BY DEF Log!Reads, Log!IsMessage
<1>4. /\ msgs' = [r \in DOMAIN msgs |->
                    IF r \in rs THEN Patched(msgs[r], l) ELSE msgs[r]]
      /\ UNCHANGED msg_map
  BY DEF Patch, Patched
<1>5. MapReads(msg_map', gs)
  <2>1. \A i \in Log!Assistant(ls) : gs[i] = ls[i]
    BY DEF Follows, Log!Assistant
  <2> HIDE DEF S
  <2> QED BY <1>1, <1>2, <1>4, <2>1 DEF MapReads, S
<1>6. ASSUME NEW i \in S
      PROVE  R(i) \in Askers(l.call) <=> ls[i].id # NoId /\ msgs[R(i)].calls[l.call] # "none"
  <2>1. ASSUME R(i) \in Askers(l.call) PROVE ls[i].id # NoId
    <3>1. PICK id \in Ids : msg_map[id] = R(i)
      BY <2>1 DEF Askers
    <3>2. R(i) # 0
      BY <1>1
    <3>3. PICK s \in S : ls[s].id = id /\ msg_map[id] = R(s)
      BY <3>1, <3>2 DEF MapReads
    <3>4. s = i
      <4> HIDE DEF S
      <4> QED BY <1>1, <3>1, <3>3, PlacesDiffer
    <3> QED BY <3>3, <3>4 DEF Ids
  <2>2. ASSUME ls[i].id # NoId PROVE \E id \in Ids : msg_map[id] = R(i)
    <3>1. ls[i].id \in Ids
      <4>1. ls[i] \in Lines /\ ls[i].kind = "assistant"
        BY <1>1 DEF Follows, Log!Assistant
      <4> QED BY <2>2, <4>1 DEF Ids
    <3>2. msg_map[ls[i].id] = R(i)
      <4> HIDE DEF R
      <4> QED BY <1>1, <1>3, <2>2 DEF Records
    <3> QED BY <3>1, <3>2
  <2>3. R(i) \in DOMAIN msgs
    BY <1>1
  <2> HIDE DEF R
  <2> QED BY <2>1, <2>2, <2>3 DEF Askers
<1>7. ASSUME NEW i \in S
      PROVE  /\ R(i) \in rs => Log!IsMessage(msgs'[R(i)], gs, i)
             /\ R(i) \notin rs => Log!IsMessage(msgs'[R(i)], ls, i)
             /\ R(i) \notin Askers(l.call) => Log!IsMessage(msgs'[R(i)], gs, i)
  <2>1. /\ i \in Log!Assistant(ls) /\ Log!Same(gs, i) = Log!Same(ls, i)
        /\ R(i) \in DOMAIN msgs /\ msgs[R(i)] \in Log!Message
        /\ Log!IsMessage(msgs[R(i)], ls, i)
    BY <1>1, <1>2, <1>3
  <2>2. ASSUME R(i) \in rs PROVE Log!IsMessage(msgs'[R(i)], gs, i)
    <3>1. msgs'[R(i)] = Patched(msgs[R(i)], l)
      BY <1>4, <2>1, <2>2
    <3>2. ls[i].id # NoId /\ msgs[R(i)].calls[l.call] # "none"
      BY <1>6, <2>2
    <3> HIDE DEF R
    <3>3. Log!IsMessage(Patched(msgs[R(i)], l), gs, i)
      BY <2>1, <3>2, MessageAnswered
    <3> QED BY <3>1, <3>3
  <2>3. ASSUME R(i) \notin rs PROVE msgs'[R(i)] = msgs[R(i)]
    BY <1>4, <2>1, <2>3
  <2>4. ASSUME R(i) \notin Askers(l.call) PROVE Log!IsMessage(msgs'[R(i)], gs, i)
    <3>1. msgs'[R(i)] = msgs[R(i)]
      BY <2>3, <2>4
    <3>2. ls[i].id = NoId \/ msgs[R(i)].calls[l.call] = "none"
      BY <1>6, <2>4
    <3> HIDE DEF R
    <3>3. Log!IsMessage(msgs[R(i)], gs, i)
      BY <2>1, <3>2, MessageStays
    <3> QED BY <3>1, <3>3
  <2> QED BY <2>1, <2>2, <2>3, <2>4
<1>8. msgs' \in Seq(Log!Message) /\ Len(msgs') = Len(msgs)
  <2>1. ASSUME NEW r \in DOMAIN msgs PROVE msgs'[r] \in Log!Message
    <3>1. msgs[r] \in Log!Message
      BY <1>1
    <3>2. Patched(msgs[r], l) \in Log!Message
      <4>1. l.call \in Calls /\ l.status \in {"done", "error"}
        BY LineAssumption DEF Follows
      <4>2. /\ msgs[r] \in Message
            /\ msgs[r].id \in {x.id : x \in {y \in Lines : y.kind = "assistant"}}
        BY <3>1, LogMessage
      <4>3. Patched(msgs[r], l) = [id |-> msgs[r].id, body |-> msgs[r].body,
                                   calls |-> [msgs[r].calls EXCEPT ![l.call] = l.status]]
        BY <4>2, MessageType DEF Patched
      <4>4. [msgs[r].calls EXCEPT ![l.call] = l.status] \in [Calls -> Status]
        BY <4>1, <4>2, MessageType DEF Status
      <4>5. Patched(msgs[r], l) \in Message /\ Patched(msgs[r], l).id = msgs[r].id
        BY <4>2, <4>3, <4>4, MessageType
      <4> QED BY <4>2, <4>5, LogMessage
    <3> QED BY <1>4, <3>1, <3>2
  <2>2. DOMAIN msgs' = DOMAIN msgs
    BY <1>4
  <2> QED BY <1>1, <1>4, <2>1, <2>2
<1>9. Len(msgs') = Log!Cardinality(S)
  BY <1>1, <1>8, Counted
<1>10. ASSUME rs = Askers(l.call) PROVE Log!Reads(msgs', gs)
  <2>1. \A i \in S : Log!IsMessage(msgs'[R(i)], gs, i)
    BY <1>7, <1>10
  <2> HIDE DEF S
  <2> QED BY <1>2, <1>8, <1>9, <2>1, Zenon DEF Log!Reads
<1>11. Log!Torn(msgs', ls, gs)
  <2>1. \A i \in S : Log!IsMessage(msgs'[R(i)], gs, i) \/ Log!IsMessage(msgs'[R(i)], ls, i)
    BY <1>7
  <2>2. Log!Starts(gs) = S /\ Log!Starts(ls) = S
    BY <1>2
  <2> HIDE DEF S
  <2>3. Len(msgs') \in {Log!Cardinality(Log!Starts(ls)), Log!Cardinality(Log!Starts(gs))}
    BY <1>9, <2>2
  <2>4. \A i \in Log!Starts(gs) :
          \/ Log!IsMessage(msgs'[Log!Place(Log!Starts(gs), i)], gs, i)
          \/ /\ i \in Log!Starts(ls)
             /\ Log!IsMessage(msgs'[Log!Place(Log!Starts(gs), i)], ls, i)
    BY <2>1, <2>2
  <2> QED BY <1>8, <2>3, <2>4, Zenon DEF Log!Torn
<1> QED BY <1>5, <1>10, <1>11

LEMMA ReadOther ==
  ASSUME Records, NEW ls, NEW n, NEW l, NEW gs, Follows(ls, n, l, gs),
         l.kind \notin {"assistant", "answer"},
         UNCHANGED <<msgs, msg_map>>, Log!Reads(msgs, ls), MapReads(msg_map, ls)
  PROVE  Log!Reads(msgs', gs) /\ MapReads(msg_map', gs)
<1> DEFINE S == Log!Starts(ls)
<1>1. /\ Log!Starts(gs) = S /\ Log!Assistant(gs) = Log!Assistant(ls)
      /\ \A i \in Log!Assistant(ls) : Log!Same(gs, i) = Log!Same(ls, i)
  BY OtherLine
<1>2. S \subseteq Log!Assistant(ls) /\ \A i \in Log!Assistant(ls) : gs[i] = ls[i]
  BY DEF Log!Starts, Log!Assistant, Follows
<1>3. ASSUME NEW i \in S PROVE Log!IsMessage(msgs[Log!Place(S, i)], gs, i)
  <2>1. Log!IsMessage(msgs[Log!Place(S, i)], ls, i)
    BY DEF Log!Reads
  <2> HIDE DEF S
  <2> QED BY <1>1, <1>2, <2>1, MessageStays
<1>4. Log!Reads(msgs, gs)
  <2>1. msgs \in Seq(Log!Message) /\ Len(msgs) = Log!Cardinality(S)
    BY DEF Log!Reads
  <2> HIDE DEF S
  <2> QED BY <1>1, <1>3, <2>1, Zenon DEF Log!Reads
<1>5. MapReads(msg_map, gs)
  <2> HIDE DEF S
  <2> QED BY <1>1, <1>2 DEF MapReads, S
<1> QED BY <1>4, <1>5

-----------------------------------------------------------------------------
(* Every step *)

Handled == SubSeq(printed, 1, handled)
Read == worker # "over" => Log!Reads(msgs, Handled) /\ MapReads(msg_map, Handled)

LEMMA TakesTheNextLine ==
  ASSUME Flow, handled < pumped
  PROVE  Follows(Handled, handled + 1, printed[handled + 1], SubSeq(printed, 1, handled + 1))
<1> DEFINE n == handled + 1
           ls == SubSeq(printed, 1, handled)
           gs == SubSeq(printed, 1, n)
<1>1. n \in Nat /\ n \in 1..Len(printed) /\ printed[n] \in Lines
  BY DEF Flow
<1>2. /\ DOMAIN ls = 1..handled /\ \A i \in 1..handled : ls[i] = printed[i]
      /\ DOMAIN gs = 1..n /\ \A i \in 1..n : gs[i] = printed[i]
  BY <1>1 DEF Flow
<1>3. \A i \in 1..handled : printed[i] \in Lines
  BY DEF Flow
<1>4. 1..n = 1..handled \cup {n} /\ 1..handled \subseteq {i \in Nat : i < n}
  BY <1>1 DEF Flow
<1>5. IsFiniteSet(1..handled)
  BY FS_Interval DEF Flow
<1> HIDE DEF n, ls, gs
<1>6. Follows(ls, n, printed[n], gs)
  BY <1>1, <1>2, <1>3, <1>4, <1>5 DEF Follows
<1> QED BY <1>6 DEF n, ls, gs, Handled

LEMMA LineIsRead ==
  ASSUME Flow, Records, Read, HandleLine
  PROVE  /\ Log!Reads(msgs', SubSeq(printed, 1, handled + 1))
         /\ MapReads(msg_map', SubSeq(printed, 1, handled + 1))
         /\ handled' = handled + 1 /\ handled < Len(printed) /\ UNCHANGED printed
         /\ worker # "over" /\ worker' # "over"
<1> DEFINE n == handled + 1
           l == printed[n]
           gs == SubSeq(printed, 1, n)
<1>1. /\ handled' = n /\ handled < pumped /\ UNCHANGED printed
      /\ worker = "get" /\ worker' = "top"
      /\ \/ l.kind = "assistant" /\ UpsertAssistant(l)
         \/ l.kind = "answer" /\ PatchToolResults(l)
         \/ l.kind \notin {"assistant", "answer"} /\ UNCHANGED <<msgs, msg_map>>
  BY DEF HandleLine, process, Result
<1>2. Follows(Handled, n, l, gs)
  BY <1>1, TakesTheNextLine
<1>3. Log!Reads(msgs, Handled) /\ MapReads(msg_map, Handled)
  BY <1>1 DEF Read
<1>4. handled < Len(printed)
  BY <1>1 DEF Flow
<1> HIDE DEF n, l, gs
<1>5. Log!Reads(msgs', gs) /\ MapReads(msg_map', gs)
  <2>1. CASE l.kind = "assistant" /\ UpsertAssistant(l) /\ Known(l)
    BY <1>2, <1>3, <2>1, ReadKnown DEF UpsertAssistant
  <2>2. CASE l.kind = "assistant" /\ UpsertAssistant(l) /\ ~Known(l)
    BY <1>2, <1>3, <2>2, ReadNew DEF UpsertAssistant
  <2>3. CASE l.kind = "answer" /\ PatchToolResults(l)
    BY <1>2, <1>3, <2>3, PartAnswer DEF PatchToolResults
  <2>4. CASE l.kind \notin {"assistant", "answer"} /\ UNCHANGED <<msgs, msg_map>>
    BY <1>2, <1>3, <2>4, ReadOther
  <2> QED BY <1>1, <2>1, <2>2, <2>3, <2>4
<1> QED BY <1>1, <1>4, <1>5 DEF n, l, gs

(* A reading is torn nowhere. *)
LEMMA ReadsTorn ==
  ASSUME NEW ms, NEW ls, NEW gs, Log!Reads(ms, gs)
  PROVE  Log!Torn(ms, ls, gs)
BY Zenon DEF Log!Reads, Log!Torn

(* An exception leaves the records before the line, behind it or in it. *)
LEMMA LineIsTorn ==
  ASSUME Flow, Ends, Records, Read, HandleFails
  PROVE  \/ UNCHANGED msgs
         \/ /\ handled < Len(printed)
            /\ Log!Torn(msgs', SubSeq(printed, 1, handled), SubSeq(printed, 1, handled + 1))
<1> DEFINE n == handled + 1
           l == printed[n]
           gs == SubSeq(printed, 1, n)
<1> SUFFICES ASSUME msgs' # msgs
             PROVE  handled < Len(printed) /\ Log!Torn(msgs', Handled, gs)
  BY DEF Handled
<1>1. handled < pumped /\ PartOf(l) /\ worker = "get"
  BY DEF HandleFails
<1>2. Follows(Handled, n, l, gs) /\ handled < Len(printed)
  BY <1>1, TakesTheNextLine DEF Flow
<1>3. Log!Reads(msgs, Handled) /\ MapReads(msg_map, Handled)
  BY <1>1 DEF Read
<1> HIDE DEF n, l, gs
<1>4. CASE l.kind = "assistant" /\ Upsert(l)
  <2>1. Log!Reads(msgs', gs)
    BY <1>2, <1>3, <1>4, ReadKnown, ReadNew
  <2> QED BY <1>2, <2>1, ReadsTorn
<1>5. ASSUME l.kind = "answer", NEW rs \in SUBSET Askers(l.call), Patch(l, rs)
      PROVE  Log!Torn(msgs', Handled, gs)
  BY <1>2, <1>3, <1>5, PartAnswer
<1>6. \/ l.kind = "assistant" /\ Upsert(l)
      \/ l.kind = "answer" /\ \E rs \in SUBSET Askers(l.call) : Patch(l, rs)
  BY <1>1 DEF PartOf
<1> QED BY <1>2, <1>4, <1>5, <1>6

(* The other steps leave the record, and print at most. *)
LEMMA OtherSteps ==
  ASSUME Flow, Ends, Next, ~HandleLine
  PROVE  /\ UNCHANGED handled
         /\ HandleFails => worker = "get" /\ worker' = "over" /\ UNCHANGED printed
         /\ ~HandleFails => UNCHANGED <<msgs, msg_map>>
         /\ \/ UNCHANGED printed
            \/ /\ \E l \in Lines : printed' = Append(printed, l)
               /\ UNCHANGED worker
         /\ worker = "over" => worker' = "over"
BY DEF Next, Worker, record, process, reader, PrintLine, CloseOutput, Complain, Exit, ChildEnds,
       DeadlinePasses, Stop, Reap, Kill, Abandon, Pump, PutSentinel, ReadFails, TimedOut, Get,
       SkipLine, HandleFails, TakeSentinel, GetEmpty, Poll, WaitExit, Finish, ErrorsRead, FinishFails

LEMMA InitRead == Init => Read
<1> SUFFICES ASSUME Init PROVE Read
  OBVIOUS
<1>1. Handled = <<>> /\ msgs = <<>> /\ msg_map = [i \in Ids |-> 0]
  BY DEF Init, Handled
<1>2. Log!Assistant(<<>>) = {} /\ Log!Starts(<<>>) = {}
  BY DEF Log!Assistant, Log!Starts
<1>3. Log!Cardinality({}) = 0
  BY Counted, FS_EmptySet
<1>4. Log!Reads(<<>>, <<>>)
  <2>1. <<>> \in Seq(Log!Message) /\ Len(<<>>) = Log!Cardinality(Log!Starts(<<>>))
    <3>1. Len(<<>>) = 0 /\ <<>> \in Seq(Log!Message)
      OBVIOUS
    <3> QED BY <1>2, <1>3, <3>1, Zenon
  <2> QED BY <1>2, <2>1, Zenon DEF Log!Reads
<1>5. MapReads(msg_map, <<>>)
  BY <1>1, <1>2 DEF MapReads
<1> QED BY <1>1, <1>4, <1>5 DEF Read

LEMMA StepRead == Flow /\ Ends /\ Records /\ Read /\ [Next]_vars => Read'
<1> SUFFICES ASSUME Flow, Ends, Records, Read, [Next]_vars PROVE Read'
  OBVIOUS
<1>1. CASE HandleLine
  <2>1. Handled' = SubSeq(printed, 1, handled + 1)
    BY <1>1, LineIsRead DEF Handled
  <2> QED BY <1>1, <2>1, LineIsRead DEF Read
<1>2. CASE ~HandleLine /\ worker' # "over"
  <2>1. /\ UNCHANGED <<handled, msgs, msg_map>> /\ worker # "over"
        /\ UNCHANGED printed \/ \E l \in Lines : printed' = Append(printed, l)
    BY <1>2, OtherSteps DEF vars, record, process
  <2>2. Handled' = Handled
    <3>1. CASE UNCHANGED printed
      BY <2>1, <3>1 DEF Handled
    <3>2. ASSUME NEW l \in Lines, printed' = Append(printed, l) PROVE Handled' = Handled
      <4>1. /\ printed \in Seq(Lines) /\ handled \in Nat /\ handled <= Len(printed)
            /\ handled' = handled
        BY <2>1 DEF Flow
      <4>2. SubSeq(Append(printed, l), 1, handled) = SubSeq(printed, 1, handled)
        BY <4>1
      <4> QED BY <3>2, <4>1, <4>2 DEF Handled
    <3> QED BY <2>1, <3>1, <3>2
  <2> QED BY <2>1, <2>2 DEF Read
<1>3. CASE worker' = "over"
  BY <1>3 DEF Read
<1> QED BY <1>1, <1>2, <1>3

LEMMA StepLog == Flow /\ Ends /\ Records /\ Read /\ [Next]_vars => [Log!Next]_Log!vars
<1> SUFFICES ASSUME Flow, Ends, Records, Read, [Next]_vars PROVE [Log!Next]_Log!vars
  OBVIOUS
<1>1. CASE HandleLine
  <2>1. Log!Note
    BY <1>1, LineIsRead DEF Log!Note
  <2> QED BY <2>1 DEF Log!Next
<1>2. CASE Next /\ HandleFails
  <2>1. /\ worker # "over" /\ worker' = "over" /\ UNCHANGED <<printed, handled>>
    BY <1>2 DEF HandleFails, Abandon, process
  <2>2. Log!Tear \/ Log!Close
    BY <1>2, <2>1, LineIsTorn DEF Log!Tear, Log!Close
  <2> QED BY <2>2 DEF Log!Next
<1>3. CASE Next /\ ~HandleLine /\ ~HandleFails
  <2>1. UNCHANGED <<handled, msgs>>
    BY <1>3, OtherSteps
  <2>2. CASE ~UNCHANGED printed
    <3>1. Log!Say
      BY <1>3, <2>1, <2>2, OtherSteps DEF Log!Say
    <3> QED BY <3>1 DEF Log!Next
  <2>3. CASE UNCHANGED printed /\ worker' = "over"
    <3>1. Log!Close
      BY <2>1, <2>3 DEF Log!Close
    <3> QED BY <3>1 DEF Log!Next
  <2>4. CASE UNCHANGED printed /\ worker' # "over"
    BY <1>3, <2>1, <2>4, OtherSteps DEF Log!vars
  <2> QED BY <2>2, <2>3, <2>4
<1>4. CASE UNCHANGED vars
  BY <1>4 DEF vars, record, process, Log!vars
<1> QED BY <1>1, <1>2, <1>3, <1>4

(* The messages of a turn are at every moment the reading of the lines      *)
(* handled so far, whatever the CLI prints; an exception tears at most one  *)
(* more line (ImplementsLog).                                               *)
THEOREM StreamImplementsLog == Spec => ImplementsLog
<1>1. Init => Log!Init
  BY DEF Init, Log!Init
<1>2. Spec => []Read
  BY InitRead, StepRead, FlowHolds, RecordsHold, PTL DEF Spec
<1> QED BY <1>1, <1>2, StepLog, FlowHolds, RecordsHold, PTL DEF Spec, ImplementsLog, Log!Spec

-----------------------------------------------------------------------------
(* The reading is one *)

(* Two sequences that agree at the place of every member of S. *)
LEMMA SameAtPlaces ==
  ASSUME NEW S, IsFiniteSet(S), S \subseteq Nat,
         NEW U, NEW a \in Seq(U), NEW b \in Seq(U),
         Len(a) = Cardinality(S), Len(b) = Cardinality(S),
         \A i \in S : a[Log!Place(S, i)] = b[Log!Place(S, i)]
  PROVE  a = b
<1>1. \A p \in 1..Cardinality(S) : a[p] = b[p]
  BY PlacesCover
<1> QED BY <1>1

LEMMA OneStatus ==
  ASSUME NEW ls, NEW own, own \subseteq DOMAIN ls, DOMAIN ls \subseteq Nat, NEW k,
         NEW st, Log!IsStatus(st, ls, own, k), NEW to, Log!IsStatus(to, ls, own, k)
  PROVE  st = to
<1>1. Log!Answers(ls, own, k) # {} => Log!Asked(ls, own, k) # {}
  BY DEF Log!Answers
<1>2. Log!Answers(ls, own, k) \subseteq Nat
  BY DEF Log!Answers
<1> QED BY <1>1, <1>2 DEF Log!IsStatus

(* A prefix of what the CLI printed has one reading: TurnLog leaves the     *)
(* program no choice of what it stores.                                     *)
THEOREM ReadingIsUnique ==
  ASSUME NEW ls \in Seq(Lines), NEW ms, Log!Reads(ms, ls), NEW ns, Log!Reads(ns, ls)
  PROVE  ms = ns
<1> DEFINE S == Log!Starts(ls)
<1>1. DOMAIN ls \subseteq Nat /\ IsFiniteSet(DOMAIN ls)
  <2>1. DOMAIN ls = 1..Len(ls) /\ Len(ls) \in Nat
    OBVIOUS
  <2> QED BY <2>1, FS_Interval
<1>2. S \in SUBSET DOMAIN ls /\ S \subseteq Log!Assistant(ls)
  BY DEF Log!Starts, Log!Assistant
<1>3. IsFiniteSet(S) /\ S \subseteq Nat
  <2> HIDE DEF S
  <2> QED BY <1>1, <1>2, FS_Subset
<1>4. /\ ms \in Seq(Log!Message) /\ ns \in Seq(Log!Message)
      /\ Len(ms) = Cardinality(S) /\ Len(ns) = Cardinality(S)
      /\ \A i \in S : /\ Log!IsMessage(ms[Log!Place(S, i)], ls, i)
                      /\ Log!IsMessage(ns[Log!Place(S, i)], ls, i)
  BY Counted DEF Log!Reads
<1>5. ASSUME NEW i \in S, NEW m \in Log!Message, Log!IsMessage(m, ls, i),
             NEW o \in Log!Message, Log!IsMessage(o, ls, i)
      PROVE  m = o
  <2> DEFINE own == Log!Same(ls, i)
             X == Log!Texts(ls, own)
  <2>1. own \subseteq DOMAIN ls
    BY <1>2, OwnLines
  <2>2. /\ m \in Message /\ o \in Message
        /\ m = [id |-> m.id, body |-> m.body, calls |-> m.calls]
        /\ o = [id |-> o.id, body |-> o.body, calls |-> o.calls]
        /\ m.body \in Seq(Texts) /\ o.body \in Seq(Texts)
        /\ m.calls \in [Calls -> Status]
        /\ o.calls \in [Calls -> Status]
    BY <1>5, LogMessage, MessageType
  <2>3. m.id = o.id
    BY <1>5 DEF Log!IsMessage
  <2>4. m.body = o.body
    <3>1. X \in SUBSET DOMAIN ls
      BY <2>1 DEF Log!Texts
    <3>2. /\ Len(m.body) = Cardinality(X) /\ Len(o.body) = Cardinality(X)
          /\ \A j \in X : m.body[Log!Place(X, j)] = o.body[Log!Place(X, j)]
      BY <1>5, Counted DEF Log!IsMessage, Log!IsBody
    <3> HIDE DEF X
    <3>3. IsFiniteSet(X) /\ X \subseteq Nat
      BY <1>1, <3>1, FS_Subset
    <3> QED BY <2>2, <3>2, <3>3, SameAtPlaces
  <2>5. ASSUME NEW k \in Calls PROVE m.calls[k] = o.calls[k]
    <3>1. Log!IsStatus(m.calls[k], ls, own, k) /\ Log!IsStatus(o.calls[k], ls, own, k)
      BY <1>5 DEF Log!IsMessage
    <3> HIDE DEF own
    <3> QED BY <1>1, <2>1, <3>1, OneStatus
  <2>6. m.calls = o.calls
    BY <2>2, <2>5
  <2> QED BY <2>2, <2>3, <2>4, <2>6
<1>6. \A i \in S : ms[Log!Place(S, i)] = ns[Log!Place(S, i)]
  <2> SUFFICES ASSUME NEW i \in S PROVE ms[Log!Place(S, i)] = ns[Log!Place(S, i)]
    OBVIOUS
  <2>1. \A p \in 1..Cardinality(S) : ms[p] \in Log!Message /\ ns[p] \in Log!Message
    BY <1>4
  <2>2. Log!Place(S, i) \in 1..Cardinality(S)
    <3> HIDE DEF S
    <3> QED BY <1>3, PlaceInRange
  <2> QED BY <1>4, <1>5, <2>1, <2>2
<1> HIDE DEF S
<1>7. /\ ms \in Seq(Log!Message) /\ ns \in Seq(Log!Message)
      /\ Len(ms) = Cardinality(S) /\ Len(ns) = Cardinality(S)
  BY <1>4
<1> QED BY <1>3, <1>6, <1>7, SameAtPlaces

=============================================================================
