----------------------------- MODULE RunnerStream ------------------------------
(***************************************************************************)
(* One turn from Popen to the end of its supervision: the CLI prints lines  *)
(* into the stdout pipe, a thread moves them to a queue, the worker takes   *)
(* them from it against a deadline, keeps the turn's messages up to date    *)
(* and announces every change; the stderr pipe is read at the end only.     *)
(*                                                                         *)
(* pipe and queue are the parts of printed between the counters:            *)
(* queue = printed[handled + 1 .. pumped], pipe = printed[pumped + 1 ..].   *)
(***************************************************************************)
EXTENDS Naturals, Sequences, FiniteSets

CONSTANTS Lines,      \* records: kind, and id/text/call or call/status or status
          NoId, NoText, NoCall,
          Calls,
          MaxLines,   \* bound on the lines the CLI prints
          PipeSize    \* lines that fit in the stdout pipe

ASSUME StreamAssumption ==
  /\ MaxLines \in Nat
  /\ PipeSize \in Nat \ {0}
  /\ NoCall \notin Calls
ASSUME LineAssumption ==
  \A l \in Lines :
    \/ l.kind = "assistant" /\ l.call \in Calls \cup {NoCall}
    \/ l.kind = "answer" /\ l.call \in Calls /\ l.status \in {"done", "error"}
    \/ l.kind = "result" /\ l.status \in {"done", "error"}

VARIABLES
  cli,       \* the CLI process: up, stuck on a full stderr, exited
  rc,        \* its exit status is 0
  child,     \* a process it started still holds its stderr
  out,       \* somebody has its stdout open
  printed,   \* the lines it has written to stdout, those that say something
  pumped,    \* lines the reader thread has put in the queue
  eof,       \* and the sentinel after them
  broken,    \* it was an exception that ended the reader thread
  worker,    \* where the worker is
  ended,     \* how its loop ended
  expired,   \* the deadline has passed
  handled,   \* lines it has taken and committed
  msgs,      \* claudoo.message records of the turn
  msg_map,   \* message id -> position in msgs, 0 if it has none
  shown,     \* the last announcement of each record
  state,     \* session.state
  cut        \* history: the last stop or reaping, the lines handled before it

process == <<cli, rc, child, out, printed>>
reader == <<pumped, eof, broken>>
record == <<handled, msgs, msg_map, shown>>
row == <<state, cut>>
vars == <<process, reader, worker, ended, expired, record, row>>

Ids == {l.id : l \in {x \in Lines : x.kind = "assistant"}} \ {NoId}

Init ==
  /\ cli = "up" /\ rc = TRUE /\ child = TRUE
  /\ out = TRUE /\ printed = <<>>
  /\ pumped = 0 /\ eof = FALSE /\ broken = FALSE
  /\ worker = "top" /\ ended = "no" /\ expired = FALSE
  /\ handled = 0 /\ msgs = <<>> /\ msg_map = [i \in Ids |-> 0] /\ shown = <<>>
  /\ state = "running" /\ cut = [at |-> 0, as |-> "running"]

-----------------------------------------------------------------------------
(* The CLI, its children, and time *)

PrintLine(l) ==
  /\ cli = "up"
  /\ out
  /\ Len(printed) < MaxLines
  /\ Len(printed) - pumped < PipeSize
  /\ printed' = Append(printed, l)
  /\ UNCHANGED <<cli, rc, child, out, reader, worker, ended, expired, record, row>>

(* It can close its stdout and live on. *)
CloseOutput ==
  /\ cli = "up"
  /\ out
  /\ out' = FALSE
  /\ UNCHANGED <<cli, rc, child, printed, reader, worker, ended, expired, record, row>>

(* It fills the stderr pipe: the write does not return, as nobody reads the *)
(* pipe before the CLI has exited.                                          *)
Complain ==
  /\ cli = "up"
  /\ cli' = "stuck"
  /\ UNCHANGED <<rc, child, out, printed, reader, worker, ended, expired, record, row>>

(* What a process that is gone had open, one that it started may have too. *)
LetGo == out' \in IF child THEN {out, FALSE} ELSE {FALSE}

(* By itself, or by a signal it has been sent. *)
Exit ==
  /\ cli # "exited"
  /\ cli' = "exited"
  /\ rc' \in (IF cli = "up" THEN BOOLEAN ELSE {FALSE})
  /\ LetGo
  /\ UNCHANGED <<child, printed, reader, worker, ended, expired, record, row>>

ChildEnds ==
  /\ child
  /\ child' = FALSE
  /\ out' = (out /\ cli # "exited")
  /\ UNCHANGED <<cli, rc, printed, reader, worker, ended, expired, record, row>>

DeadlinePasses ==
  /\ ~expired
  /\ expired' = TRUE
  /\ UNCHANGED <<process, reader, worker, ended, record, row>>

DropKill == cli      \* mutant: the supervision ends and the CLI goes on
Killed == "exited"

Kill ==
  /\ cli' = Killed
  /\ rc' = (cli = "exited" /\ rc)
  /\ LetGo
  /\ UNCHANGED <<child, printed>>

-----------------------------------------------------------------------------
(* action_stop and the reaper cron, on the row of this turn *)

Cut(as) == state' = as /\ cut' = [at |-> handled, as |-> as]

(* SIGTERM: the CLI exits when, and if, it likes. *)
Stop ==
  /\ Cut("idle")
  /\ UNCHANGED <<process, reader, worker, ended, expired, record>>

(* Its cutoff lies behind the worker's deadline. *)
Reap ==
  /\ state = "running"
  /\ expired
  /\ Kill
  /\ Cut("error")
  /\ UNCHANGED <<reader, worker, ended, expired, record>>

-----------------------------------------------------------------------------
(* The reader thread, _pump *)

Pump ==
  /\ ~eof
  /\ pumped < Len(printed)
  /\ pumped' = pumped + 1
  /\ UNCHANGED <<process, eof, broken, worker, ended, expired, record, row>>

AtExit == cli = "exited"      \* mutant: the sentinel follows the process, not the pipe
AtEof == ~out /\ pumped = Len(printed)

PutSentinel ==
  /\ ~eof
  /\ AtEof
  /\ eof' = TRUE
  /\ UNCHANGED <<process, pumped, broken, worker, ended, expired, record, row>>

(* The finally clause puts it as well when bytes cannot be decoded: nobody  *)
(* reads what is left in the pipe.                                          *)
ReadFails ==
  /\ ~eof
  /\ eof' = TRUE
  /\ broken' = TRUE
  /\ UNCHANGED <<process, pumped, worker, ended, expired, record, row>>

-----------------------------------------------------------------------------
(* _handle_event *)

MapLost(i, r) == [msg_map EXCEPT ![i] = 0]      \* mutant: a record is not found again
Mapped(i, r) == [msg_map EXCEPT ![i] = r]

Replaced(m, l) ==             \* mutant: the last text block is the body
  [m EXCEPT !.body = IF l.text = NoText THEN @ ELSE <<l.text>>,
            !.calls = [k \in Calls |-> IF k = l.call /\ @[k] = "none" THEN "running" ELSE @[k]]]
Extended(m, l) ==
  [m EXCEPT !.body = IF l.text = NoText THEN @ ELSE Append(@, l.text),
            !.calls = [k \in Calls |-> IF k = l.call /\ @[k] = "none" THEN "running" ELSE @[k]]]

Fresh(l) == [id |-> l.id, body |-> <<>>, calls |-> [k \in Calls |-> "none"]]

Known(l) == l.id # NoId /\ msg_map[l.id] # 0

(* The record the line is written to, created if there is none. *)
Written(l) == IF Known(l) THEN msg_map[l.id] ELSE Len(msgs) + 1

Upsert(l) ==
  IF Known(l)
  THEN /\ msgs' = [msgs EXCEPT ![msg_map[l.id]] = Extended(@, l)]
       /\ UNCHANGED msg_map
  ELSE /\ msgs' = Append(msgs, Extended(Fresh(l), l))
       /\ msg_map' = IF l.id = NoId THEN msg_map ELSE Mapped(l.id, Len(msgs'))

(* The records of msg_map that have the call. *)
Askers(k) == {r \in DOMAIN msgs : msgs[r].calls[k] # "none" /\ \E i \in Ids : msg_map[i] = r}

Patch(l, rs) ==
  /\ msgs' = [r \in DOMAIN msgs |->
                IF r \in rs THEN [msgs[r] EXCEPT !.calls[l.call] = l.status] ELSE msgs[r]]
  /\ UNCHANGED msg_map

(* _emit_message, of the records rs *)
Unannounced(ms, rs) == shown      \* mutant: changes are stored and not sent
Announced(ms, rs) == [r \in DOMAIN ms |-> IF r \in rs THEN ms[r] ELSE shown[r]]

UpsertAssistant(l) ==
  /\ Upsert(l)
  /\ shown' = Announced(msgs', {Written(l)})
  /\ UNCHANGED state

PatchToolResults(l) ==
  /\ Patch(l, Askers(l.call))
  /\ shown' = Announced(msgs', Askers(l.call))
  /\ UNCHANGED state

Result(l) ==
  /\ state' = l.status
  /\ UNCHANGED <<msgs, msg_map, shown>>

(* How far a line has come that an exception interrupts.  Records are       *)
(* patched one after the other, each is written before it is announced.     *)
PartOf(l) ==
  \/ UNCHANGED <<msgs, msg_map, shown>>
  \/ /\ l.kind = "assistant"
     /\ Upsert(l)
     /\ shown' \in {shown, Announced(msgs', {Written(l)})}
  \/ /\ l.kind = "answer"
     /\ \E r \in Askers(l.call) :
          LET rs == {a \in Askers(l.call) : a <= r}
          IN Patch(l, rs) /\ shown' \in {Announced(msgs', rs \ {r}), Announced(msgs', rs)}

-----------------------------------------------------------------------------
(* The loop of _execute, and the except branch of _run_worker *)

Never == FALSE       \* mutant: a silent CLI is waited for
Expired == expired

(* The except branch: what the transaction has done is not rolled back and  *)
(* goes with the error, unless it is the database that cannot commit.       *)
Abandon ==
  /\ worker' = "over"
  /\ state' \in {state, "error"}
  /\ UNCHANGED cut

TimedOut ==
  /\ worker = "top"
  /\ Expired
  /\ Kill
  /\ ended' = "timeout"
  /\ Abandon
  /\ UNCHANGED <<reader, expired, record>>

Get ==
  /\ worker = "top"
  /\ ~Expired
  /\ worker' = "get"
  /\ UNCHANGED <<process, reader, ended, expired, record, row>>

HandleLine ==
  /\ worker = "get"
  /\ handled < pumped
  /\ LET l == printed[handled + 1] IN
       \/ l.kind = "assistant" /\ UpsertAssistant(l)
       \/ l.kind = "answer" /\ PatchToolResults(l)
       \/ l.kind = "result" /\ Result(l)
  /\ handled' = handled + 1
  /\ worker' = "top"
  /\ UNCHANGED <<process, reader, ended, expired, cut>>

(* A blank line, one that is no JSON, or an event of another type.  They    *)
(* are not in printed, so that no bound applies to them, and can be         *)
(* anywhere in the queue.                                                   *)
SkipLine ==
  /\ worker = "get"
  /\ worker' = "top"
  /\ UNCHANGED <<process, reader, ended, expired, record, row>>

(* An exception while a line is handled; the CLI is not told. *)
HandleFails ==
  /\ worker = "get"
  /\ ended' = "exception"
  /\ Abandon
  /\ IF handled < pumped /\ state' = "error"
     THEN PartOf(printed[handled + 1])
     ELSE UNCHANGED <<msgs, msg_map, shown>>
  /\ UNCHANGED <<process, reader, expired, handled>>

TakeSentinel ==
  /\ worker = "get"
  /\ handled = pumped
  /\ eof
  /\ worker' = "wait"
  /\ ended' = "sentinel"
  /\ UNCHANGED <<process, reader, expired, record, row>>

(* queue.Empty, and then the state of the process. *)
GetEmpty ==
  /\ worker = "get"
  /\ handled = pumped
  /\ ~eof
  /\ worker' = "poll"
  /\ UNCHANGED <<process, reader, ended, expired, record, row>>

Poll ==
  /\ worker = "poll"
  /\ IF cli = "exited" THEN worker' = "wait" /\ ended' = "poll"
                       ELSE worker' = "top" /\ UNCHANGED ended
  /\ UNCHANGED <<process, reader, expired, record, row>>

(* proc.wait, with a kill after ten seconds. *)
WaitExit ==
  /\ worker = "wait"
  /\ Kill
  /\ worker' = "stderr"
  /\ UNCHANGED <<reader, ended, expired, record, row>>

ByExitStatus == IF rc THEN "done" ELSE "error"    \* mutant: the result event is overridden
FinalState == IF state # "running" THEN state ELSE IF rc THEN "done" ELSE "error"

(* proc.stderr.read() returns when nobody holds the pipe any more. *)
ErrorsRead == worker = "stderr" /\ cli = "exited" /\ ~child

Finish ==
  /\ ErrorsRead
  /\ worker' = "over"
  /\ state' = FinalState
  /\ UNCHANGED <<process, reader, ended, expired, record, cut>>

(* Bytes in stderr that cannot be decoded, a conflict with a stop. *)
FinishFails ==
  /\ ErrorsRead
  /\ ended' = "exception"
  /\ Abandon
  /\ UNCHANGED <<process, reader, expired, record>>

Worker ==
  \/ TimedOut \/ Get \/ HandleLine \/ SkipLine \/ HandleFails
  \/ TakeSentinel \/ GetEmpty \/ Poll \/ WaitExit \/ Finish \/ FinishFails

Next ==
  \/ \E l \in Lines : PrintLine(l)
  \/ CloseOutput \/ Complain \/ Exit \/ ChildEnds \/ DeadlinePasses
  \/ Stop \/ Reap
  \/ Pump \/ PutSentinel \/ ReadFails
  \/ Worker

Spec == Init /\ [][Next]_vars

(* The threads of the server run and time passes.  Nothing is assumed of    *)
(* the CLI, of what it starts, of users or of the cron.                     *)
Fairness == WF_vars(Worker) /\ WF_vars(Pump \/ PutSentinel) /\ WF_vars(DeadlinePasses)
FairSpec == Spec /\ Fairness

-----------------------------------------------------------------------------
(* Properties *)

States == {"idle", "running", "done", "error"}
(* Records of claudoo.message. *)
Message == [id : Ids \cup {NoId}, body : Seq({l.text : l \in {x \in Lines : x.kind = "assistant"}}),
            calls : [Calls -> {"none", "running", "done", "error"}]]

(* Every variable has its type, the counters are in order, and msg_map      *)
(* leads from an id to its record and back (_execute, _upsert_assistant).   *)
TypeOK ==
  /\ cli \in {"up", "stuck", "exited"}
  /\ {rc, child, out, eof, broken, expired} \subseteq BOOLEAN
  /\ printed \in Seq(Lines) /\ Len(printed) <= MaxLines
  /\ handled \in 0..pumped /\ pumped \in 0..Len(printed)
  /\ worker \in {"top", "get", "poll", "wait", "stderr", "over"}
  /\ ended \in {"no", "sentinel", "poll", "timeout", "exception"}
  /\ msgs \in Seq(Message) /\ shown \in Seq(Message)
  /\ msg_map \in [Ids -> 0..Len(msgs)]
  /\ \A r \in DOMAIN msgs : msgs[r].id # NoId => msg_map[msgs[r].id] = r
  /\ state \in States
  /\ cut \in [at : 0..handled, as : {"running", "idle", "error"}]

(* When the loop has met the sentinel, nothing the CLI has printed is left  *)
(* in the pipe or in the queue, and it can print no more: unless it was an  *)
(* exception in the reader thread that put it (_pump, _execute).            *)
ReadToTheEnd == ended = "sentinel" /\ ~broken => handled = Len(printed) /\ ~out

(* Unless an exception ends the turn, the chat has been sent the present    *)
(* content of every record, whatever line changed it last (_emit_message).  *)
EveryChangeIsShown == ended # "exception" => shown = msgs

(* The result lines that came after the last stop or reaping. *)
Results == {i \in DOMAIN printed : printed[i].kind = "result" /\ i > cut.at}
LastResult == CHOOSE i \in Results : \A j \in Results : j <= i

(* A turn read to its end is done or failed as the last result event said,  *)
(* if no stop and no reaping came after it; then it stays idle or failed.   *)
(* The exit status counts only if there was neither (_execute, action_stop).*)
OutcomeIsTheClis ==
  worker = "over" /\ ended = "sentinel" /\ ~broken =>
    state = IF Results # {} THEN printed[LastResult].status
            ELSE IF cut.as # "running" THEN cut.as
            ELSE IF rc THEN "done" ELSE "error"

(* The CLI outlives the supervision of its turn only if an exception ended  *)
(* it: not after the deadline, nor when it has closed its output and stays, *)
(* nor when the reader thread fails (_execute).                             *)
OnlyExceptionsLeaveTheCli == worker = "over" /\ cli # "exited" => ended = "exception"

(* The supervision ends: of a CLI that is silent, that writes blank lines   *)
(* for ever, that ignores a stop, that closes its output and stays or is    *)
(* stuck on the stderr nobody reads.  Only a process that it leaves behind  *)
(* with its stderr open can hold it, in the final read (_execute).          *)
StreamEnds == <>(worker = "over") \/ <>[](worker = "stderr" /\ cli = "exited" /\ child)

=============================================================================
