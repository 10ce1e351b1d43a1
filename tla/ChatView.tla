-------------------------------- MODULE ChatView --------------------------------
(***************************************************************************)
(* What the user sees of a turn: the worker commits the CLI's output and    *)
(* sends bus events with each commit, the browser's service hands every     *)
(* event to the callback registered for its conversation, and the chat      *)
(* component mixes these events with the replies to its own calls, which    *)
(* come back in any order.                                                  *)
(*                                                                         *)
(* An answer is its version: how many of the CLI's messages it holds.  The  *)
(* user's own bubbles and the error bubbles are left out.                   *)
(***************************************************************************)
EXTENDS Naturals, Sequences

CONSTANTS Sessions,
          NoSession,
          Existing,       \* conversations there are at the beginning
          Turns,
          SessionOf,      \* turn -> its conversation
          Views,          \* instances of the chat component in one browser page
          NoView,
          Versions,       \* bound on the updates of one answer
          MaxActs,        \* bound on what users do
          OneAtATime,     \* the user waits for replies, and for the turn to be over
          CanStop,        \* the user may press Stop
          CanLose         \* a worker may be lost, calls may fail on the network

ASSUME SessionAssumption == /\ NoSession \notin Sessions
                            /\ Existing \subseteq Sessions
                            /\ SessionOf \in [Turns -> Sessions]
                            /\ NoView \notin Views
ASSUME BoundAssumption == Versions \in Nat /\ MaxActs \in Nat
ASSUME ModeAssumption == {OneAtATime, CanStop, CanLose} \subseteq BOOLEAN

VARIABLES
  known,      \* conversations in the database
  state,      \* claudoo.session.state
  phase,      \* what the worker of a turn is doing
  version,    \* the turn's answer in the database
  bus,        \* events committed and not delivered yet
  handlers,   \* conversation -> the view whose callback is registered
  life,       \* a view: not yet there, in onWillStart, mounted, gone
  current,    \* currentId
  shown,      \* messages: the version of each answer in the list, 0 for none
  running,
  artifact,   \* the conversation whose chart is on the right
  calls,      \* calls in flight, with the reply once the server has made it
  acts        \* acts of the user so far

database == <<known, state, phase, version>>
screen == <<life, current, shown, running, artifact>>
vars == <<database, screen, bus, handlers, calls, acts>>

States == {"idle", "running", "done", "error"}
Ended == {"over", "lost"}
Working == {"starting", "reading", "closing"}
InConversation(s) == {t \in Turns : SessionOf[t] = s}
Blank == [t \in Turns |-> 0]

Init ==
  /\ known = Existing
  /\ state = [s \in Sessions |-> "idle"]
  /\ phase = [t \in Turns |-> "none"]
  /\ version = Blank
  /\ bus = <<>>
  /\ handlers = [s \in Sessions |-> NoView]
  /\ life = [v \in Views |-> "none"]
  /\ current = [v \in Views |-> NoSession]
  /\ shown = [v \in Views |-> Blank]
  /\ running = [v \in Views |-> FALSE]
  /\ artifact = [v \in Views |-> NoSession]
  /\ calls = {}
  /\ acts = 0

-----------------------------------------------------------------------------
(* The worker: each step is a transaction, its events leave with the commit. *)

Event(kind, t) == [kind |-> kind, turn |-> t, version |-> version'[t]]
Emit(kind, t) == bus' = Append(bus, Event(kind, t))
WorkerOnly == UNCHANGED <<known, screen, handlers, calls, acts>>

Start(t) ==
  /\ phase[t] = "starting"
  /\ phase' = [phase EXCEPT ![t] = "reading"]
  /\ UNCHANGED <<state, version>>
  /\ Emit("started", t)
  /\ WorkerOnly

(* _upsert_assistant and _patch_tool_results *)
Update(t) ==
  /\ phase[t] = "reading"
  /\ version[t] < Versions
  /\ version' = [version EXCEPT ![t] = @ + 1]
  /\ UNCHANGED <<state, phase>>
  /\ Emit("message", t)
  /\ WorkerOnly

EarlyUpdate(t) ==        \* mutant: the event is sent before the commit, which fails
  /\ phase[t] = "reading"
  /\ version[t] < Versions
  /\ bus' = Append(bus, [kind |-> "message", turn |-> t, version |-> version[t] + 1])
  /\ phase' = [phase EXCEPT ![t] = "lost"]
  /\ UNCHANGED <<state, version>>
  /\ WorkerOnly
Message(t) == Update(t)

Settle(t, to, outcome) ==
  /\ phase' = [phase EXCEPT ![t] = to]
  /\ state' = [state EXCEPT ![SessionOf[t]] = outcome]
  /\ UNCHANGED version
  /\ Emit(outcome, t)
  /\ WorkerOnly

Result(t) ==
  /\ phase[t] = "reading"
  /\ \E outcome \in {"done", "error"} : Settle(t, "closing", outcome)

(* The end of _execute: whoever's the state is, an event only if it runs. *)
Finish(t) ==
  /\ phase[t] \in {"reading", "closing"}
  /\ state[SessionOf[t]] = "running"
  /\ \E outcome \in {"done", "error"} : Settle(t, "over", outcome)

FinishQuietly(t) ==
  /\ phase[t] \in {"reading", "closing"}
  /\ state[SessionOf[t]] # "running"
  /\ phase' = [phase EXCEPT ![t] = "over"]
  /\ UNCHANGED <<state, version, bus>>
  /\ WorkerOnly

(* The handler of _run_worker: no CLI, the timeout, any other exception. *)
Fail(t) ==
  /\ phase[t] \in Working
  /\ Settle(t, "over", "error")

(* A process that dies, or a commit that met a concurrent update. *)
Lose(t) ==
  /\ CanLose
  /\ phase[t] \in Working
  /\ phase' = [phase EXCEPT ![t] = "lost"]
  /\ UNCHANGED <<state, version, bus>>
  /\ WorkerOnly

(* _cron_reap_stale, long after: it sends nothing. *)
Reap(s) ==
  /\ state[s] = "running"
  /\ \A t \in InConversation(s) : phase[t] \notin Working
  /\ state' = [state EXCEPT ![s] = "error"]
  /\ UNCHANGED <<known, phase, version, bus, screen, handlers, calls, acts>>

-----------------------------------------------------------------------------
(* Calls and their replies *)

NoReply == [ok |-> FALSE, session |-> NoSession, state |-> "idle", answers |-> Blank]
Call(v, kind, s) ==
  [view |-> v, kind |-> kind, session |-> s, made |-> acts, served |-> FALSE, reply |-> NoReply]
InFlight(v) == {c \in calls : c.view = v}

(* The messages of a conversation, as its transaction reads them. *)
Answers(s) == [t \in Turns |-> IF SessionOf[t] = s THEN version[t] ELSE 0]
Serve(c, s) ==
  calls' = (calls \ {c}) \cup
    {[c EXCEPT !.served = TRUE,
               !.reply = [ok |-> TRUE, session |-> s,
                          state |-> IF s = NoSession THEN "idle" ELSE state[s],
                          answers |-> Answers(s)]]}
ServeError(c) == calls' = (calls \ {c}) \cup {[c EXCEPT !.served = TRUE]}

ServeRead(c) ==
  /\ ~c.served
  /\ c.kind \in {"open", "reload"}
  /\ Serve(c, c.session)
  /\ UNCHANGED <<database, screen, bus, handlers, acts>>

(* sessions: the newest conversation, if there is one. *)
ServeList(c) ==
  /\ ~c.served
  /\ c.kind = "list"
  /\ \E s \in IF known = {} THEN {NoSession} ELSE known : Serve(c, s)
  /\ UNCHANGED <<database, screen, bus, handlers, acts>>

ServeNew(c) ==
  /\ ~c.served
  /\ c.kind = "new"
  /\ \E s \in Sessions \ known : Serve(c, s) /\ known' = known \cup {s}
  /\ UNCHANGED <<state, phase, version, screen, bus, handlers, acts>>

(* send_message, in one step: how its transaction meets others is           *)
(* SessionRuns' subject.                                                    *)
ServeSend(c) ==
  /\ ~c.served
  /\ c.kind = "send"
  /\ \/ /\ state[c.session] # "running"
        /\ \E t \in InConversation(c.session) :
             /\ phase[t] = "none"
             /\ phase' = [phase EXCEPT ![t] = "starting"]
        /\ state' = [state EXCEPT ![c.session] = "running"]
        /\ Serve(c, c.session)
     \/ ServeError(c) /\ UNCHANGED <<state, phase>>
  /\ UNCHANGED <<known, version, screen, bus, handlers, acts>>

ServeStop(c) ==
  /\ ~c.served
  /\ c.kind = "stop"
  /\ state' = [state EXCEPT ![c.session] = "idle"]
  /\ Serve(c, c.session)
  /\ UNCHANGED <<known, phase, version, screen, bus, handlers, acts>>

-----------------------------------------------------------------------------
(* The component *)

(* The synchronous part of _openSession, up to its await: the callback of   *)
(* the conversation left is removed, whoever registered it.                 *)
KeepOld(v, s) == [handlers EXCEPT ![s] = v]     \* mutant: no unregister
Registered(v, s) ==
  [x \in Sessions |-> IF x = s THEN v ELSE IF x = current[v] THEN NoView ELSE handlers[x]]
OpenSession(v, s, rest) ==
  /\ current' = [current EXCEPT ![v] = s]
  /\ handlers' = Registered(v, s)
  /\ calls' = rest \cup {Call(v, "open", s)}

Patient(v) == OneAtATime => /\ InFlight(v) = {}
                            /\ bus = <<>>
                            /\ \A t \in Turns : phase[t] \notin Working
Act == acts < MaxActs /\ acts' = acts + 1

(* The action is opened: onWillStart, which ends with the first conversation. *)
Enter(v) ==
  /\ life[v] = "none"
  /\ \A w \in Views : life[w] \in {"none", "gone"}
  /\ Act
  /\ life' = [life EXCEPT ![v] = "starting"]
  /\ calls' = calls \cup {Call(v, "list", NoSession)}
  /\ UNCHANGED <<database, current, shown, running, artifact, bus, handlers>>

(* onWillUnmount, which a view that never was mounted does not have; what   *)
(* it awaits goes on.                                                       *)
Leave(v) ==
  /\ life[v] \in {"starting", "mounted"}
  /\ Act
  /\ life' = [life EXCEPT ![v] = "gone"]
  /\ handlers' = [s \in Sessions |-> IF life[v] = "mounted" /\ s = current[v] THEN NoView
                                     ELSE handlers[s]]
  /\ UNCHANGED <<database, current, shown, running, artifact, bus, calls>>

Open(v, s) ==
  /\ life[v] = "mounted"
  /\ s \in known
  /\ Patient(v)
  /\ Act
  /\ OpenSession(v, s, calls)
  /\ UNCHANGED <<database, life, shown, running, artifact, bus>>

NewSession(v) ==
  /\ life[v] = "mounted"
  /\ Sessions # known
  /\ Patient(v)
  /\ Act
  /\ calls' = calls \cup {Call(v, "new", NoSession)}
  /\ UNCHANGED <<database, screen, bus, handlers>>

(* The composer sends only when nothing runs. *)
OnSend(v) ==
  /\ life[v] = "mounted"
  /\ current[v] # NoSession
  /\ ~running[v]
  /\ Patient(v)
  /\ Act
  /\ running' = [running EXCEPT ![v] = TRUE]
  /\ calls' = calls \cup {Call(v, "send", current[v])}
  /\ UNCHANGED <<database, life, current, shown, artifact, bus, handlers>>

OnStop(v) ==
  /\ CanStop
  /\ life[v] = "mounted"
  /\ running[v]
  /\ current[v] # NoSession
  /\ Act
  /\ calls' = calls \cup {Call(v, "stop", current[v])}
  /\ UNCHANGED <<database, screen, bus, handlers>>

-----------------------------------------------------------------------------
(* What comes back after an await *)

Newest(s, answers) == IF \E t \in Turns : answers[t] > 0 THEN s ELSE NoSession

ReplyOpen(c) ==
  /\ c.kind = "open"
  /\ shown' = [shown EXCEPT ![c.view] = c.reply.answers]
  /\ running' = [running EXCEPT ![c.view] = c.reply.state = "running"]
  /\ artifact' = [artifact EXCEPT ![c.view] = Newest(c.session, c.reply.answers)]
  /\ life' = [life EXCEPT ![c.view] = IF @ = "starting" THEN "mounted" ELSE @]
  /\ calls' = calls \ {c}
  /\ UNCHANGED <<current, handlers>>

ReplyReload(c) ==
  /\ c.kind = "reload"
  /\ shown' = [shown EXCEPT ![c.view] = c.reply.answers]
  /\ calls' = calls \ {c}
  /\ UNCHANGED <<life, current, running, artifact, handlers>>

(* _initChat and _newSession *)
ReplySession(c) ==
  /\ \/ c.kind = "new"
     \/ c.kind = "list" /\ c.reply.session # NoSession
  /\ OpenSession(c.view, c.reply.session, calls \ {c})
  /\ UNCHANGED <<life, shown, running, artifact>>

ReplyNone(c) ==
  /\ c.kind = "list"
  /\ c.reply.session = NoSession
  /\ calls' = (calls \ {c}) \cup {Call(c.view, "new", NoSession)}
  /\ UNCHANGED <<screen, handlers>>

ReplySend(c) ==
  /\ c.kind = "send"
  /\ calls' = calls \ {c}
  /\ UNCHANGED <<screen, handlers>>

(* onStop's last line: whichever conversation is open by now. *)
ReplyStop(c) ==
  /\ c.kind = "stop"
  /\ running' = [running EXCEPT ![c.view] = FALSE]
  /\ calls' = calls \ {c}
  /\ UNCHANGED <<life, current, shown, artifact, handlers>>

Reply(c) ==
  /\ c.served /\ c.reply.ok
  /\ \/ ReplyOpen(c) \/ ReplyReload(c) \/ ReplySession(c) \/ ReplyNone(c)
     \/ ReplySend(c) \/ ReplyStop(c)
  /\ UNCHANGED <<database, bus, acts>>

(* A call that fails, on the server or on the way: only onSend catches it.  *)
ReplyError(c) ==
  /\ (c.served /\ ~c.reply.ok) \/ CanLose
  /\ running' = [running EXCEPT ![c.view] = IF c.kind = "send" THEN FALSE ELSE @]
  /\ life' = [life EXCEPT ![c.view] = 
               IF @ = "starting" /\ c.kind \in {"list", "new", "open"} THEN "gone" ELSE @]
  /\ calls' = calls \ {c}
  /\ UNCHANGED <<database, current, shown, artifact, bus, handlers, acts>>

(* _upsertMessage *)
OnlyNew(items, e) ==       \* mutant: a message that is there already is kept
  [items EXCEPT ![e.turn] = IF @ = 0 THEN e.version ELSE @]
AppendText(items, e) ==    \* mutant: the body is added to the one shown
  [items EXCEPT ![e.turn] = @ + e.version]
Upsert(items, e) == [items EXCEPT ![e.turn] = e.version]

ForgetsError(e, was) ==    \* mutant: "error" does not end the turn on the screen
  IF e.kind \in {"message", "error"} THEN was ELSE e.kind = "started"
Runs(e, was) == IF e.kind = "message" THEN was ELSE e.kind = "started"

(* The service looks the callback up when the event arrives: _onBusEvent. *)
OnBusEvent(e, v) ==
  /\ running' = [running EXCEPT ![v] = Runs(e, @)]
  /\ shown' = [shown EXCEPT ![v] = IF e.kind = "message" THEN Upsert(@, e) ELSE @]
  /\ artifact' = [artifact EXCEPT ![v] = IF e.kind = "message" THEN SessionOf[e.turn] ELSE @]
  /\ calls' = IF e.kind = "done" THEN calls \cup {Call(v, "reload", current[v])} ELSE calls
  /\ UNCHANGED <<life, current>>

Deliver ==
  /\ bus # <<>>
  /\ bus' = Tail(bus)
  /\ LET v == handlers[SessionOf[Head(bus).turn]]
     IN IF v = NoView THEN UNCHANGED <<screen, calls>> ELSE OnBusEvent(Head(bus), v)
  /\ UNCHANGED <<database, handlers, acts>>

-----------------------------------------------------------------------------

Work(t) == Start(t) \/ Message(t) \/ Result(t) \/ Finish(t) \/ FinishQuietly(t)
ServeCall(c) ==
  ServeRead(c) \/ ServeList(c) \/ ServeNew(c) \/ ServeSend(c) \/ ServeStop(c)

Next ==
  \/ \E t \in Turns : Work(t) \/ Fail(t) \/ Lose(t)
  \/ \E s \in Sessions : Reap(s)
  \/ \E c \in calls : ServeCall(c) \/ Reply(c) \/ ReplyError(c)
  \/ \E v \in Views : Enter(v) \/ Leave(v) \/ NewSession(v) \/ OnSend(v) \/ OnStop(v)
  \/ \E v \in Views, s \in Sessions : Open(v, s)
  \/ Deliver

Spec == Init /\ [][Next]_vars

(* The worker ends (its deadline sees to that), the server answers, replies *)
(* and events arrive.  Nobody has to act, to be lost or to fail.            *)
FairSpec ==
  /\ Spec
  /\ \A t \in Turns : WF_vars(Work(t) \/ Fail(t))
  /\ WF_vars(\E c \in calls : ServeCall(c))
  /\ WF_vars(\E c \in calls : Reply(c) \/ ReplyError(c))
  /\ WF_vars(Deliver)

-----------------------------------------------------------------------------
(* Properties *)

CallKinds == {"list", "new", "open", "reload", "send", "stop"}
ReplyRecords == [ok : BOOLEAN, session : Sessions \cup {NoSession}, state : States,
                 answers : [Turns -> 0..Versions]]
CallRecords == [view : Views, kind : CallKinds, session : Sessions \cup {NoSession},
                made : 0..MaxActs, served : BOOLEAN, reply : ReplyRecords]
Events == [kind : {"started", "message", "done", "error"}, turn : Turns, version : 0..Versions]

(* Every variable has its type (claudoo.session, the component's state).    *)
TypeOK ==
  /\ known \subseteq Sessions
  /\ state \in [Sessions -> States]
  /\ phase \in [Turns -> {"none"} \cup Working \cup Ended]
  /\ version \in [Turns -> 0..Versions]
  /\ bus \in Seq(Events)
  /\ handlers \in [Sessions -> Views \cup {NoView}]
  /\ life \in [Views -> {"none", "starting", "mounted", "gone"}]
  /\ current \in [Views -> Sessions \cup {NoSession}]
  /\ shown \in [Views -> [Turns -> 0..Versions]]
  /\ running \in [Views -> BOOLEAN]
  /\ artifact \in [Views -> Sessions \cup {NoSession}]
  /\ calls \subseteq CallRecords
  /\ acts \in 0..MaxActs

(* No call in flight, no event under way, no worker at work. *)
Settled ==
  /\ calls = {}
  /\ bus = <<>>
  /\ \A t \in Turns : phase[t] \notin Working

(* For a user who does one thing at a time, once all is quiet the open      *)
(* conversation shows every answer as the database has it, no answer of     *)
(* another one, its own chart, and no turn that runs (bus events and the    *)
(* reload after "done" together: _emit, _onBusEvent, _reload).              *)
SettledViewIsExact ==
  \A v \in Views :
    Settled /\ life[v] = "mounted" =>
      /\ shown[v] = Answers(current[v])
      /\ running[v] = (state[current[v]] = "running")
      /\ artifact[v] = Newest(current[v], shown[v])

(* However events and replies race, nothing is shown that was not           *)
(* committed (_emit's events are sent by the commit).                       *)
ShownIsCommitted ==
  \A v \in Views, t \in Turns : shown[v][t] <= version[t]

(* However views come and go, none hears the events of a conversation that  *)
(* is not the one it has open (claudoo_service's map, _openSession).        *)
HearsOnlyCurrent ==
  \A v \in Views, s \in Sessions : handlers[s] = v => current[v] = s

(* The comment in _openSession, "Surface this conversation's most recent    *)
(* chart/report on the right": with nothing left to come back, the chart is *)
(* one of the open conversation.                                            *)
ChartIsOfThisConversation ==
  \A v \in Views :
    life[v] = "mounted" /\ InFlight(v) = {} => artifact[v] \in {NoSession, current[v]}

(* For a user who does one thing at a time, a turn the screen says is       *)
(* running is seen to end, unless the user leaves (_execute's and           *)
(* _run_worker's last events, _onBusEvent).                                 *)
TurnIsSeenToEnd ==
  \A v \in Views :
    life[v] = "mounted" /\ running[v] ~> ~running[v] \/ life[v] = "gone"

=============================================================================
