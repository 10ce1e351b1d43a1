----------------------------- MODULE ChatViewProofs -----------------------------
(***************************************************************************)
(* For any conversations, turns and views, however calls, replies, events   *)
(* and users interleave: types, that nothing is shown before it is          *)
(* committed, that a view only hears the conversation it has open, and that *)
(* the screen of a user who waits ends up exact.                            *)
(***************************************************************************)
EXTENDS ChatView, TLAPS

USE DEF States, Ended, Working, CallKinds, ReplyRecords, CallRecords, Events

(* What an event under way, a reply, a view tells has been committed. *)
EventsTold == \A i \in 1..Len(bus) : bus[i].version <= version[bus[i].turn]
RepliesTold == \A c \in calls, t \in Turns : c.reply.answers[t] <= version[t]
CommittedInv == EventsTold /\ RepliesTold /\ ShownIsCommitted

-----------------------------------------------------------------------------
(* The operators the actions are built from *)

LEMMA EventsAppended ==
  ASSUME TypeOK, NEW kind \in {"started", "message", "done", "error"}, NEW t \in Turns,
         version' \in [Turns -> 0..Versions], Emit(kind, t)
  PROVE  /\ bus' \in Seq(Events)
         /\ Len(bus') = Len(bus) + 1
         /\ \A i \in 1..Len(bus) : bus'[i] = bus[i]
         /\ bus'[Len(bus')] = [kind |-> kind, turn |-> t, version |-> version'[t]]
<1> DEFINE e == [kind |-> kind, turn |-> t, version |-> version'[t]]
<1>1. e \in Events
  OBVIOUS
<1>2. bus' = Append(bus, e)
  BY DEF Emit, Event
<1> HIDE DEF e
<1>3. bus \in Seq(Events)
  BY DEF TypeOK
<1>4. bus' \in Seq(Events) /\ Len(bus') = Len(bus) + 1 /\ bus'[Len(bus')] = e
  BY <1>1, <1>2, <1>3
<1>5. \A i \in 1..Len(bus) : bus'[i] = bus[i]
  BY <1>2, <1>3
<1> QED BY <1>4, <1>5 DEF e

LEMMA AnswersTyped == ASSUME TypeOK, NEW s PROVE Answers(s) \in [Turns -> 0..Versions]
BY BoundAssumption DEF TypeOK, Answers

LEMMA NewCall ==
  ASSUME TypeOK, NEW v \in Views, NEW kind \in CallKinds, NEW s \in Sessions \cup {NoSession}
  PROVE  /\ Call(v, kind, s) \in CallRecords
         /\ Call(v, kind, s).reply.answers = Blank
         /\ Blank \in [Turns -> 0..Versions]
BY BoundAssumption DEF TypeOK, Call, NoReply, Blank

(* A served call is the call with its reply, whose answers the database has. *)
LEMMA CallServed ==
  ASSUME TypeOK, NEW c \in calls, NEW s \in Sessions \cup {NoSession}, Serve(c, s)
  PROVE  /\ calls' \subseteq CallRecords
         /\ \A d \in calls' : d \in calls \/ d.reply.answers = Answers(s)
<1> DEFINE r == [ok |-> TRUE, session |-> s,
                 state |-> IF s = NoSession THEN "idle" ELSE state[s], answers |-> Answers(s)]
           d == [c EXCEPT !.served = TRUE, !.reply = r]
<1>1. c \in CallRecords
  BY DEF TypeOK
<1>2. Answers(s) \in [Turns -> 0..Versions]
  BY AnswersTyped
<1>3. (IF s = NoSession THEN "idle" ELSE state[s]) \in States
  BY DEF TypeOK
<1>4. r \in ReplyRecords
  BY <1>2, <1>3
<1>5. calls' = (calls \ {c}) \cup {d}
  BY DEF Serve
<1> HIDE DEF r
<1>6. d \in CallRecords /\ d.reply = r
  BY <1>1, <1>4
<1>7. r.answers = Answers(s)
  BY DEF r
<1> HIDE DEF d
<1> QED BY <1>5, <1>6, <1>7 DEF TypeOK

(* A failed call keeps its empty reply. *)
LEMMA CallFailed ==
  ASSUME TypeOK, NEW c \in calls, ServeError(c)
  PROVE  /\ calls' \subseteq CallRecords
         /\ \A d \in calls' : d \in calls \/ d.reply = c.reply
BY DEF TypeOK, ServeError

-----------------------------------------------------------------------------
(* Types *)

LEMMA InitTypes == Init => TypeOK
BY SessionAssumption, BoundAssumption DEF Init, TypeOK, Blank

LEMMA WorkerTypes ==
  ASSUME TypeOK, NEW t \in Turns, Work(t) \/ Fail(t) \/ Lose(t)
  PROVE  TypeOK'
<1> USE SessionAssumption, BoundAssumption
<1>1. CASE Start(t)
  <2>1. version' \in [Turns -> 0..Versions] /\ Emit("started", t)
    BY <1>1 DEF TypeOK, Start
  <2>2. bus' \in Seq(Events)
    BY <2>1, EventsAppended
  <2> QED BY <1>1, <2>2 DEF TypeOK, Start, WorkerOnly, screen
<1>2. CASE Update(t)
  <2>1. version' \in [Turns -> 0..Versions] /\ Emit("message", t)
    BY <1>2 DEF TypeOK, Update
  <2>2. bus' \in Seq(Events)
    BY <2>1, EventsAppended
  <2> QED BY <1>2, <2>1, <2>2 DEF TypeOK, Update, WorkerOnly, screen
<1>3. ASSUME NEW outcome \in {"done", "error"}, NEW to \in {"closing", "over"},
             Settle(t, to, outcome)
      PROVE  TypeOK'
  <2>1. version' \in [Turns -> 0..Versions] /\ Emit(outcome, t)
    BY <1>3 DEF TypeOK, Settle
  <2>2. bus' \in Seq(Events)
    BY <2>1, EventsAppended
  <2> QED BY <1>3, <2>2 DEF TypeOK, Settle, WorkerOnly, screen
<1>4. CASE FinishQuietly(t) \/ Lose(t)
  BY <1>4 DEF TypeOK, FinishQuietly, Lose, WorkerOnly, screen
<1> QED
  BY <1>1, <1>2, <1>3, <1>4 DEF Work, Message, Result, Finish, Fail

LEMMA ServeTypes == ASSUME TypeOK, NEW c \in calls, ServeCall(c) PROVE TypeOK'
<1> c.session \in Sessions \cup {NoSession}
  BY DEF TypeOK
<1>1. CASE ServeRead(c)
  <2>1. calls' \subseteq CallRecords
    BY <1>1, CallServed DEF ServeRead
  <2> QED BY <1>1, <2>1 DEF TypeOK, ServeRead, database, screen
<1>2. CASE ServeList(c)
  <2>1. PICK s \in Sessions \cup {NoSession} : Serve(c, s)
    BY <1>2 DEF TypeOK, ServeList
  <2>2. calls' \subseteq CallRecords
    BY <2>1, CallServed
  <2> QED BY <1>2, <2>2 DEF TypeOK, ServeList, database, screen
<1>3. CASE ServeNew(c)
  <2>1. PICK s \in Sessions : Serve(c, s) /\ known' = known \cup {s}
    BY <1>3 DEF ServeNew
  <2>2. calls' \subseteq CallRecords
    BY <2>1, CallServed
  <2> QED BY <1>3, <2>1, <2>2 DEF TypeOK, ServeNew, screen
<1>4. CASE ServeSend(c)
  <2>1. calls' \subseteq CallRecords
    BY <1>4, CallServed, CallFailed DEF ServeSend
  <2>2. state' \in [Sessions -> States] /\ phase' \in [Turns -> {"none"} \cup Working \cup Ended]
    BY <1>4 DEF TypeOK, ServeSend, InConversation
  <2> QED BY <1>4, <2>1, <2>2 DEF TypeOK, ServeSend, screen
<1>5. CASE ServeStop(c)
  <2>1. calls' \subseteq CallRecords
    BY <1>5, CallServed DEF ServeStop
  <2> QED BY <1>5, <2>1 DEF TypeOK, ServeStop, screen
<1> QED BY <1>1, <1>2, <1>3, <1>4, <1>5 DEF ServeCall

LEMMA UserTypes ==
  ASSUME TypeOK, NEW v \in Views,
         \/ Enter(v) \/ Leave(v) \/ NewSession(v) \/ OnSend(v) \/ OnStop(v)
         \/ \E s \in Sessions : Open(v, s)
  PROVE  TypeOK'
<1>1. acts' \in 0..MaxActs
  BY BoundAssumption
     DEF TypeOK, Enter, Leave, NewSession, OnSend, OnStop, Open, Act
<1>2. ASSUME NEW kind \in CallKinds, NEW s \in Sessions \cup {NoSession}
      PROVE  Call(v, kind, s) \in CallRecords
  BY NewCall
<1>3. CASE Enter(v)
  BY <1>1, <1>2, <1>3 DEF TypeOK, Enter, database
<1>4. CASE Leave(v)
  BY <1>1, <1>4 DEF TypeOK, Leave, database
<1>5. CASE NewSession(v)
  BY <1>1, <1>2, <1>5 DEF TypeOK, NewSession, database, screen
<1>6. CASE OnSend(v)
  BY <1>1, <1>2, <1>6 DEF TypeOK, OnSend, database
<1>7. CASE OnStop(v)
  BY <1>1, <1>2, <1>7 DEF TypeOK, OnStop, database, screen
<1>8. ASSUME NEW s \in Sessions, Open(v, s) PROVE TypeOK'
  BY <1>1, <1>2, <1>8 DEF TypeOK, Open, OpenSession, Registered, database
<1> QED BY <1>3, <1>4, <1>5, <1>6, <1>7, <1>8

LEMMA ReplyTypes ==
  ASSUME TypeOK, NEW c \in calls, Reply(c) \/ ReplyError(c)
  PROVE  TypeOK'
<1>1. /\ c.view \in Views /\ c.reply.session \in Sessions \cup {NoSession}
      /\ c.session \in Sessions \cup {NoSession} /\ c.reply.answers \in [Turns -> 0..Versions]
  BY DEF TypeOK
<1>2. \A kind \in CallKinds, s \in Sessions \cup {NoSession} :
        Call(c.view, kind, s) \in CallRecords
  BY <1>1, NewCall
<1>3. CASE Reply(c) /\ ReplyOpen(c)
  BY <1>1, <1>3 DEF TypeOK, Reply, ReplyOpen, Newest, database
<1>4. CASE Reply(c) /\ ReplyReload(c)
  BY <1>1, <1>4 DEF TypeOK, Reply, ReplyReload, database
<1>5. CASE Reply(c) /\ ReplySession(c)
  BY <1>1, <1>2, <1>5 DEF TypeOK, Reply, ReplySession, OpenSession, Registered, database
<1>6. CASE Reply(c) /\ ReplyNone(c)
  <2>1. Call(c.view, "new", NoSession) \in CallRecords
    BY <1>2
  <2> QED BY <1>6, <2>1 DEF TypeOK, Reply, ReplyNone, database, screen
<1>7. CASE Reply(c) /\ ReplySend(c)
  BY <1>7 DEF TypeOK, Reply, ReplySend, database, screen
<1>8. CASE Reply(c) /\ ReplyStop(c)
  BY <1>1, <1>8 DEF TypeOK, Reply, ReplyStop, database
<1>9. CASE ReplyError(c)
  BY <1>1, <1>9 DEF TypeOK, ReplyError, database
<1> QED BY <1>3, <1>4, <1>5, <1>6, <1>7, <1>8, <1>9 DEF Reply

LEMMA HeadAndTail ==
  ASSUME NEW S, NEW q \in Seq(S), q # <<>>
  PROVE  /\ Head(q) \in S /\ Tail(q) \in Seq(S)
         /\ Head(q) = q[1] /\ 1 \in 1..Len(q)
         /\ \A i \in 1..Len(Tail(q)) : i + 1 \in 1..Len(q) /\ Tail(q)[i] = q[i + 1]
<1>1. Len(q) \in Nat \ {0}
  OBVIOUS
<1> QED BY <1>1

(* What the delivery of an event does, given the event it delivers. *)
LEMMA DeliverTypes == ASSUME TypeOK, Deliver PROVE TypeOK' /\ Head(bus) \in Events
<1>1. bus \in Seq(Events) /\ bus # <<>>
  BY DEF TypeOK, Deliver
<1>2. Head(bus) \in Events /\ Tail(bus) \in Seq(Events)
  BY <1>1, HeadAndTail
<1> DEFINE e == Head(bus)
<1>3. CASE handlers[SessionOf[e.turn]] = NoView
  BY <1>2, <1>3 DEF TypeOK, Deliver, database, screen
<1>4. ASSUME NEW v \in Views, OnBusEvent(e, v) PROVE TypeOK'
  <2>1. Call(v, "reload", current[v]) \in CallRecords
    BY NewCall DEF TypeOK
  <2>2. calls' \subseteq CallRecords
    BY <1>4, <2>1 DEF TypeOK, OnBusEvent
  <2>3. SessionOf[e.turn] \in Sessions
    BY <1>2, SessionAssumption
  <2>4. running' \in [Views -> BOOLEAN]
    BY <1>4 DEF TypeOK, OnBusEvent, Runs
  <2>5. shown' \in [Views -> [Turns -> 0..Versions]]
    BY <1>2, <1>4 DEF TypeOK, OnBusEvent, Upsert
  <2>6. artifact' \in [Views -> Sessions \cup {NoSession}]
    BY <1>4, <2>3 DEF TypeOK, OnBusEvent
  <2> QED BY <1>2, <1>4, <2>2, <2>4, <2>5, <2>6 DEF TypeOK, Deliver, OnBusEvent, database
<1>5. handlers[SessionOf[e.turn]] \in Views \cup {NoView}
  BY <1>2, SessionAssumption DEF TypeOK
<1>6. CASE handlers[SessionOf[e.turn]] # NoView
  <2>1. OnBusEvent(e, handlers[SessionOf[e.turn]])
    BY <1>6 DEF Deliver
  <2> QED BY <1>2, <1>4, <1>5, <1>6, <2>1
<1> QED BY <1>2, <1>3, <1>6

LEMMA StepTypes == TypeOK /\ [Next]_vars => TypeOK'
<1> SUFFICES ASSUME TypeOK, [Next]_vars PROVE TypeOK'
  OBVIOUS
<1>1. ASSUME NEW s \in Sessions, Reap(s) PROVE TypeOK'
  BY <1>1 DEF TypeOK, Reap, screen
<1>2. CASE UNCHANGED vars
  BY <1>2 DEF TypeOK, vars, database, screen
<1> QED
  BY <1>1, <1>2, WorkerTypes, ServeTypes, UserTypes, ReplyTypes, DeliverTypes DEF Next

(* Every variable keeps its type.                                            *)
THEOREM ChatTypes == Spec => []TypeOK
BY InitTypes, StepTypes, PTL DEF Spec

-----------------------------------------------------------------------------
(* Nothing is shown before it is committed *)

(* The database only grows: what was committed stays so. *)
VersionsGrow == \A t \in Turns : version[t] <= version'[t]

LEMMA Element == ASSUME NEW S, NEW q \in Seq(S), NEW i \in 1..Len(q) PROVE q[i] \in S
OBVIOUS

LEMMA EventsStay ==
  ASSUME TypeOK, TypeOK', EventsTold, VersionsGrow,
         \A i \in 1..Len(bus') : \/ \E j \in 1..Len(bus) : bus'[i] = bus[j]
                                 \/ bus'[i].version = version'[bus'[i].turn]
  PROVE  EventsTold'
<1> SUFFICES ASSUME NEW i \in 1..Len(bus') PROVE bus'[i].version <= version'[bus'[i].turn]
  BY DEF EventsTold
<1>1. bus' \in Seq(Events) /\ bus \in Seq(Events)
  BY DEF TypeOK
<1>2. bus'[i] \in Events
  BY <1>1, Element
<1>3. version \in [Turns -> Nat] /\ version' \in [Turns -> Nat]
  BY BoundAssumption DEF TypeOK
<1>4. bus'[i].turn \in Turns /\ bus'[i].version \in Nat
  BY <1>2, BoundAssumption
<1>5. CASE \E j \in 1..Len(bus) : bus'[i] = bus[j]
  <2>1. bus'[i].version <= version[bus'[i].turn]
    BY <1>5 DEF EventsTold
  <2>2. version[bus'[i].turn] <= version'[bus'[i].turn]
    BY <1>4 DEF VersionsGrow
  <2> QED BY <1>3, <1>4, <2>1, <2>2
<1>6. CASE bus'[i].version = version'[bus'[i].turn]
  BY <1>3, <1>4, <1>6
<1> QED BY <1>5, <1>6

LEMMA RepliesStay ==
  ASSUME TypeOK, TypeOK', RepliesTold, VersionsGrow,
         \A c \in calls' : \/ \E d \in calls : c.reply.answers = d.reply.answers
                           \/ c.reply.answers = Blank
                           \/ \E s \in Sessions \cup {NoSession} : c.reply.answers = Answers(s)
  PROVE  RepliesTold'
<1> SUFFICES ASSUME NEW c \in calls', NEW t \in Turns PROVE c.reply.answers[t] <= version'[t]
  BY DEF RepliesTold
<1>1. version[t] \in Nat /\ version'[t] \in Nat /\ version[t] <= version'[t]
  BY BoundAssumption DEF TypeOK, VersionsGrow
<1>2. CASE \E d \in calls : c.reply.answers = d.reply.answers
  <2>1. PICK d \in calls : c.reply.answers = d.reply.answers
    BY <1>2
  <2>2. d.reply.answers[t] <= version[t] /\ d.reply.answers \in [Turns -> 0..Versions]
    BY DEF TypeOK, RepliesTold
  <2>3. d.reply.answers[t] \in Nat
    BY <2>2, BoundAssumption
  <2> QED BY <1>1, <2>1, <2>2, <2>3
<1>3. CASE c.reply.answers = Blank
  BY <1>1, <1>3 DEF Blank
<1>4. CASE \E s \in Sessions \cup {NoSession} : c.reply.answers = Answers(s)
  BY <1>1, <1>4 DEF Answers
<1> QED BY <1>2, <1>3, <1>4

LEMMA ShownStays ==
  ASSUME TypeOK, TypeOK', ShownIsCommitted, VersionsGrow,
         \A v \in Views, t \in Turns :
           shown'[v][t] = shown[v][t] \/ shown'[v][t] <= version'[t]
  PROVE  ShownIsCommitted'
<1> SUFFICES ASSUME NEW v \in Views, NEW t \in Turns PROVE shown'[v][t] <= version'[t]
  BY DEF ShownIsCommitted
<1>1. version[t] \in Nat /\ version'[t] \in Nat /\ version[t] <= version'[t]
  BY BoundAssumption DEF TypeOK, VersionsGrow
<1>2. shown[v][t] \in Nat /\ shown[v][t] <= version[t]
  BY BoundAssumption DEF TypeOK, ShownIsCommitted
<1> QED BY <1>1, <1>2

LEMMA NothingGrows == ASSUME TypeOK, UNCHANGED version PROVE VersionsGrow
<1> version \in [Turns -> Nat]
  BY BoundAssumption DEF TypeOK
<1> QED BY DEF VersionsGrow

LEMMA InitCommitted == Init => CommittedInv
BY DEF Init, CommittedInv, EventsTold, RepliesTold, ShownIsCommitted, Blank

LEMMA WorkerCommits ==
  ASSUME TypeOK, TypeOK', CommittedInv, NEW t \in Turns, Work(t) \/ Fail(t) \/ Lose(t)
  PROVE  CommittedInv'
<1>1. UNCHANGED <<shown, calls>>
  BY DEF Work, Start, Message, Update, Result, Finish, FinishQuietly, Fail, Lose, Settle,
         WorkerOnly, screen
<1>2. UNCHANGED version \/ version' = [version EXCEPT ![t] = @ + 1]
  BY DEF Work, Start, Message, Update, Result, Finish, FinishQuietly, Fail, Lose, Settle
<1>3. VersionsGrow
  <2>1. version \in [Turns -> Nat]
    BY BoundAssumption DEF TypeOK
  <2> QED BY <1>2, <2>1 DEF VersionsGrow
<1>4. UNCHANGED bus \/ \E kind \in {"started", "message", "done", "error"} : Emit(kind, t)
  BY DEF Work, Start, Message, Update, Result, Finish, FinishQuietly, Fail, Lose, Settle
<1>5. \A i \in 1..Len(bus') : \/ \E j \in 1..Len(bus) : bus'[i] = bus[j]
                              \/ bus'[i].version = version'[bus'[i].turn]
  <2>1. CASE UNCHANGED bus
    BY <2>1
  <2>2. CASE \E kind \in {"started", "message", "done", "error"} : Emit(kind, t)
    <3>1. PICK kind \in {"started", "message", "done", "error"} : Emit(kind, t)
      BY <2>2
    <3>2. version' \in [Turns -> 0..Versions]
      BY DEF TypeOK
    <3>3. /\ Len(bus') = Len(bus) + 1 /\ \A i \in 1..Len(bus) : bus'[i] = bus[i]
          /\ bus'[Len(bus')] = [kind |-> kind, turn |-> t, version |-> version'[t]]
      BY <3>1, <3>2, EventsAppended
    <3>4. Len(bus) \in Nat
      BY DEF TypeOK
    <3> TAKE i \in 1..Len(bus')
    <3>5. CASE i \in 1..Len(bus)
      BY <3>3, <3>5
    <3>6. CASE i = Len(bus')
      <4>1. bus'[i] = [kind |-> kind, turn |-> t, version |-> version'[t]]
        BY <3>3, <3>6
      <4>2. bus'[i].version = version'[t] /\ bus'[i].turn = t
        BY <4>1
      <4> QED BY <4>2
    <3>7. i \in 1..Len(bus) \/ i = Len(bus')
      BY <3>3, <3>4
    <3> QED BY <3>5, <3>6, <3>7
  <2> QED BY <1>4, <2>1, <2>2
<1>6. EventsTold'
  BY <1>3, <1>5, EventsStay DEF CommittedInv
<1>7. RepliesTold'
  BY <1>1, <1>3, RepliesStay DEF CommittedInv
<1>8. ShownIsCommitted'
  BY <1>1, <1>3, ShownStays DEF CommittedInv
<1> QED BY <1>6, <1>7, <1>8 DEF CommittedInv

(* A reply read from the database, or none, adds nothing uncommitted. *)
LEMMA ServeCommits ==
  ASSUME TypeOK, TypeOK', CommittedInv, NEW c \in calls, ServeCall(c)
  PROVE  CommittedInv'
<1>1. UNCHANGED <<version, bus, shown>>
  BY DEF ServeCall, ServeRead, ServeList, ServeNew, ServeSend, ServeStop, database, screen
<1>2. VersionsGrow
  BY <1>1, NothingGrows
<1>3. ServeError(c) \/ \E s \in Sessions \cup {NoSession} : Serve(c, s)
  BY DEF TypeOK, ServeCall, ServeRead, ServeList, ServeNew, ServeSend, ServeStop
<1>4. \A d \in calls' : \/ \E x \in calls : d.reply.answers = x.reply.answers
                        \/ \E s \in Sessions \cup {NoSession} : d.reply.answers = Answers(s)
  BY <1>3, CallServed, CallFailed
<1>5. RepliesTold'
  BY <1>2, <1>4, RepliesStay DEF CommittedInv
<1> QED BY <1>1, <1>5 DEF CommittedInv, EventsTold, ShownIsCommitted

LEMMA UserCommits ==
  ASSUME TypeOK, TypeOK', CommittedInv, NEW v \in Views,
         \/ Enter(v) \/ Leave(v) \/ NewSession(v) \/ OnSend(v) \/ OnStop(v)
         \/ \E s \in Sessions : Open(v, s)
  PROVE  CommittedInv'
<1>1. UNCHANGED <<version, bus, shown>>
  BY DEF Enter, Leave, NewSession, OnSend, OnStop, Open, database, screen
<1>2. VersionsGrow
  BY <1>1, NothingGrows
<1>3. UNCHANGED calls \/ \E kind, s : calls' = calls \cup {Call(v, kind, s)}
  BY DEF Enter, Leave, NewSession, OnSend, OnStop, Open, OpenSession
<1>4. \A kind, s : Call(v, kind, s).reply.answers = Blank
  BY DEF Call, NoReply
<1>5. RepliesTold'
  BY <1>2, <1>3, <1>4, RepliesStay DEF CommittedInv
<1> QED BY <1>1, <1>5 DEF CommittedInv, EventsTold, ShownIsCommitted

LEMMA ReplyCommits ==
  ASSUME TypeOK, TypeOK', CommittedInv, NEW c \in calls, Reply(c) \/ ReplyError(c)
  PROVE  CommittedInv'
<1>1. UNCHANGED <<version, bus>>
  BY DEF Reply, ReplyError, database
<1>2. VersionsGrow
  BY <1>1, NothingGrows
<1>3. calls' = calls \ {c} \/ \E kind, s : calls' = (calls \ {c}) \cup {Call(c.view, kind, s)}
  BY DEF Reply, ReplyError, ReplyOpen, ReplyReload, ReplySession, OpenSession, ReplyNone,
         ReplySend, ReplyStop
<1>4. \A kind, s : Call(c.view, kind, s).reply.answers = Blank
  BY DEF Call, NoReply
<1>5. RepliesTold'
  BY <1>2, <1>3, <1>4, RepliesStay DEF CommittedInv
<1>6. UNCHANGED shown \/ shown' = [shown EXCEPT ![c.view] = c.reply.answers]
  BY DEF Reply, ReplyError, ReplyOpen, ReplyReload, ReplySession, ReplyNone,
         ReplySend, ReplyStop, screen
<1>7. \A v \in Views, t \in Turns : shown'[v][t] = shown[v][t] \/ shown'[v][t] <= version'[t]
  BY <1>1, <1>6 DEF TypeOK, CommittedInv, RepliesTold
<1>8. ShownIsCommitted'
  BY <1>2, <1>7, ShownStays DEF CommittedInv
<1> QED BY <1>1, <1>5, <1>8 DEF CommittedInv, EventsTold

LEMMA DeliverCommits ==
  ASSUME TypeOK, TypeOK', CommittedInv, Deliver
  PROVE  CommittedInv'
<1> DEFINE e == Head(bus)
<1>1. bus \in Seq(Events) /\ bus # <<>> /\ bus' = Tail(bus) /\ UNCHANGED version
  BY DEF TypeOK, Deliver, database
<1>2. VersionsGrow
  BY <1>1, NothingGrows
<1>3. /\ e \in Events /\ e = bus[1] /\ 1 \in 1..Len(bus)
      /\ \A i \in 1..Len(bus') : i + 1 \in 1..Len(bus) /\ bus'[i] = bus[i + 1]
  BY <1>1, HeadAndTail
<1>4. EventsTold'
  BY <1>2, <1>3, EventsStay DEF CommittedInv
<1>5. UNCHANGED <<shown, calls>> \/ \E v \in Views : OnBusEvent(e, v)
  BY <1>3, SessionAssumption DEF TypeOK, Deliver, screen
<1>6. \A d \in calls' : d \in calls \/ d.reply.answers = Blank
  BY <1>5 DEF OnBusEvent, Call, NoReply
<1>7. RepliesTold'
  BY <1>2, <1>6, RepliesStay DEF CommittedInv
<1>8. e.version <= version[e.turn]
  BY <1>3 DEF CommittedInv, EventsTold
<1>9. \A v \in Views, t \in Turns : shown'[v][t] = shown[v][t] \/ shown'[v][t] <= version'[t]
  <2>1. ASSUME NEW w \in Views, OnBusEvent(e, w), NEW v \in Views, NEW t \in Turns
        PROVE  shown'[v][t] = shown[v][t] \/ shown'[v][t] <= version'[t]
    <3>1. shown[w] \in [Turns -> 0..Versions] /\ shown \in [Views -> [Turns -> 0..Versions]]
      BY DEF TypeOK
    <3>2. UNCHANGED shown \/ shown' = [shown EXCEPT ![w] = [shown[w] EXCEPT ![e.turn] = e.version]]
      BY <2>1, <3>1 DEF OnBusEvent, Upsert
    <3>3. shown'[v][t] = shown[v][t] \/ (v = w /\ t = e.turn /\ shown'[v][t] = e.version)
      BY <3>1, <3>2
    <3> QED BY <1>1, <1>8, <3>3
  <2> QED BY <1>5, <2>1
<1>10. ShownIsCommitted'
  BY <1>2, <1>9, ShownStays DEF CommittedInv
<1> QED BY <1>4, <1>7, <1>10 DEF CommittedInv

LEMMA StepCommitted == TypeOK /\ TypeOK' /\ CommittedInv /\ [Next]_vars => CommittedInv'
<1> SUFFICES ASSUME TypeOK, TypeOK', CommittedInv, [Next]_vars PROVE CommittedInv'
  OBVIOUS
<1>1. CASE (\E s \in Sessions : Reap(s)) \/ UNCHANGED vars
  BY <1>1 DEF Reap, vars, database, screen, CommittedInv, EventsTold, RepliesTold, ShownIsCommitted
<1> QED
  BY <1>1, WorkerCommits, ServeCommits, UserCommits, ReplyCommits, DeliverCommits DEF Next

(* No reply overtaken by an event and no event overtaken by a reply shows a  *)
(* version of an answer that is not in the database.                         *)
THEOREM ChatShowsCommitted == Spec => []ShownIsCommitted
<1>1. CommittedInv => ShownIsCommitted
  BY DEF CommittedInv
<1> QED BY <1>1, InitCommitted, ChatTypes, StepCommitted, PTL DEF Spec

-----------------------------------------------------------------------------
(* Who hears whom *)

LEMMA InitHears == Init => HearsOnlyCurrent
BY SessionAssumption DEF Init, HearsOnlyCurrent

LEMMA OpeningHears ==
  ASSUME TypeOK, HearsOnlyCurrent, NEW v \in Views, NEW s, NEW rest, OpenSession(v, s, rest)
  PROVE  HearsOnlyCurrent'
BY SessionAssumption DEF TypeOK, HearsOnlyCurrent, OpenSession, Registered

LEMMA StepHears == TypeOK /\ HearsOnlyCurrent /\ [Next]_vars => HearsOnlyCurrent'
<1> SUFFICES ASSUME TypeOK, HearsOnlyCurrent, [Next]_vars PROVE HearsOnlyCurrent'
  OBVIOUS
<1>1. CASE UNCHANGED <<handlers, current>>
  BY <1>1 DEF HearsOnlyCurrent
<1>2. ASSUME NEW t \in Turns, Work(t) \/ Fail(t) \/ Lose(t) PROVE UNCHANGED <<handlers, current>>
  BY <1>2 DEF Work, Start, Message, Update, Result, Finish, FinishQuietly, Fail, Lose, Settle,
              WorkerOnly, screen
<1>3. ASSUME NEW c \in calls, ServeCall(c) PROVE UNCHANGED <<handlers, current>>
  BY <1>3 DEF ServeCall, ServeRead, ServeList, ServeNew, ServeSend, ServeStop, screen
<1>4. ASSUME NEW c \in calls, Reply(c) \/ ReplyError(c) PROVE HearsOnlyCurrent'
  <2>1. CASE ReplySession(c)
    <3>1. c.view \in Views
      BY DEF TypeOK
    <3> QED BY <2>1, <3>1, OpeningHears DEF ReplySession
  <2>2. CASE UNCHANGED <<handlers, current>>
    BY <1>1, <2>2
  <2> QED
    BY <1>4, <2>1, <2>2
       DEF Reply, ReplyError, ReplyOpen, ReplyReload, ReplyNone, ReplySend, ReplyStop, screen
<1>5. ASSUME NEW v \in Views, NEW s \in Sessions, Open(v, s) PROVE HearsOnlyCurrent'
  BY <1>5, OpeningHears DEF Open
<1>6. ASSUME NEW v \in Views, Leave(v) PROVE HearsOnlyCurrent'
  BY <1>6, SessionAssumption DEF TypeOK, HearsOnlyCurrent, Leave
<1>7. ASSUME NEW v \in Views, Enter(v) \/ NewSession(v) \/ OnSend(v) \/ OnStop(v)
      PROVE  UNCHANGED <<handlers, current>>
  BY <1>7 DEF Enter, NewSession, OnSend, OnStop, screen
<1>8. CASE Deliver
  BY <1>1, <1>8 DEF Deliver, OnBusEvent, screen
<1>9. CASE (\E s \in Sessions : Reap(s)) \/ UNCHANGED vars
  BY <1>1, <1>9 DEF Reap, vars, screen
<1> QED BY <1>1, <1>2, <1>3, <1>4, <1>5, <1>6, <1>7, <1>8, <1>9 DEF Next

(* However views are opened and left, and whatever they still await, the map *)
(* of callbacks leads only to views that have the conversation open.         *)
THEOREM ChatHearsCurrent == Spec => []HearsOnlyCurrent
BY InitHears, ChatTypes, StepHears, PTL DEF Spec

-----------------------------------------------------------------------------
(* What a careful user sees *)

(* One view, whose user waits for replies and turns to end; nobody presses   *)
(* Stop and no worker or call is lost.                                       *)
Careful == OneAtATime /\ ~CanStop /\ ~CanLose /\ \A v, w \in Views : v = w

Quiet ==
  /\ bus = <<>>
  /\ \A t \in Turns : phase[t] \notin Working
  /\ \A s \in Sessions : state[s] # "running"

(* A call that leads to another conversation comes alone. *)
Leads(c, v) ==
  /\ c.served => c.reply.ok
  /\ \/ c.kind = "list"
     \/ c.kind = "new" /\ (c.served => c.reply.session \in Sessions)
     \/ /\ c.kind = "open"
        /\ current[v] \in Sessions
        /\ c.session = current[v]
        /\ handlers[current[v]] = v
        /\ c.served => c.reply.answers = Answers(current[v]) /\ c.reply.state # "running"

Navigating(v) == Quiet /\ \E c \in calls : calls = {c} /\ Leads(c, v)

(* At most one turn is at work, in the open conversation, which runs as long *)
(* as its answer may grow.                                                   *)
Growing == {"starting", "reading"}
OneTurn(v) ==
  /\ \A t \in Turns : phase[t] \in Working => SessionOf[t] = current[v]
  /\ \A t, u \in Turns : phase[t] \in Working /\ phase[u] \in Working => t = u
  /\ \A t \in Turns : phase[t] \in Growing => state[current[v]] = "running"
  /\ \A s \in Sessions :
       state[s] = "running" => s = current[v] /\ \E t \in Turns : phase[t] \in Growing

Complete == \A t \in Turns : phase[t] \notin Growing

Unanswered(c) == c.kind = "send" /\ ~(c.served /\ c.reply.ok)

(* A send that has not been accepted, one that has, or the reload after      *)
(* "done", when the answer has all its messages.                             *)
Fits(c, v) ==
  /\ c.session = current[v]
  /\ c.kind \in {"send", "reload"}
  /\ ~c.served => ~c.reply.ok
  /\ Unanswered(c) => calls = {c} /\ Quiet /\ running[v]
  /\ c.kind = "reload" =>
       /\ Complete
       /\ \A i \in 1..Len(bus) : bus[i].kind # "message"
       /\ c.served => c.reply.ok /\ c.reply.answers = Answers(current[v])

Tells(e, t) == e.kind = "message" /\ e.turn = t

(* The screen has an answer as it is, or an event will bring it.             *)
Arrives(v, t) ==
  \/ /\ shown[v][t] = Answers(current[v])[t]
     /\ \A i \in 1..Len(bus) : ~Tells(bus[i], t)
  \/ \E i \in 1..Len(bus) :
       /\ Tells(bus[i], t)
       /\ bus[i].version = version[t]
       /\ \A j \in 1..Len(bus) : j > i => ~Tells(bus[j], t)

InOrder(v) ==
  \A i \in 1..Len(bus) :
    /\ SessionOf[bus[i].turn] = current[v]
    /\ bus[i].kind = "message" => bus[i].version # 0
    /\ bus[i].kind = "done" =>
         Complete /\ \A j \in 1..Len(bus) : j > i => bus[j].kind # "message"

Over(e) == e.kind \in {"done", "error"}
(* The screen says what the row says, or an event will make it.              *)
Indicates(v) ==
  IF state[current[v]] = "running"
  THEN running[v] /\ \A i \in 1..Len(bus) : ~Over(bus[i])
  ELSE \/ \E c \in calls : Unanswered(c)
       \/ ~running[v] /\ \A i \in 1..Len(bus) : bus[i].kind # "started"
       \/ \E i \in 1..Len(bus) :
            Over(bus[i]) /\ \A j \in 1..Len(bus) : j > i => bus[j].kind # "started"

Chatting(v) ==
  /\ current[v] \in Sessions
  /\ handlers[current[v]] = v
  /\ OneTurn(v)
  /\ \A c \in calls : Fits(c, v)
  /\ InOrder(v)
  /\ \A t \in Turns : Arrives(v, t)
  /\ artifact[v] = Newest(current[v], shown[v])
  /\ Indicates(v)

Follows(v) ==
  /\ life[v] = "none" => calls = {} /\ Quiet
  /\ life[v] = "starting" => Navigating(v)
  /\ life[v] = "mounted" => Navigating(v) \/ Chatting(v)

-----------------------------------------------------------------------------

LEMMA OneView ==
  ASSUME Careful, TypeOK, NEW v \in Views
  PROVE  /\ InFlight(v) = calls
         /\ \A c \in calls : c.view = v
         /\ \A w \in Views : w = v
         /\ ~CanStop /\ ~CanLose /\ OneAtATime
<1>1. \A c \in calls : c.view \in Views
  BY DEF TypeOK
<1>2. \A c \in calls : c.view = v
  BY <1>1 DEF Careful
<1> QED BY <1>2 DEF Careful, InFlight

LEMMA Appended ==
  ASSUME TypeOK, NEW kind \in {"started", "message", "done", "error"}, NEW t \in Turns,
         version' \in [Turns -> 0..Versions], Emit(kind, t)
  PROVE  /\ Len(bus) \in Nat
         /\ Len(bus') = Len(bus) + 1
         /\ \A i \in 1..Len(bus) : i \in 1..Len(bus') /\ i < Len(bus') /\ bus'[i] = bus[i]
         /\ Len(bus') \in 1..Len(bus')
         /\ \A i \in 1..Len(bus') : i \in 1..Len(bus) \/ i = Len(bus')
         /\ bus'[Len(bus')].kind = kind
         /\ bus'[Len(bus')].turn = t
         /\ bus'[Len(bus')].version = version'[t]
<1>1. Len(bus) \in Nat
  BY DEF TypeOK
<1>2. /\ Len(bus') = Len(bus) + 1
      /\ \A i \in 1..Len(bus) : bus'[i] = bus[i]
      /\ bus'[Len(bus')] = [kind |-> kind, turn |-> t, version |-> version'[t]]
  BY EventsAppended
<1>3. /\ bus'[Len(bus')].kind = kind
      /\ bus'[Len(bus')].turn = t
      /\ bus'[Len(bus')].version = version'[t]
  BY <1>2
<1> QED BY <1>1, <1>2, <1>3

(* An event that is no message leaves the answers where they are. *)
LEMMA ArrivesStill ==
  ASSUME TypeOK, NEW v \in Views, NEW kind \in {"started", "done", "error"}, NEW t \in Turns,
         Emit(kind, t), UNCHANGED <<version, shown, current>>, NEW u \in Turns, Arrives(v, u)
  PROVE  Arrives(v, u)'
<1>1. version' \in [Turns -> 0..Versions]
  BY DEF TypeOK
<1>2. /\ Len(bus) \in Nat
      /\ Len(bus') = Len(bus) + 1
      /\ \A i \in 1..Len(bus) : i \in 1..Len(bus') /\ i < Len(bus') /\ bus'[i] = bus[i]
      /\ \A i \in 1..Len(bus') : i \in 1..Len(bus) \/ i = Len(bus')
      /\ bus'[Len(bus')].kind = kind
  BY <1>1, Appended
<1>3. Answers(current[v])' = Answers(current[v])
  BY DEF Answers
<1>4. ~Tells(bus'[Len(bus')], u)
  BY <1>2 DEF Tells
<1>5. CASE /\ shown[v][u] = Answers(current[v])[u]
           /\ \A i \in 1..Len(bus) : ~Tells(bus[i], u)
  <2>1. \A i \in 1..Len(bus') : ~Tells(bus'[i], u)
    BY <1>2, <1>4, <1>5
  <2> QED BY <1>3, <1>5, <2>1 DEF Arrives
<1>6. ASSUME NEW i \in 1..Len(bus), Tells(bus[i], u), bus[i].version = version[u],
             \A j \in 1..Len(bus) : j > i => ~Tells(bus[j], u)
      PROVE  Arrives(v, u)'
  <2>1. i \in 1..Len(bus') /\ Tells(bus'[i], u) /\ bus'[i].version = version'[u]
    BY <1>2, <1>6
  <2>2. \A j \in 1..Len(bus') : j > i => ~Tells(bus'[j], u)
    BY <1>2, <1>4, <1>6
  <2> QED BY <2>1, <2>2 DEF Arrives
<1> QED BY <1>5, <1>6 DEF Arrives

-----------------------------------------------------------------------------
(* The worker *)

(* While a turn is at work every send has been accepted. *)
LEMMA AtWork ==
  ASSUME Careful, TypeOK, NEW v \in Views, Chatting(v), NEW t \in Turns, phase[t] \in Working
  PROVE  /\ SessionOf[t] = current[v]
         /\ \A u \in Turns : phase[u] \in Working => u = t
         /\ \A c \in calls : ~Unanswered(c)
         /\ phase[t] \in Growing =>
              /\ state[current[v]] = "running"
              /\ running[v]
              /\ \A i \in 1..Len(bus) : ~Over(bus[i])
              /\ \A c \in calls : c.kind = "send"
<1>1. /\ SessionOf[t] = current[v]
      /\ \A u \in Turns : phase[u] \in Working => u = t
  BY DEF Chatting, OneTurn
<1>2. \A c \in calls : ~Unanswered(c)
  BY DEF Chatting, Fits, Quiet
<1>3. ASSUME phase[t] \in Growing
      PROVE  /\ state[current[v]] = "running"
             /\ running[v]
             /\ \A i \in 1..Len(bus) : ~Over(bus[i])
             /\ \A c \in calls : c.kind = "send"
  <2>1. state[current[v]] = "running"
    BY <1>3 DEF Chatting, OneTurn
  <2>2. running[v] /\ \A i \in 1..Len(bus) : ~Over(bus[i])
    BY <2>1 DEF Chatting, Indicates
  <2>3. \A c \in calls : c.kind = "send"
    BY <1>3 DEF Chatting, Fits, Complete
  <2> QED BY <2>1, <2>2, <2>3
<1> QED BY <1>1, <1>2, <1>3

LEMMA SendsFit ==
  ASSUME NEW v \in Views, \A c \in calls : Fits(c, v), \A c \in calls : c.kind = "send",
         \A c \in calls : ~Unanswered(c), UNCHANGED <<calls, current>>
  PROVE  \A c \in calls' : Fits(c, v)'
BY DEF Fits, Unanswered

LEMMA StartFollows ==
  ASSUME Careful, TypeOK, TypeOK', NEW v \in Views, Chatting(v), NEW t \in Turns, Start(t)
  PROVE  Chatting(v)'
<1>1. /\ phase[t] = "starting" /\ phase' = [phase EXCEPT ![t] = "reading"]
      /\ UNCHANGED <<state, version, current, shown, running, artifact, handlers, calls>>
      /\ Emit("started", t)
  BY DEF Start, WorkerOnly, screen
<1>2. /\ SessionOf[t] = current[v] /\ state[current[v]] = "running" /\ running[v]
      /\ \A i \in 1..Len(bus) : ~Over(bus[i])
      /\ \A c \in calls : c.kind = "send" /\ ~Unanswered(c)
  BY <1>1, AtWork DEF Growing
<1>3. /\ Len(bus) \in Nat
      /\ Len(bus') = Len(bus) + 1
      /\ \A i \in 1..Len(bus) : i \in 1..Len(bus') /\ i < Len(bus') /\ bus'[i] = bus[i]
      /\ \A i \in 1..Len(bus') : i \in 1..Len(bus) \/ i = Len(bus')
      /\ bus'[Len(bus')].kind = "started" /\ bus'[Len(bus')].turn = t
  BY <1>1, Appended DEF TypeOK
<1>4. phase \in [Turns -> {"none"} \cup Working \cup Ended]
  BY DEF TypeOK
<1>5. OneTurn(v)'
  BY <1>1, <1>4 DEF Chatting, OneTurn, Growing
<1>6. \A c \in calls' : Fits(c, v)'
  BY <1>1, <1>2, SendsFit DEF Chatting
<1>7. InOrder(v)'
  BY <1>1, <1>2, <1>3 DEF Chatting, InOrder, Over
<1>8. \A u \in Turns : Arrives(v, u)'
  BY <1>1, ArrivesStill DEF Chatting
<1>9. Indicates(v)'
  BY <1>1, <1>2, <1>3 DEF Indicates, Over
<1> QED BY <1>1, <1>5, <1>6, <1>7, <1>8, <1>9 DEF Chatting, Newest

LEMMA MessageFollows ==
  ASSUME Careful, TypeOK, TypeOK', NEW v \in Views, Chatting(v), NEW t \in Turns, Update(t)
  PROVE  Chatting(v)'
<1>1. /\ phase[t] = "reading" /\ version' = [version EXCEPT ![t] = @ + 1]
      /\ UNCHANGED <<state, phase, current, shown, running, artifact, handlers, calls>>
      /\ Emit("message", t)
  BY DEF Update, WorkerOnly, screen
<1>2. /\ SessionOf[t] = current[v] /\ state[current[v]] = "running" /\ running[v]
      /\ \A i \in 1..Len(bus) : ~Over(bus[i])
      /\ \A c \in calls : c.kind = "send" /\ ~Unanswered(c)
  BY <1>1, AtWork DEF Growing
<1>3. /\ Len(bus) \in Nat
      /\ Len(bus') = Len(bus) + 1
      /\ \A i \in 1..Len(bus) : i \in 1..Len(bus') /\ i < Len(bus') /\ bus'[i] = bus[i]
      /\ Len(bus') \in 1..Len(bus')
      /\ \A i \in 1..Len(bus') : i \in 1..Len(bus) \/ i = Len(bus')
      /\ bus'[Len(bus')].kind = "message" /\ bus'[Len(bus')].turn = t
      /\ bus'[Len(bus')].version = version'[t]
  BY <1>1, Appended DEF TypeOK
<1>4. version \in [Turns -> Nat] /\ version'[t] # 0
  <2>1. version \in [Turns -> Nat]
    BY BoundAssumption DEF TypeOK
  <2> QED BY <1>1, <2>1
<1>5. OneTurn(v)'
  BY <1>1 DEF Chatting, OneTurn
<1>6. \A c \in calls' : Fits(c, v)'
  BY <1>1, <1>2, SendsFit DEF Chatting
<1>7. InOrder(v)'
  BY <1>1, <1>2, <1>3, <1>4 DEF Chatting, InOrder, Over
<1>8. Arrives(v, t)'
  BY <1>3 DEF Arrives, Tells
<1>9. ASSUME NEW u \in Turns, u # t PROVE Arrives(v, u)'
  <2>1. Answers(current[v])'[u] = Answers(current[v])[u] /\ version'[u] = version[u]
    BY <1>1, <1>4, <1>9 DEF Answers
  <2>2. ~Tells(bus'[Len(bus')], u)
    BY <1>3, <1>9 DEF Tells
  <2>3. CASE /\ shown[v][u] = Answers(current[v])[u]
             /\ \A i \in 1..Len(bus) : ~Tells(bus[i], u)
    <3>1. \A i \in 1..Len(bus') : ~Tells(bus'[i], u)
      BY <1>3, <2>2, <2>3
    <3> QED BY <1>1, <2>1, <2>3, <3>1 DEF Arrives
  <2>4. ASSUME NEW i \in 1..Len(bus), Tells(bus[i], u), bus[i].version = version[u],
               \A j \in 1..Len(bus) : j > i => ~Tells(bus[j], u)
        PROVE  Arrives(v, u)'
    <3>1. i \in 1..Len(bus') /\ Tells(bus'[i], u) /\ bus'[i].version = version'[u]
      BY <1>3, <2>1, <2>4
    <3>2. \A j \in 1..Len(bus') : j > i => ~Tells(bus'[j], u)
      BY <1>3, <2>2, <2>4
    <3> QED BY <3>1, <3>2 DEF Arrives
  <2> QED BY <2>3, <2>4 DEF Chatting, Arrives
<1>10. Indicates(v)'
  BY <1>1, <1>2, <1>3 DEF Indicates, Over
<1> QED BY <1>1, <1>5, <1>6, <1>7, <1>8, <1>9, <1>10 DEF Chatting, Newest

(* A turn that ends: its answer is complete, its last event tells so. *)
LEMMA SettleFollows ==
  ASSUME Careful, TypeOK, TypeOK', NEW v \in Views, Chatting(v), NEW t \in Turns,
         phase[t] \in Working, NEW to \in {"closing", "over"}, NEW outcome \in {"done", "error"},
         Settle(t, to, outcome)
  PROVE  Chatting(v)'
<1>1. /\ phase' = [phase EXCEPT ![t] = to]
      /\ state' = [state EXCEPT ![SessionOf[t]] = outcome]
      /\ UNCHANGED <<version, current, shown, running, artifact, handlers, calls>>
      /\ Emit(outcome, t)
  BY DEF Settle, WorkerOnly, screen
<1>2. /\ SessionOf[t] = current[v]
      /\ \A u \in Turns : phase[u] \in Working => u = t
      /\ \A c \in calls : ~Unanswered(c)
  BY AtWork
<1>3. /\ Len(bus) \in Nat
      /\ Len(bus') = Len(bus) + 1
      /\ \A i \in 1..Len(bus) : i \in 1..Len(bus') /\ i < Len(bus') /\ bus'[i] = bus[i]
      /\ Len(bus') \in 1..Len(bus')
      /\ \A i \in 1..Len(bus') : i \in 1..Len(bus) \/ i = Len(bus')
      /\ bus'[Len(bus')].kind = outcome /\ bus'[Len(bus')].turn = t
  <2>1. outcome \in {"started", "message", "done", "error"} /\ version' \in [Turns -> 0..Versions]
    BY DEF TypeOK
  <2>2. Emit(outcome, t)
    BY <1>1
  <2> QED BY <2>1, <2>2, Appended
<1>4. phase \in [Turns -> {"none"} \cup Working \cup Ended] /\ state \in [Sessions -> States]
  BY DEF TypeOK
<1>5. Complete'
  BY <1>1, <1>2, <1>4 DEF Complete, Growing
<1>6. \A s \in Sessions : state'[s] # "running"
  BY <1>1, <1>2, <1>4 DEF Chatting, OneTurn
<1>7. OneTurn(v)'
  BY <1>1, <1>2, <1>4, <1>5, <1>6 DEF Chatting, OneTurn, Complete
<1>8. Answers(current[v])' = Answers(current[v])
  BY <1>1 DEF Answers
<1>9. ASSUME NEW c \in calls PROVE Fits(c, v)'
  <2>1. c.kind = "reload" => \A i \in 1..Len(bus') : bus'[i].kind # "message"
    BY <1>3 DEF Chatting, Fits
  <2> QED BY <1>1, <1>2, <1>5, <1>8, <2>1 DEF Chatting, Fits, Unanswered
<1>10. InOrder(v)'
  BY <1>1, <1>2, <1>3, <1>5 DEF Chatting, InOrder
<1>11. \A u \in Turns : Arrives(v, u)'
  BY <1>1, ArrivesStill DEF Chatting
<1>12. Indicates(v)'
  BY <1>1, <1>3, <1>6 DEF Chatting, Indicates, Over
<1> QED BY <1>1, <1>7, <1>9, <1>10, <1>11, <1>12 DEF Chatting, Newest

LEMMA QuietEndFollows ==
  ASSUME Careful, TypeOK, TypeOK', NEW v \in Views, Chatting(v), NEW t \in Turns, FinishQuietly(t)
  PROVE  Chatting(v)'
<1>1. /\ phase[t] \in Working /\ phase' = [phase EXCEPT ![t] = "over"]
      /\ state[SessionOf[t]] # "running"
      /\ UNCHANGED <<state, version, bus, current, shown, running, artifact, handlers, calls>>
  BY DEF FinishQuietly, WorkerOnly, screen
<1>2. /\ SessionOf[t] = current[v]
      /\ \A u \in Turns : phase[u] \in Working => u = t
      /\ \A c \in calls : ~Unanswered(c)
  BY <1>1, AtWork
<1>3. phase \in [Turns -> {"none"} \cup Working \cup Ended]
  BY DEF TypeOK
<1>4. Complete'
  BY <1>1, <1>2, <1>3 DEF Complete, Growing
<1>5. \A s \in Sessions : state[s] # "running"
  BY <1>1, <1>2 DEF Chatting, OneTurn
<1>6. OneTurn(v)'
  BY <1>1, <1>2, <1>3, <1>4, <1>5 DEF Chatting, OneTurn, Complete
<1>7. Answers(current[v])' = Answers(current[v])
  BY <1>1 DEF Answers
<1>8. ASSUME NEW c \in calls PROVE Fits(c, v)'
  BY <1>1, <1>2, <1>4, <1>7 DEF Chatting, Fits, Unanswered
<1>9. InOrder(v)'
  BY <1>1, <1>4 DEF Chatting, InOrder
<1>10. \A u \in Turns : Arrives(v, u)'
  BY <1>1, <1>7 DEF Chatting, Arrives
<1>11. Indicates(v)'
  BY <1>1 DEF Chatting, Indicates, Unanswered
<1> QED BY <1>1, <1>6, <1>8, <1>9, <1>10, <1>11 DEF Chatting, Newest

LEMMA WorkerFollows ==
  ASSUME Careful, TypeOK, TypeOK', NEW v \in Views, Follows(v), NEW t \in Turns, Work(t) \/ Fail(t)
  PROVE  Follows(v)'
<1>1. phase[t] \in Working /\ UNCHANGED life
  BY DEF Work, Start, Message, Update, Result, Finish, FinishQuietly, Fail, Settle, WorkerOnly,
         screen
<1>2. life[v] \in {"none", "starting", "mounted", "gone"}
  BY DEF TypeOK
<1>3. CASE life[v] = "gone"
  BY <1>1, <1>3 DEF Follows
<1>4. CASE life[v] # "gone"
  <2>1. ~Quiet
    BY <1>1 DEF Quiet
  <2>2. life[v] = "mounted" /\ Chatting(v)
    BY <1>2, <1>4, <2>1 DEF Follows, Navigating
  <2>3. Chatting(v)'
    BY <1>1, <2>2, StartFollows, MessageFollows, SettleFollows, QuietEndFollows
       DEF Work, Message, Result, Finish, Fail
  <2> QED BY <1>1, <2>2, <2>3 DEF Follows
<1> QED BY <1>3, <1>4

-----------------------------------------------------------------------------
(* The bus *)

LEMMA DeliverFollows ==
  ASSUME Careful, TypeOK, TypeOK', NEW v \in Views, Chatting(v), Deliver
  PROVE  Chatting(v)'
<1> DEFINE e == Head(bus)
<1>1. /\ Head(bus) \in Events /\ Head(bus) = bus[1] /\ 1 \in 1..Len(bus)
      /\ \A i \in 1..Len(bus') : i + 1 \in 1..Len(bus) /\ bus'[i] = bus[i + 1]
      /\ \A i \in 1..Len(bus) : i = 1 \/ (i - 1 \in 1..Len(bus') /\ bus'[i - 1] = bus[i])
      /\ Len(bus) \in Nat /\ Len(bus') \in Nat /\ bus # <<>>
  <2>1. bus \in Seq(Events) /\ bus # <<>> /\ bus' = Tail(bus)
    BY DEF TypeOK, Deliver
  <2>2. /\ Head(bus) \in Events /\ Head(bus) = bus[1] /\ 1 \in 1..Len(bus)
        /\ \A i \in 1..Len(bus') : i + 1 \in 1..Len(bus) /\ bus'[i] = bus[i + 1]
    BY <2>1, HeadAndTail
  <2>3. Len(bus) \in Nat /\ Len(bus') = Len(bus) - 1
    BY <2>1
  <2>4. ASSUME NEW i \in 1..Len(bus), i # 1
        PROVE  i - 1 \in 1..Len(bus') /\ bus'[i - 1] = bus[i]
    <3>1. i - 1 \in 1..Len(bus')
      BY <2>3, <2>4
    <3>2. bus'[i - 1] = bus[(i - 1) + 1]
      BY <2>2, <3>1
    <3> QED BY <2>4, <3>1, <3>2
  <2> QED BY <2>1, <2>2, <2>3, <2>4
<1>2. /\ SessionOf[e.turn] = current[v]
      /\ e.kind = "message" => e.version # 0
      /\ e.kind = "done" =>
           Complete /\ \A j \in 1..Len(bus) : j > 1 => bus[j].kind # "message"
  BY <1>1 DEF Chatting, InOrder
<1>3. OnBusEvent(e, v) /\ UNCHANGED <<state, phase, version, handlers, current>>
  BY <1>2, SessionAssumption DEF Chatting, Deliver, OnBusEvent, database
<1>4. /\ e.turn \in Turns /\ e.version \in Nat /\ e.version \in 0..Versions
      /\ e.kind \in {"started", "message", "done", "error"}
  BY <1>1, BoundAssumption
<1> HIDE DEF e
<1>5. /\ running'[v] = Runs(e, running[v])
      /\ \A t \in Turns : shown'[v][t] = IF Tells(e, t) THEN e.version ELSE shown[v][t]
      /\ artifact'[v] = IF e.kind = "message" THEN SessionOf[e.turn] ELSE artifact[v]
  <2>1. shown[v] \in [Turns -> 0..Versions]
    BY DEF TypeOK
  <2> QED BY <1>3, <1>4, <2>1 DEF TypeOK, OnBusEvent, Upsert, Tells
<1>6. OneTurn(v)' /\ Answers(current[v])' = Answers(current[v])
  BY <1>3 DEF Chatting, OneTurn, Answers
<1>7. \A c \in calls : ~Unanswered(c)
  BY <1>1 DEF Chatting, Fits, Quiet
<1>8. \A c \in calls' : Fits(c, v)'
  <2>1. ASSUME NEW c \in calls PROVE Fits(c, v)'
    <3>1. Fits(c, v) /\ ~Unanswered(c)
      BY <1>7, <2>1 DEF Chatting
    <3>2. c.kind = "reload" => Complete' /\ \A i \in 1..Len(bus') : bus'[i].kind # "message"
      BY <1>1, <1>3, <3>1 DEF Fits, Complete
    <3> QED BY <1>3, <1>6, <3>1, <3>2 DEF Fits, Unanswered
  <2>2. ASSUME e.kind = "done", NEW c, c = Call(v, "reload", current[v]) PROVE Fits(c, v)'
    <3>1. Complete' /\ \A i \in 1..Len(bus') : bus'[i].kind # "message"
      BY <1>1, <1>2, <1>3, <2>2 DEF Complete
    <3>2. c.session = current[v] /\ c.kind = "reload" /\ ~c.served /\ ~c.reply.ok
      BY <2>2 DEF Call, NoReply
    <3> QED BY <1>3, <3>1, <3>2 DEF Fits, Unanswered
  <2>3. \A c \in calls' : c \in calls \/ (e.kind = "done" /\ c = Call(v, "reload", current[v]))
    BY <1>3 DEF OnBusEvent
  <2> QED BY <2>1, <2>2, <2>3
<1>9. InOrder(v)'
  <2> SUFFICES ASSUME NEW i \in 1..Len(bus')
      PROVE  /\ SessionOf[bus'[i].turn] = current'[v]
             /\ bus'[i].kind = "message" => bus'[i].version # 0
             /\ bus'[i].kind = "done" =>
                  Complete' /\ \A j \in 1..Len(bus') : j > i => bus'[j].kind # "message"
    BY DEF InOrder
  <2>1. i + 1 \in 1..Len(bus) /\ bus'[i] = bus[i + 1]
    BY <1>1
  <2>2. /\ SessionOf[bus[i + 1].turn] = current[v]
        /\ bus[i + 1].kind = "message" => bus[i + 1].version # 0
        /\ bus[i + 1].kind = "done" =>
             Complete /\ \A j \in 1..Len(bus) : j > i + 1 => bus[j].kind # "message"
    BY <2>1 DEF Chatting, InOrder
  <2>3. ASSUME bus[i + 1].kind = "done", NEW j \in 1..Len(bus'), j > i
        PROVE  bus'[j].kind # "message"
    <3>1. j + 1 \in 1..Len(bus) /\ bus'[j] = bus[j + 1] /\ j + 1 > i + 1
      BY <1>1, <2>3
    <3> QED BY <2>2, <2>3, <3>1
  <2>4. Complete => Complete'
    BY <1>3 DEF Complete
  <2> QED BY <1>3, <2>1, <2>2, <2>3, <2>4
<1>10. ASSUME NEW t \in Turns PROVE Arrives(v, t)'
  <2>1. CASE /\ shown[v][t] = Answers(current[v])[t]
             /\ \A i \in 1..Len(bus) : ~Tells(bus[i], t)
    <3>1. ~Tells(e, t) /\ \A i \in 1..Len(bus') : ~Tells(bus'[i], t)
      BY <1>1, <2>1 DEF e
    <3> QED BY <1>5, <1>6, <2>1, <3>1 DEF Arrives
  <2>2. ASSUME NEW i \in 1..Len(bus), Tells(bus[i], t), bus[i].version = version[t],
               \A j \in 1..Len(bus) : j > i => ~Tells(bus[j], t)
        PROVE  Arrives(v, t)'
    <3>1. CASE i = 1
      <4>1. Tells(e, t) /\ e.version = version[t] /\ e.turn = t
        BY <1>1, <2>2, <3>1 DEF e, Tells
      <4>2. shown'[v][t] = Answers(current[v])'[t]
        BY <1>2, <1>5, <1>6, <4>1 DEF Answers
      <4>3. \A j \in 1..Len(bus') : ~Tells(bus'[j], t)
        BY <1>1, <2>2, <3>1
      <4> QED BY <4>2, <4>3 DEF Arrives
    <3>2. CASE i # 1
      <4>1. i - 1 \in 1..Len(bus') /\ bus'[i - 1] = bus[i]
        BY <1>1, <3>2
      <4>2. ASSUME NEW j \in 1..Len(bus'), j > i - 1 PROVE ~Tells(bus'[j], t)
        <5>1. j + 1 \in 1..Len(bus) /\ bus'[j] = bus[j + 1]
          BY <1>1
        <5>2. j + 1 > i
          BY <4>2
        <5> QED BY <2>2, <5>1, <5>2
      <4> QED BY <1>3, <2>2, <4>1, <4>2 DEF Arrives
    <3> QED BY <3>1, <3>2
  <2> QED BY <2>1, <2>2 DEF Chatting, Arrives
<1>11. artifact'[v] = Newest(current'[v], shown'[v])
  <2>1. CASE e.kind = "message"
    <3>1. shown'[v][e.turn] > 0
      BY <1>2, <1>4, <1>5, <2>1 DEF Tells
    <3> QED BY <1>2, <1>3, <1>4, <1>5, <2>1, <3>1 DEF Newest
  <2>2. CASE e.kind # "message"
    BY <1>3, <1>5, <2>2 DEF Chatting, Newest, Tells
  <2> QED BY <2>1, <2>2
<1>12. Indicates(v)'
  <2>1. CASE state[current[v]] = "running"
    <3>1. running[v] /\ ~Over(e) /\ \A i \in 1..Len(bus') : ~Over(bus'[i])
      BY <1>1, <2>1 DEF e, Chatting, Indicates
    <3>2. running'[v]
      BY <1>4, <1>5, <3>1 DEF Runs, Over
    <3> QED BY <1>3, <2>1, <3>1, <3>2 DEF Indicates
  <2>2. CASE state[current[v]] # "running" /\ ~running[v]
             /\ \A i \in 1..Len(bus) : bus[i].kind # "started"
    <3>1. \A i \in 1..Len(bus') : bus'[i].kind # "started"
      BY <1>1, <2>2
    <3>2. e.kind # "started"
      BY <1>1, <2>2 DEF e
    <3>3. ~running'[v]
      BY <1>5, <2>2, <3>2 DEF Runs
    <3> QED BY <1>3, <2>2, <3>1, <3>3 DEF Indicates
  <2>3. ASSUME state[current[v]] # "running", NEW i \in 1..Len(bus), Over(bus[i]),
               \A j \in 1..Len(bus) : j > i => bus[j].kind # "started"
        PROVE  Indicates(v)'
    <3>1. CASE i = 1
      <4>1. ~running'[v]
        BY <1>1, <1>5, <2>3, <3>1 DEF e, Runs, Over
      <4>2. ASSUME NEW j \in 1..Len(bus') PROVE bus'[j].kind # "started"
        <5>1. j + 1 \in 1..Len(bus) /\ bus'[j] = bus[j + 1] /\ j + 1 > 1
          BY <1>1
        <5> QED BY <2>3, <3>1, <5>1
      <4> QED BY <1>3, <2>3, <4>1, <4>2 DEF Indicates
    <3>2. CASE i # 1
      <4>1. i - 1 \in 1..Len(bus') /\ bus'[i - 1] = bus[i]
        BY <1>1, <3>2
      <4>2. ASSUME NEW j \in 1..Len(bus'), j > i - 1 PROVE bus'[j].kind # "started"
        <5>1. j + 1 \in 1..Len(bus) /\ bus'[j] = bus[j + 1]
          BY <1>1
        <5>2. j + 1 > i
          BY <4>2
        <5> QED BY <2>3, <5>1, <5>2
      <4> QED BY <1>3, <2>3, <4>1, <4>2 DEF Indicates
    <3> QED BY <3>1, <3>2
  <2> QED BY <1>7, <2>1, <2>2, <2>3 DEF Chatting, Indicates
<1> QED BY <1>3, <1>6, <1>8, <1>9, <1>10, <1>11, <1>12 DEF Chatting

-----------------------------------------------------------------------------
(* The server *)

LEMMA ServedCall ==
  ASSUME TypeOK, NEW c \in calls, NEW s, Serve(c, s)
  PROVE  \E d : /\ calls' = (calls \ {c}) \cup {d}
                /\ d.kind = c.kind /\ d.session = c.session /\ d.served
                /\ d.reply.ok /\ d.reply.session = s /\ d.reply.answers = Answers(s)
                /\ d.reply.state = IF s = NoSession THEN "idle" ELSE state[s]
<1> DEFINE r == [ok |-> TRUE, session |-> s,
                 state |-> IF s = NoSession THEN "idle" ELSE state[s], answers |-> Answers(s)]
           d == [c EXCEPT !.served = TRUE, !.reply = r]
<1>1. calls' = (calls \ {c}) \cup {d}
  BY DEF Serve
<1>2. c \in CallRecords
  BY DEF TypeOK
<1>3. /\ r.ok /\ r.session = s /\ r.answers = Answers(s)
      /\ r.state = IF s = NoSession THEN "idle" ELSE state[s]
  OBVIOUS
<1> HIDE DEF r
<1>4. d.kind = c.kind /\ d.session = c.session /\ d.served = TRUE /\ d.reply = r
  BY <1>2
<1> HIDE DEF d
<1> QED BY <1>1, <1>3, <1>4

LEMMA RefusedCall ==
  ASSUME TypeOK, NEW c \in calls, ServeError(c)
  PROVE  \E d : /\ calls' = (calls \ {c}) \cup {d}
                /\ d.kind = c.kind /\ d.session = c.session /\ d.served /\ d.reply = c.reply
<1> DEFINE d == [c EXCEPT !.served = TRUE]
<1>1. calls' = (calls \ {c}) \cup {d}
  BY DEF ServeError
<1>2. c \in CallRecords
  BY DEF TypeOK
<1>3. d.kind = c.kind /\ d.session = c.session /\ d.served = TRUE /\ d.reply = c.reply
  BY <1>2
<1> HIDE DEF d
<1> QED BY <1>1, <1>3

(* A call the server serves while the view goes to another conversation. *)
LEMMA ServeLeads ==
  ASSUME Careful, TypeOK, NEW v \in Views, Navigating(v), NEW c \in calls, ServeCall(c)
  PROVE  Navigating(v)'
<1>1. Quiet /\ calls = {c} /\ Leads(c, v) /\ c.kind \in {"list", "new", "open"}
  BY DEF Navigating, Leads
<1>2. \/ ServeRead(c) /\ c.kind = "open"
      \/ ServeList(c) \/ ServeNew(c)
  BY <1>1 DEF ServeCall, ServeRead, ServeSend, ServeStop
<1>3. UNCHANGED <<state, phase, bus, handlers, current>> /\ Quiet'
  BY <1>1, <1>2 DEF ServeRead, ServeList, ServeNew, database, screen, Quiet
<1>4. ASSUME NEW s, Serve(c, s), c.kind = "new" => s \in Sessions,
             c.kind = "open" => s = c.session
      PROVE  Navigating(v)'
  <2>1. PICK d : /\ calls' = (calls \ {c}) \cup {d}
                 /\ d.kind = c.kind /\ d.session = c.session /\ d.served
                 /\ d.reply.ok /\ d.reply.session = s /\ d.reply.answers = Answers(s)
                 /\ d.reply.state = IF s = NoSession THEN "idle" ELSE state[s]
    BY <1>4, ServedCall
  <2>2. calls' = {d}
    BY <1>1, <2>1
  <2>3. c.kind = "open" => /\ c.session = current[v] /\ current[v] \in Sessions
                           /\ handlers[current[v]] = v
    BY <1>1 DEF Leads
  <2>4. c.kind = "open" => d.reply.state # "running" /\ d.reply.answers = Answers(current[v])
    BY <1>1, <1>4, <2>1, <2>3 DEF Quiet
  <2>5. Answers(current[v])' = Answers(current[v])
    BY <1>2, <1>3 DEF ServeRead, ServeList, ServeNew, database, Answers
  <2>6. Leads(d, v)'
    BY <1>1, <1>3, <1>4, <2>1, <2>3, <2>4, <2>5 DEF Leads
  <2> QED BY <1>3, <2>2, <2>6 DEF Navigating
<1> QED BY <1>2, <1>4 DEF ServeRead, ServeList, ServeNew

LEMMA ServeReload ==
  ASSUME Careful, TypeOK, NEW v \in Views, Chatting(v), NEW c \in calls, ServeRead(c)
  PROVE  Chatting(v)'
<1>1. /\ c.kind = "reload" /\ c.session = current[v] /\ Serve(c, c.session)
      /\ UNCHANGED <<state, phase, version, bus, handlers, current, shown, running, artifact>>
  BY DEF Chatting, Fits, ServeRead, database, screen
<1>2. \A d \in calls : ~Unanswered(d)
  BY <1>1 DEF Chatting, Fits, Unanswered
<1>3. PICK d : /\ calls' = (calls \ {c}) \cup {d}
               /\ d.kind = c.kind /\ d.session = c.session /\ d.served
               /\ d.reply.ok /\ d.reply.answers = Answers(c.session)
  BY <1>1, ServedCall
<1>4. Answers(current[v])' = Answers(current[v])
  BY <1>1 DEF Answers
<1>5. \A x \in calls : Fits(x, v)'
  BY <1>1, <1>2, <1>4 DEF Chatting, Fits, Unanswered, Complete
<1>6. Fits(d, v)'
  <2>1. Complete' /\ \A i \in 1..Len(bus') : bus'[i].kind # "message"
    BY <1>1 DEF Chatting, Fits, Complete
  <2> QED BY <1>1, <1>3, <1>4, <2>1 DEF Fits, Unanswered
<1>7. OneTurn(v)' /\ InOrder(v)' /\ \A t \in Turns : Arrives(v, t)'
  BY <1>1, <1>4 DEF Chatting, OneTurn, InOrder, Complete, Arrives
<1>8. Indicates(v)'
  BY <1>1, <1>2 DEF Chatting, Indicates
<1> QED BY <1>1, <1>3, <1>5, <1>6, <1>7, <1>8 DEF Chatting, Newest

LEMMA ServeSendFollows ==
  ASSUME Careful, TypeOK, TypeOK', NEW v \in Views, Chatting(v), NEW c \in calls, ServeSend(c)
  PROVE  Chatting(v)'
<1>1. /\ c.kind = "send" /\ ~c.served /\ c.session = current[v] /\ ~c.reply.ok
      /\ current[v] \in Sessions
      /\ UNCHANGED <<version, bus, handlers, current, shown, running, artifact>>
  BY DEF Chatting, Fits, ServeSend, screen
<1>2. calls = {c} /\ Quiet /\ running[v]
  BY <1>1 DEF Chatting, Fits, Unanswered
<1>3. bus = <<>> /\ bus' = <<>> /\ Len(bus) = 0 /\ Len(bus') = 0
  BY <1>1, <1>2 DEF Quiet
<1>4. InOrder(v)' /\ \A t \in Turns : Arrives(v, t)'
  <2>1. Answers(current[v])' = Answers(current[v])
    BY <1>1 DEF Answers
  <2> QED BY <1>1, <1>3, <2>1 DEF Chatting, InOrder, Arrives
<1>5. artifact'[v] = Newest(current'[v], shown'[v])
  BY <1>1 DEF Chatting, Newest
<1>6. CASE ServeError(c) /\ UNCHANGED <<state, phase>>
  <2>1. PICK d : /\ calls' = (calls \ {c}) \cup {d}
                 /\ d.kind = c.kind /\ d.session = c.session /\ d.served /\ d.reply = c.reply
    BY <1>6, RefusedCall
  <2>2. calls' = {d}
    BY <1>2, <2>1
  <2>3. Quiet'
    BY <1>1, <1>2, <1>6 DEF Quiet
  <2>4. \A x \in calls' : Fits(x, v)' /\ Unanswered(x)
    BY <1>1, <1>2, <2>1, <2>2, <2>3 DEF Fits, Unanswered
  <2>5. OneTurn(v)'
    BY <1>1, <1>6 DEF Chatting, OneTurn
  <2>6. Indicates(v)'
    BY <1>1, <1>2, <1>6, <2>2, <2>4 DEF Quiet, Indicates
  <2> QED BY <1>1, <1>4, <1>5, <2>4, <2>5, <2>6 DEF Chatting
<1>7. ASSUME NEW t \in InConversation(c.session), phase' = [phase EXCEPT ![t] = "starting"],
             state' = [state EXCEPT ![c.session] = "running"], Serve(c, c.session)
      PROVE  Chatting(v)'
  <2>1. PICK d : /\ calls' = (calls \ {c}) \cup {d}
                 /\ d.kind = c.kind /\ d.session = c.session /\ d.served /\ d.reply.ok
    BY <1>7, ServedCall
  <2>2. calls' = {d}
    BY <1>2, <2>1
  <2>3. \A x \in calls' : Fits(x, v)'
    BY <1>1, <2>1, <2>2 DEF Fits, Unanswered
  <2>4. t \in Turns /\ SessionOf[t] = current[v]
    BY <1>1, <1>7 DEF InConversation
  <2>5. phase \in [Turns -> {"none"} \cup Working \cup Ended] /\ state \in [Sessions -> States]
    BY DEF TypeOK
  <2>6. /\ \A u \in Turns : phase'[u] \in Working <=> u = t
        /\ phase'[t] \in Growing
        /\ \A s \in Sessions : state'[s] = "running" <=> s = current[v]
    BY <1>1, <1>2, <1>7, <2>4, <2>5 DEF Quiet, Growing
  <2>7. OneTurn(v)'
    BY <1>1, <2>4, <2>6 DEF OneTurn
  <2>8. Indicates(v)'
    BY <1>1, <1>2, <1>3, <2>6 DEF Indicates
  <2> QED BY <1>1, <1>4, <1>5, <2>3, <2>7, <2>8 DEF Chatting
<1> QED BY <1>6, <1>7 DEF ServeSend

LEMMA ServeFollows ==
  ASSUME Careful, TypeOK, TypeOK', NEW v \in Views, Follows(v), NEW c \in calls, ServeCall(c)
  PROVE  Follows(v)'
<1>1. UNCHANGED life
  BY DEF ServeCall, ServeRead, ServeList, ServeNew, ServeSend, ServeStop, screen
<1>2. CASE Navigating(v) /\ life[v] # "none"
  <2>1. Navigating(v)'
    BY <1>2, ServeLeads
  <2> QED BY <1>1, <1>2, <2>1 DEF Follows
<1>3. CASE Chatting(v) /\ life[v] = "mounted"
  <2>1. c.kind \in {"send", "reload"}
    BY <1>3 DEF Chatting, Fits
  <2>2. ServeRead(c) \/ ServeSend(c)
    BY <2>1 DEF ServeCall, ServeList, ServeNew, ServeStop
  <2>3. Chatting(v)'
    BY <1>3, <2>2, ServeReload, ServeSendFollows
  <2> QED BY <1>1, <1>3, <2>3 DEF Follows
<1>4. CASE life[v] = "gone"
  BY <1>1, <1>4 DEF Follows
<1>5. life[v] \in {"none", "starting", "mounted", "gone"}
  BY DEF TypeOK
<1> QED BY <1>2, <1>3, <1>4, <1>5 DEF Follows

-----------------------------------------------------------------------------
(* What comes back *)

(* The reply to a list or to a new conversation leads on, the reply to an    *)
(* open shows the conversation.                                              *)
LEMMA ReplyLeads ==
  ASSUME Careful, TypeOK, NEW v \in Views, Navigating(v), NEW c \in calls, Reply(c)
  PROVE  \/ Navigating(v)' /\ UNCHANGED life
         \/ Chatting(v)' /\ life' = [life EXCEPT ![v] = IF @ = "starting" THEN "mounted" ELSE @]
<1>1. Quiet /\ calls = {c} /\ Leads(c, v) /\ c.kind \in {"list", "new", "open"}
  BY DEF Navigating, Leads
<1>2. c.view = v /\ UNCHANGED <<state, phase, version, bus>> /\ Quiet'
  BY <1>1, OneView DEF Reply, database, Quiet
<1>3. CASE ReplyOpen(c)
  <2>1. /\ c.session = current[v] /\ current[v] \in Sessions /\ handlers[current[v]] = v
        /\ c.reply.answers = Answers(current[v]) /\ c.reply.state # "running"
    BY <1>1, <1>3 DEF Leads, Reply, ReplyOpen
  <2>2. /\ shown'[v] = c.reply.answers /\ ~running'[v]
        /\ artifact'[v] = Newest(c.session, c.reply.answers)
        /\ calls' = {} /\ UNCHANGED <<current, handlers>>
    BY <1>1, <1>2, <1>3, <2>1 DEF TypeOK, ReplyOpen
  <2>3. Answers(current[v])' = Answers(current[v])
    BY <1>2, <2>2 DEF Answers
  <2>4. bus' = <<>> /\ Len(bus') = 0
    BY <1>2 DEF Quiet
  <2>5. OneTurn(v)' /\ InOrder(v)' /\ \A t \in Turns : Arrives(v, t)'
    BY <1>2, <2>1, <2>2, <2>3, <2>4 DEF Quiet, OneTurn, InOrder, Arrives, Growing
  <2>6. Indicates(v)'
    BY <1>2, <2>1, <2>2, <2>4 DEF Quiet, Indicates
  <2>7. Chatting(v)'
    BY <2>1, <2>2, <2>5, <2>6 DEF Chatting, Newest
  <2> QED BY <1>2, <1>3, <2>7 DEF ReplyOpen
<1>4. CASE ReplySession(c)
  <2> DEFINE s == c.reply.session
  <2>1. s \in Sessions
    BY <1>1, <1>4 DEF TypeOK, Reply, ReplySession, Leads
  <2> HIDE DEF s
  <2>2. /\ calls' = {Call(v, "open", s)} /\ current'[v] = s /\ handlers'[s] = v
        /\ UNCHANGED life
    BY <1>1, <1>2, <1>4, <2>1 DEF s, TypeOK, ReplySession, OpenSession, Registered
  <2>3. ASSUME NEW d, d = Call(v, "open", s) PROVE Leads(d, v)'
    <3>1. d.kind = "open" /\ d.session = s /\ ~d.served
      BY <2>3 DEF Call
    <3> QED BY <2>1, <2>2, <3>1 DEF Leads
  <2> QED BY <1>2, <2>2, <2>3 DEF Navigating
<1>5. CASE ReplyNone(c)
  <2>1. calls' = {Call(v, "new", NoSession)} /\ UNCHANGED life
    BY <1>1, <1>2, <1>5 DEF ReplyNone, screen
  <2>2. ASSUME NEW d, d = Call(v, "new", NoSession) PROVE Leads(d, v)'
    <3>1. d.kind = "new" /\ ~d.served
      BY <2>2 DEF Call
    <3> QED BY <3>1 DEF Leads
  <2> QED BY <1>2, <2>1, <2>2 DEF Navigating
<1> QED
  BY <1>1, <1>3, <1>4, <1>5 DEF Reply, ReplyReload, ReplySend, ReplyStop

LEMMA ReplyShows ==
  ASSUME Careful, TypeOK, NEW v \in Views, Chatting(v), NEW c \in calls, Reply(c)
  PROVE  Chatting(v)' /\ UNCHANGED life
<1>1. /\ c.kind \in {"send", "reload"} /\ c.served /\ c.reply.ok /\ c.view = v
      /\ UNCHANGED <<state, phase, version, bus>>
  BY OneView DEF Chatting, Fits, Reply, database
<1>2. \A d \in calls : ~Unanswered(d)
  BY <1>1 DEF Chatting, Fits, Unanswered
<1>3. ReplyReload(c) \/ ReplySend(c)
  BY <1>1 DEF Reply, ReplyOpen, ReplySession, ReplyNone, ReplyStop
<1>4. /\ calls' = calls \ {c}
      /\ UNCHANGED <<life, current, running, artifact, handlers>>
  BY <1>3 DEF ReplyReload, ReplySend, screen
<1>5. Answers(current[v])' = Answers(current[v])
  BY <1>1, <1>4 DEF Answers
<1>6. \A t \in Turns : shown'[v][t] = shown[v][t]
  <2>1. CASE ReplySend(c)
    BY <2>1 DEF ReplySend, screen
  <2>2. CASE ReplyReload(c)
    <3>1. /\ c.reply.answers = Answers(current[v])
          /\ \A i \in 1..Len(bus) : bus[i].kind # "message"
      BY <1>1, <2>2 DEF Chatting, Fits, ReplyReload
    <3>2. \A t \in Turns : shown[v][t] = Answers(current[v])[t]
      BY <3>1 DEF Chatting, Arrives, Tells
    <3>3. shown'[v] = c.reply.answers
      BY <1>1, <2>2 DEF TypeOK, ReplyReload
    <3> QED BY <3>1, <3>2, <3>3
  <2> QED BY <1>3, <2>1, <2>2
<1>7. \A d \in calls' : Fits(d, v)'
  BY <1>1, <1>2, <1>4, <1>5 DEF Chatting, Fits, Unanswered, Complete
<1>8. OneTurn(v)' /\ InOrder(v)'
  BY <1>1, <1>4 DEF Chatting, OneTurn, InOrder, Complete
<1>9. \A t \in Turns : Arrives(v, t)'
  BY <1>1, <1>5, <1>6 DEF Chatting, Arrives
<1>10. artifact'[v] = Newest(current'[v], shown'[v])
  BY <1>4, <1>6 DEF Chatting, Newest
<1>11. Indicates(v)'
  BY <1>1, <1>2, <1>4 DEF Chatting, Indicates
<1> QED BY <1>4, <1>7, <1>8, <1>9, <1>10, <1>11 DEF Chatting

(* Only a send that was refused fails: the view is as before it. *)
LEMMA ErrorShows ==
  ASSUME Careful, TypeOK, NEW v \in Views, Chatting(v), NEW c \in calls, ReplyError(c)
  PROVE  Chatting(v)' /\ life'[v] = life[v]
<1>1. c.served /\ ~c.reply.ok /\ c.view = v
  BY OneView DEF ReplyError
<1>2. c.kind = "send" /\ calls = {c} /\ Quiet
  BY <1>1 DEF Chatting, Fits, Unanswered
<1>3. /\ calls' = {} /\ ~running'[v] /\ life'[v] = life[v]
      /\ UNCHANGED <<state, phase, version, bus, current, shown, artifact, handlers>>
  BY <1>1, <1>2 DEF TypeOK, ReplyError, database
<1>4. bus' = <<>> /\ Len(bus') = 0 /\ Len(bus) = 0
  BY <1>2, <1>3 DEF Quiet
<1>5. Answers(current[v])' = Answers(current[v])
  BY <1>3 DEF Answers
<1>6. OneTurn(v)' /\ InOrder(v)' /\ \A t \in Turns : Arrives(v, t)'
  BY <1>3, <1>4, <1>5 DEF Chatting, OneTurn, InOrder, Arrives
<1>7. Indicates(v)'
  BY <1>2, <1>3, <1>4 DEF Chatting, Quiet, Indicates
<1> QED BY <1>3, <1>6, <1>7 DEF Chatting, Newest

LEMMA ReplyFollows ==
  ASSUME Careful, TypeOK, TypeOK', NEW v \in Views, Follows(v), NEW c \in calls,
         Reply(c) \/ ReplyError(c)
  PROVE  Follows(v)'
<1>1. life \in [Views -> {"none", "starting", "mounted", "gone"}]
  BY DEF TypeOK
<1>2. CASE life[v] = "gone"
  <2>1. life'[v] = "gone"
    BY <1>1, <1>2, OneView
       DEF Reply, ReplyError, ReplyOpen, ReplyReload, ReplySession, ReplyNone, ReplySend,
           ReplyStop, screen
  <2> QED BY <2>1 DEF Follows
<1>3. CASE Navigating(v) /\ life[v] \in {"starting", "mounted"}
  <2>1. ~ReplyError(c)
    BY <1>3, OneView DEF Navigating, Leads, ReplyError
  <2>2. \/ Navigating(v)' /\ UNCHANGED life
        \/ Chatting(v)' /\ life' = [life EXCEPT ![v] = IF @ = "starting" THEN "mounted" ELSE @]
    BY <1>3, <2>1, ReplyLeads
  <2>3. Chatting(v)' /\ life' = [life EXCEPT ![v] = IF @ = "starting" THEN "mounted" ELSE @]
          => Follows(v)'
    BY <1>1, <1>3 DEF Follows
  <2> QED BY <1>3, <2>2, <2>3 DEF Follows
<1>4. CASE Chatting(v) /\ life[v] = "mounted"
  <2>1. Chatting(v)' /\ life'[v] = "mounted"
    BY <1>4, ReplyShows, ErrorShows
  <2> QED BY <2>1 DEF Follows
<1> QED BY <1>1, <1>2, <1>3, <1>4 DEF Follows

-----------------------------------------------------------------------------
(* The user *)

LEMMA UserFollows ==
  ASSUME Careful, TypeOK, TypeOK', NEW v \in Views, Follows(v),
         \/ Enter(v) \/ Leave(v) \/ NewSession(v) \/ OnSend(v) \/ OnStop(v)
         \/ \E s \in Sessions : Open(v, s)
  PROVE  Follows(v)'
<1>1. UNCHANGED <<state, phase, version, bus>> /\ (Quiet => Quiet')
  BY DEF Enter, Leave, NewSession, OnSend, OnStop, Open, database, Quiet
<1>2. ASSUME NEW kind \in {"list", "new"}, calls = {}, Quiet,
             calls' = calls \cup {Call(v, kind, NoSession)}
      PROVE  Navigating(v)'
  <2>1. ASSUME NEW c, c = Call(v, kind, NoSession) PROVE Leads(c, v)'
    <3>1. c.kind \in {"list", "new"} /\ ~c.served
      BY <2>1 DEF Call
    <3> QED BY <3>1 DEF Leads
  <2> QED BY <1>1, <1>2, <2>1 DEF Navigating
<1>3. CASE Enter(v)
  <2>1. calls = {} /\ Quiet
    BY <1>3 DEF Enter, Follows
  <2>2. calls' = calls \cup {Call(v, "list", NoSession)} /\ life'[v] = "starting"
    BY <1>3 DEF TypeOK, Enter
  <2>3. Navigating(v)'
    BY <1>2, <2>1, <2>2
  <2> QED BY <2>2, <2>3 DEF Follows
<1>4. CASE Leave(v)
  <2>1. life'[v] = "gone"
    BY <1>4 DEF TypeOK, Leave
  <2> QED BY <2>1 DEF Follows
<1>5. ASSUME Patient(v), life[v] = "mounted" PROVE calls = {} /\ Quiet /\ Chatting(v)
  <2>1. calls = {} /\ bus = <<>> /\ \A t \in Turns : phase[t] \notin Working
    BY <1>5, OneView DEF Patient
  <2>2. Chatting(v)
    BY <1>5, <2>1 DEF Follows, Navigating
  <2>3. \A s \in Sessions : state[s] # "running"
    BY <2>1, <2>2 DEF Chatting, OneTurn, Growing
  <2> QED BY <2>1, <2>2, <2>3 DEF Quiet
<1>6. CASE NewSession(v)
  <2>1. Navigating(v)'
    BY <1>2, <1>5, <1>6 DEF NewSession
  <2> QED BY <1>6, <2>1 DEF Follows, NewSession, screen
<1>7. ASSUME NEW s \in Sessions, Open(v, s) PROVE Follows(v)'
  <2>1. /\ calls' = {Call(v, "open", s)} /\ current'[v] = s /\ handlers'[s] = v /\ UNCHANGED life
        /\ life[v] = "mounted"
    BY <1>5, <1>7 DEF TypeOK, Open, OpenSession, Registered
  <2>2. ASSUME NEW c, c = Call(v, "open", s) PROVE Leads(c, v)'
    <3>1. c.kind = "open" /\ c.session = s /\ ~c.served
      BY <2>2 DEF Call
    <3> QED BY <2>1, <3>1 DEF Leads
  <2>3. Navigating(v)'
    BY <1>1, <1>5, <1>7, <2>1, <2>2 DEF Open, Navigating
  <2> QED BY <2>1, <2>3 DEF Follows
<1>8. CASE OnSend(v)
  <2>1. /\ calls = {} /\ Quiet /\ Chatting(v) /\ life[v] = "mounted"
    BY <1>5, <1>8 DEF OnSend
  <2>2. /\ calls' = {Call(v, "send", current[v])} /\ running'[v]
        /\ UNCHANGED <<life, current, shown, artifact, handlers>>
    BY <1>8, <2>1 DEF TypeOK, OnSend
  <2>3. ASSUME NEW c, c = Call(v, "send", current[v]) PROVE Fits(c, v)' /\ Unanswered(c)
    <3>1. c.kind = "send" /\ c.session = current[v] /\ ~c.served /\ ~c.reply.ok
      BY <2>3 DEF Call, NoReply
    <3> QED BY <1>1, <2>1, <2>2, <2>3, <3>1 DEF Fits, Unanswered
  <2>4. Answers(current[v])' = Answers(current[v])
    BY <1>1, <2>2 DEF Answers
  <2>5. OneTurn(v)' /\ InOrder(v)' /\ \A t \in Turns : Arrives(v, t)'
    BY <1>1, <2>1, <2>2, <2>4 DEF Chatting, OneTurn, InOrder, Complete, Arrives
  <2>6. state'[current'[v]] # "running"
    BY <1>1, <2>1, <2>2 DEF Chatting, Quiet
  <2>7. Indicates(v)'
    BY <2>2, <2>3, <2>6 DEF Indicates
  <2>8. Chatting(v)'
    BY <2>1, <2>2, <2>3, <2>5, <2>7 DEF Chatting, Newest
  <2> QED BY <2>1, <2>2, <2>8 DEF Follows
<1>9. ~OnStop(v)
  BY OneView DEF OnStop
<1> QED BY <1>3, <1>4, <1>6, <1>7, <1>8, <1>9

-----------------------------------------------------------------------------

LEMMA InitFollows == Init => \A v \in Views : Follows(v)
BY DEF Init, Follows, Quiet

LEMMA StepFollows ==
  ASSUME Careful, TypeOK, TypeOK', \A v \in Views : Follows(v), [Next]_vars
  PROVE  \A v \in Views : Follows(v)'
<1> TAKE v \in Views
<1>1. life[v] \in {"none", "starting", "mounted", "gone"}
  BY DEF TypeOK
<1>2. ASSUME NEW t \in Turns, Work(t) \/ Fail(t) \/ Lose(t) PROVE Follows(v)'
  BY <1>2, WorkerFollows, OneView DEF Lose
<1>3. ASSUME NEW s \in Sessions, Reap(s) PROVE Follows(v)'
  <2>1. state[s] = "running" /\ \A t \in Turns : SessionOf[t] = s => phase[t] \notin Working
    BY <1>3 DEF Reap, InConversation
  <2>2. ~Quiet /\ ~Navigating(v)
    BY <2>1 DEF Quiet, Navigating
  <2>3. ~Chatting(v)
    BY <2>1 DEF Chatting, OneTurn, Growing
  <2>4. life[v] = "gone"
    BY <1>1, <2>2, <2>3 DEF Follows
  <2> QED BY <1>3, <2>4 DEF Reap, screen, Follows
<1>4. ASSUME NEW w \in Views,
             \/ Enter(w) \/ Leave(w) \/ NewSession(w) \/ OnSend(w) \/ OnStop(w)
             \/ \E s \in Sessions : Open(w, s)
      PROVE  Follows(v)'
  <2>1. w = v
    BY DEF Careful
  <2> QED BY <1>4, <2>1, UserFollows
<1>5. CASE Deliver
  <2>1. ~Quiet /\ ~Navigating(v)
    BY <1>5 DEF Quiet, Navigating, Deliver
  <2>2. CASE life[v] = "gone"
    BY <1>5, <2>2 DEF Deliver, OnBusEvent, screen, Follows
  <2>3. CASE life[v] = "mounted"
    <3>1. Chatting(v)'
      BY <1>5, <2>1, <2>3, DeliverFollows DEF Follows
    <3> QED BY <1>5, <2>3, <3>1 DEF Deliver, OnBusEvent, screen, Follows
  <2> QED BY <1>1, <2>1, <2>2, <2>3 DEF Follows
<1>6. CASE UNCHANGED vars
  <2>1. /\ UNCHANGED <<state, phase, version, bus, handlers, life, current, shown, running,
                       artifact, calls>>
        /\ Answers(current[v])' = Answers(current[v])
    BY <1>6 DEF vars, database, screen, Answers
  <2>2. Quiet' = Quiet /\ (Navigating(v) => Navigating(v)')
    BY <2>1 DEF Quiet, Navigating, Leads
  <2>3. Chatting(v) => Chatting(v)'
    <3> SUFFICES ASSUME Chatting(v) PROVE Chatting(v)'
      OBVIOUS
    <3>1. \A c \in calls : Fits(c, v)'
      BY <2>1, <2>2 DEF Chatting, Fits, Complete
    <3>2. OneTurn(v)' /\ InOrder(v)' /\ \A t \in Turns : Arrives(v, t)'
      BY <2>1 DEF Chatting, OneTurn, InOrder, Complete, Arrives
    <3>3. Indicates(v)'
      BY <2>1 DEF Chatting, Indicates
    <3> QED BY <2>1, <3>1, <3>2, <3>3 DEF Chatting, Newest
  <2> QED BY <2>1, <2>2, <2>3 DEF Follows
<1> QED
  BY <1>2, <1>3, <1>4, <1>5, <1>6, ServeFollows, ReplyFollows DEF Next

LEMMA FollowsShows ==
  ASSUME TypeOK, \A v \in Views : Follows(v)
  PROVE  SettledViewIsExact
<1> SUFFICES ASSUME NEW v \in Views, Settled, life[v] = "mounted"
             PROVE  /\ shown[v] = Answers(current[v])
                    /\ running[v] = (state[current[v]] = "running")
                    /\ artifact[v] = Newest(current[v], shown[v])
  BY DEF SettledViewIsExact
<1>1. calls = {} /\ bus = <<>> /\ Len(bus) = 0 /\ \A t \in Turns : phase[t] \notin Working
  BY DEF Settled
<1>2. Chatting(v)
  BY <1>1 DEF Follows, Navigating
<1>3. \A t \in Turns : shown[v][t] = Answers(current[v])[t]
  BY <1>1, <1>2 DEF Chatting, Arrives
<1>4. shown[v] \in [Turns -> 0..Versions] /\ Answers(current[v]) \in [Turns -> 0..Versions]
  BY AnswersTyped DEF TypeOK
<1>5. shown[v] = Answers(current[v])
  BY <1>3, <1>4
<1>6. state[current[v]] # "running"
  BY <1>1, <1>2 DEF Chatting, OneTurn, Growing
<1>7. running[v] = FALSE
  BY <1>1, <1>2, <1>6 DEF TypeOK, Chatting, Indicates
<1>8. artifact[v] = Newest(current[v], shown[v])
  BY <1>2 DEF Chatting
<1> QED BY <1>5, <1>6, <1>7, <1>8

(* However long the conversation, the screen of a user who waits ends up     *)
(* exact: an answer is on the screen or an event that brings it is under     *)
(* way, in the order of the commits, and the reload after "done" reads       *)
(* answers that no longer grow.                                              *)
THEOREM CarefulViewIsExact == ASSUME Careful PROVE Spec => []SettledViewIsExact
<1> DEFINE AllFollow == \A v \in Views : Follows(v)
<1>1. Init => AllFollow
  BY InitFollows
<1>2. TypeOK /\ TypeOK' /\ AllFollow /\ [Next]_vars => AllFollow'
  BY StepFollows
<1>3. TypeOK /\ AllFollow => SettledViewIsExact
  BY FollowsShows
<1> HIDE DEF AllFollow
<1> QED BY <1>1, <1>2, <1>3, ChatTypes, PTL DEF Spec

(* The same user has the chart of the open conversation beside it at every  *)
(* moment that no call is in flight, events under way or not: what a user   *)
(* who does not wait is shown to lose (ChartIsOfThisConversation).          *)
THEOREM CarefulChartIsRight == ASSUME Careful PROVE Spec => []ChartIsOfThisConversation
<1> DEFINE AllFollow == \A v \in Views : Follows(v)
<1>1. Init => AllFollow
  BY InitFollows
<1>2. TypeOK /\ TypeOK' /\ AllFollow /\ [Next]_vars => AllFollow'
  BY StepFollows
<1>3. ASSUME TypeOK, AllFollow PROVE ChartIsOfThisConversation
  <2> SUFFICES ASSUME NEW v \in Views, life[v] = "mounted", InFlight(v) = {}
               PROVE  artifact[v] \in {NoSession, current[v]}
    BY DEF ChartIsOfThisConversation
  <2>1. calls = {}
    BY <1>3, OneView
  <2>2. Chatting(v)
    BY <1>3, <2>1 DEF Follows, Navigating
  <2> QED BY <2>2 DEF Chatting, Newest
<1> HIDE DEF AllFollow
<1> QED BY <1>1, <1>2, <1>3, ChatTypes, PTL DEF Spec

=============================================================================
