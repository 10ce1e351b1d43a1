-------------------------- MODULE SessionCountProofs --------------------------
(***************************************************************************)
(* What SessionRuns counts: the turns of a session and the running         *)
(* sessions of a user.                                                     *)
(***************************************************************************)
EXTENDS SessionRunsProofs, FiniteSetTheorems

USE DEF InTxn, Watching, Supervising, Over, Alive, States, Snapshots,
        Goto, GiveUp, CleanUp, Killed, Signalled, Overtaken, Committable, Busy

-----------------------------------------------------------------------------
(* turn_count *)

CountedRuns(s) == {r \in Runs : sess[r] = s /\ pc[r] = "counted"}

(* A final transaction that commits, by the worker or by its error handler. *)
Counts(r) == CommitFinal(r) \/ FinalFails(r)

(* Only that counts a turn or changes a turn_count. *)
LEMMA OthersCountNothing ==
  ASSUME TypeOK, [Next]_vars, \A r \in Runs : ~Counts(r)
  PROVE  /\ UNCHANGED <<turns, sess>>
         /\ \A r \in Runs : pc'[r] = "counted" <=> pc[r] = "counted"
<1>1. ASSUME NEW r \in Runs, Request(r) \/ WorkerMishap(r) \/ CliStep(r), ~Counts(r)
      PROVE  UNCHANGED <<turns, sess>> /\ \A q \in Runs : pc'[q] = "counted" <=> pc[q] = "counted"
  BY <1>1
  DEF TypeOK, Request, SendBegin, SendCommit, SendRollback, CliStep, CliLoad, CliEmitResult,
      CliExit, WorkerMishap, SpawnFail, EndLoopClosed, WorkerError, RecordFails, WorkerSqlError,
      ThreadKilled, row, worker, Counts
<1>2. ASSUME NEW r \in Runs, WorkerStep(r), ~Counts(r)
      PROVE  UNCHANGED <<turns, sess>> /\ \A q \in Runs : pc'[q] = "counted" <=> pc[q] = "counted"
  <2>1. CASE RecordPidConflict(r) \/ ResultConflict(r) \/ FinalConflict(r) \/ FailConflict(r)
    BY <2>1
    DEF TypeOK, RecordPidConflict, ResultConflict, FinalConflict, FailConflict, row
  <2>2. CASE Spawn(r) \/ OpenPid(r) \/ RecordPid(r) \/ TimeOut(r) \/ EndLoop(r)
             \/ OpenFinal(r) \/ OpenFail(r) \/ BeginResult(r) \/ CommitResult(r) \/ CommitFail(r)
    BY <2>2
    DEF TypeOK, Spawn, OpenPid, RecordPid, TimeOut, EndLoop, OpenFinal, OpenFail,
        BeginResult, CommitResult, CommitFail, row
  <2> QED BY <1>2, <2>1, <2>2 DEF WorkerStep, Counts
<1>3. CASE UNCHANGED <<turns, sess, pc>>
  BY <1>3
<1> QED
  BY <1>1, <1>2, <1>3
  DEF Next, Stop, StopUncommitted, Reap, ReapUncommitted, Tick, vars, row, worker

(* turn_count is the number of the session's turns that came to their final *)
(* transaction: no overlap of workers, stops and reaps loses or doubles one. *)
THEOREM TurnsAreCounted == Spec => []TurnCountExact
<1> DEFINE Exact == \A s \in Sessions : turns[s] = Cardinality(CountedRuns(s))
<1>1. Init => Exact
  <2> SUFFICES ASSUME Init, NEW s \in Sessions PROVE turns[s] = Cardinality(CountedRuns(s))
    OBVIOUS
  <2>1. CountedRuns(s) = {}
    BY DEF Init, CountedRuns
  <2> QED BY <2>1, FS_EmptySet DEF Init
<1>2. TypeOK /\ SnapshotInv /\ Exact /\ [Next]_vars => Exact'
  <2> SUFFICES ASSUME TypeOK, SnapshotInv, Exact, [Next]_vars, NEW s \in Sessions
               PROVE  turns'[s] = Cardinality(CountedRuns(s)')
    BY DEF CountedRuns
  <2>1. CASE \A r \in Runs : ~Counts(r)
    <3>1. CountedRuns(s)' = CountedRuns(s) /\ turns'[s] = turns[s]
      BY <2>1, OthersCountNothing DEF CountedRuns
    <3> QED BY <3>1
  <2>2. ASSUME NEW r \in Runs, Counts(r)
        PROVE  turns'[s] = Cardinality(CountedRuns(s)')
    <3>1. pc[r] = "final" /\ ~stale[r] /\ UNCHANGED sess
      BY <2>2 DEF Counts, CommitFinal, FinalFails
    <3>2. seen[r] = [state |-> state[sess[r]], turns |-> turns[sess[r]]]
      BY <3>1 DEF SnapshotInv
    <3>3. turns' = [turns EXCEPT ![sess[r]] = turns[sess[r]] + 1]
      BY <2>2, <3>2 DEF Counts, CommitFinal, FinalFails, CountedTurns
    <3>4. CASE s # sess[r]
      <4>1. CountedRuns(s)' = CountedRuns(s)
        BY <2>2, <3>4 DEF TypeOK, Counts, CommitFinal, FinalFails, CountedRuns
      <4> QED BY <3>3, <3>4, <4>1 DEF TypeOK
    <3>5. CASE s = sess[r]
      <4>1. CountedRuns(s)' = CountedRuns(s) \cup {r} /\ r \notin CountedRuns(s)
        BY <2>2, <3>1, <3>5 DEF TypeOK, Counts, CommitFinal, FinalFails, CountedRuns
      <4>2. IsFiniteSet(CountedRuns(s))
        BY FiniteAssumption, FS_Subset DEF CountedRuns
      <4>3. Cardinality(CountedRuns(s)') = Cardinality(CountedRuns(s)) + 1
        BY <4>1, <4>2, FS_AddElement
      <4> QED BY <3>3, <3>5, <4>3 DEF TypeOK
    <3> QED BY <3>4, <3>5
  <2> QED BY <2>1, <2>2
<1>3. Exact => TurnCountExact
  BY DEF TurnCountExact, CountedRuns
<1> HIDE DEF Exact
<1> QED BY <1>1, <1>2, <1>3, TypeCorrect, SnapshotsHold, PTL DEF Spec

-----------------------------------------------------------------------------
(* The soft cap *)

Own(u) == {s \in Sessions : Owner[s] = u}
RunningOf(u) == {s \in Own(u) : Busy(s)}
SendingOf(u) == {r \in Requests : sess[r] \in Own(u)}

(* All these sets are finite. *)
LEMMA CapSetsFinite ==
  ASSUME NEW u
  PROVE  /\ IsFiniteSet(RunningOf(u)) /\ Cardinality(RunningOf(u)) \in Nat
         /\ IsFiniteSet(SendingOf(u)) /\ Cardinality(SendingOf(u)) \in Nat
         /\ IsFiniteSet(Requests) /\ Cardinality(Requests) \in Nat
         /\ IsFiniteSet(RunningOf(u)') /\ Cardinality(RunningOf(u)') \in Nat
         /\ IsFiniteSet(SendingOf(u)') /\ Cardinality(SendingOf(u)') \in Nat
         /\ IsFiniteSet(Requests') /\ Cardinality(Requests') \in Nat
<1>1. /\ RunningOf(u) \in SUBSET Sessions /\ RunningOf(u)' \in SUBSET Sessions
      /\ SendingOf(u) \in SUBSET Runs /\ SendingOf(u)' \in SUBSET Runs
      /\ Requests \in SUBSET Runs /\ Requests' \in SUBSET Runs
  BY DEF RunningOf, SendingOf, Requests, Own
<1> QED BY <1>1, FiniteAssumption, FS_Subset, FS_CardinalityType

(* Only a send adds to them. *)
LEMMA OthersRunNothing ==
  ASSUME TypeOK, [Next]_vars, \A r \in Runs : ~SendBegin(r) /\ ~SendCommit(r)
  PROVE  /\ UNCHANGED sess
         /\ \A r \in Runs : pc'[r] = "sending" => pc[r] = "sending"
         /\ \A s \in Sessions : Busy(s)' => Busy(s)
<1> DEFINE Quiet == /\ UNCHANGED sess
                    /\ \A r \in Runs : pc'[r] = "sending" => pc[r] = "sending"
                    /\ \A s \in Sessions : Busy(s)' => Busy(s)
<1>1. ASSUME NEW r \in Runs, Request(r) \/ WorkerMishap(r) \/ CliStep(r),
             ~SendBegin(r), ~SendCommit(r)
      PROVE  Quiet
  BY <1>1
  DEF TypeOK, Request, SendRollback, CliStep, CliLoad, CliEmitResult,
      CliExit, WorkerMishap, SpawnFail, EndLoopClosed, WorkerError, RecordFails, FinalFails,
      WorkerSqlError, ThreadKilled, row, worker
<1>2. ASSUME NEW r \in Runs, WorkerStep(r) PROVE Quiet
  <2>1. CASE RecordPidConflict(r) \/ ResultConflict(r) \/ FinalConflict(r) \/ FailConflict(r)
    BY <2>1
    DEF TypeOK, RecordPidConflict, ResultConflict, FinalConflict, FailConflict, row
  <2>2. CASE Spawn(r) \/ OpenPid(r) \/ RecordPid(r) \/ TimeOut(r) \/ EndLoop(r)
             \/ OpenFinal(r) \/ OpenFail(r) \/ BeginResult(r)
    BY <2>2
    DEF TypeOK, Spawn, OpenPid, RecordPid, TimeOut, EndLoop, OpenFinal, OpenFail,
        BeginResult, row
  <2>3. CASE CommitResult(r)
    BY <2>3 DEF TypeOK, CommitResult
  <2>4. CASE CommitFail(r)
    BY <2>4 DEF TypeOK, CommitFail
  <2>5. CASE CommitFinal(r)
    <3>1. PICK st \in FinalStates(r) : state' = [state EXCEPT ![sess[r]] = st]
      BY <2>5 DEF CommitFinal
    <3>2. st = "running" => state[sess[r]] = "running"
      BY <3>1 DEF FinalStates
    <3> QED BY <2>5, <3>1, <3>2 DEF TypeOK, CommitFinal
  <2> QED BY <1>2, <2>1, <2>2, <2>3, <2>4, <2>5 DEF WorkerStep
<1>3. CASE UNCHANGED <<state, sess, pc>>
  BY <1>3
<1>4. ASSUME NEW s \in Sessions, Stop(s) PROVE Quiet
  BY <1>4 DEF TypeOK, Stop
<1>5. CASE Reap
  BY <1>5 DEF TypeOK, Reap
<1> QED
  BY <1>1, <1>2, <1>3, <1>4, <1>5
  DEF Next, StopUncommitted, ReapUncommitted, Tick, vars, row, worker

(* A user who may begin a send has fewer than MaxRuns running sessions. *)
LEMMA UncappedRunsFew ==
  ASSUME MaxRuns > 0, NEW u, ~CapReached(u)
  PROVE  Cardinality(RunningOf(u)) <= MaxRuns - 1
<1> DEFINE Counted == {s \in Visible(u) : state[s] = "running"}
<1>1. Counted \in SUBSET Sessions /\ RunningOf(u) \in SUBSET Counted
  BY DEF Visible, RunningOf, Own
<1>2. IsFiniteSet(Counted) /\ Cardinality(Counted) \in Nat
  BY <1>1, FiniteAssumption, FS_Subset, FS_CardinalityType
<1>3. Cardinality(RunningOf(u)) <= Cardinality(Counted)
  BY <1>1, <1>2, FS_Subset
<1>4. ~(Cardinality(Counted) >= MaxRuns)
  BY DEF CapReached
<1> HIDE DEF Counted
<1> QED BY <1>2, <1>3, <1>4, CapSetsFinite, LimitAssumption

(* What the cap keeps: the burst is as large as the number of requests. *)
CapInv ==
  /\ Cardinality(Requests) <= HttpWorkers
  /\ MaxRuns > 0 =>
       \A u \in Users :
         Cardinality(RunningOf(u)) + Cardinality(SendingOf(u)) <= MaxRuns - 1 + HttpWorkers

(* Steps that are not a send only make the sets smaller. *)
LEMMA ShrinkingKeepsCap ==
  ASSUME CapInv, sess' = sess,
         \A r \in Runs : pc'[r] = "sending" => pc[r] = "sending",
         \A s \in Sessions : Busy(s)' => Busy(s)
  PROVE  CapInv'
<1>1. Requests' \in SUBSET Requests
  BY DEF Requests
<1>2. Cardinality(Requests') <= HttpWorkers
  BY <1>1, CapSetsFinite, FS_Subset, LimitAssumption DEF CapInv
<1>3. ASSUME MaxRuns > 0, NEW u \in Users
      PROVE  Cardinality(RunningOf(u)') + Cardinality(SendingOf(u)') <= MaxRuns - 1 + HttpWorkers
  <2>1. RunningOf(u)' \in SUBSET RunningOf(u) /\ SendingOf(u)' \in SUBSET SendingOf(u)
    BY <1>1 DEF RunningOf, SendingOf, Own
  <2>2. Cardinality(RunningOf(u)') <= Cardinality(RunningOf(u))
    BY <2>1, CapSetsFinite, FS_Subset
  <2>3. Cardinality(SendingOf(u)') <= Cardinality(SendingOf(u))
    BY <2>1, CapSetsFinite, FS_Subset
  <2> QED BY <1>3, <2>2, <2>3, CapSetsFinite, LimitAssumption DEF CapInv
<1> QED BY <1>2, <1>3 DEF CapInv

(* A send begins: its user was below the cap in the snapshot it read. *)
LEMMA SendBeginKeepsCap ==
  ASSUME TypeOK, CapInv, NEW r \in Runs, SendBegin(r) PROVE CapInv'
<1>1. Requests' = Requests \cup {r} /\ r \notin Requests
  BY DEF TypeOK, SendBegin, Requests
<1>2. Cardinality(Requests') = Cardinality(Requests) + 1 /\ Cardinality(Requests) < HttpWorkers
  BY <1>1, CapSetsFinite, FS_AddElement DEF SendBegin
<1>3. Cardinality(Requests') <= HttpWorkers
  BY <1>2, CapSetsFinite, LimitAssumption
<1>4. ASSUME MaxRuns > 0, NEW u \in Users
      PROVE  Cardinality(RunningOf(u)') + Cardinality(SendingOf(u)') <= MaxRuns - 1 + HttpWorkers
  <2>1. RunningOf(u)' = RunningOf(u)
    BY DEF RunningOf, SendBegin, row, Own
  <2>2. CASE u = Owner[sess[r]]
    <3>1. Cardinality(RunningOf(u)) <= MaxRuns - 1
      BY <1>4, <2>2, UncappedRunsFew DEF SendBegin
    <3>2. SendingOf(u)' \in SUBSET Requests'
      BY DEF SendingOf
    <3>3. Cardinality(SendingOf(u)') <= Cardinality(Requests')
      BY <3>2, CapSetsFinite, FS_Subset
    <3> QED BY <1>3, <2>1, <3>1, <3>3, CapSetsFinite, LimitAssumption
  <2>3. CASE u # Owner[sess[r]]
    <3>1. SendingOf(u)' = SendingOf(u)
      BY <1>1, <2>3 DEF SendingOf, SendBegin, Own
    <3> QED BY <1>4, <2>1, <3>1 DEF CapInv
  <2> QED BY <2>2, <2>3
<1> QED BY <1>3, <1>4 DEF CapInv

(* A send commits: it leaves one set as its session joins the other. *)
LEMMA SendCommitKeepsCap ==
  ASSUME TypeOK, CapInv, NEW r \in Runs, SendCommit(r) PROVE CapInv'
<1>1. Requests' = Requests \ {r} /\ r \in Requests
  BY DEF TypeOK, SendCommit, Requests
<1>2. Cardinality(Requests') <= HttpWorkers
  <2>1. Requests' \in SUBSET Requests
    BY <1>1
  <2> QED BY <2>1, CapSetsFinite, FS_Subset, LimitAssumption DEF CapInv
<1>3. ASSUME MaxRuns > 0, NEW u \in Users
      PROVE  Cardinality(RunningOf(u)') + Cardinality(SendingOf(u)') <= MaxRuns - 1 + HttpWorkers
  <2>1. CASE u = Owner[sess[r]]
    <3>1. RunningOf(u)' = RunningOf(u) \cup {sess[r]}
      BY <2>1 DEF TypeOK, RunningOf, SendCommit, Own
    <3>2. SendingOf(u)' = SendingOf(u) \ {r} /\ r \in SendingOf(u)
      BY <1>1, <2>1 DEF TypeOK, SendingOf, SendCommit, Own
    <3>3. Cardinality(RunningOf(u)') <= Cardinality(RunningOf(u)) + 1
      <4>1. IsFiniteSet(RunningOf(u)) /\ Cardinality(RunningOf(u)) \in Nat
        BY CapSetsFinite
      <4>2. Cardinality(RunningOf(u) \cup {sess[r]})
              = IF sess[r] \in RunningOf(u) THEN Cardinality(RunningOf(u))
                                            ELSE Cardinality(RunningOf(u)) + 1
        BY <4>1, FS_AddElement
      <4> QED BY <3>1, <4>1, <4>2
    <3>4. Cardinality(SendingOf(u)') = Cardinality(SendingOf(u)) - 1
      BY <3>2, CapSetsFinite, FS_RemoveElement
    <3> QED BY <1>3, <3>3, <3>4, CapSetsFinite, LimitAssumption DEF CapInv
  <2>2. CASE u # Owner[sess[r]]
    <3>1. RunningOf(u)' = RunningOf(u)
      BY <2>2 DEF TypeOK, RunningOf, SendCommit, Own
    <3>2. SendingOf(u)' = SendingOf(u)
      BY <1>1, <2>2 DEF TypeOK, SendingOf, SendCommit, Own
    <3> QED BY <1>3, <3>1, <3>2 DEF CapInv
  <2> QED BY <2>1, <2>2
<1> QED BY <1>2, <1>3 DEF CapInv

(* A user's running sessions exceed the cap by at most one for every request *)
(* the server handles at the same time beyond the first.                    *)
THEOREM BurstIsBounded == Spec => []SoftCapBound
<1>1. Init => CapInv
  <2> SUFFICES ASSUME Init PROVE CapInv
    OBVIOUS
  <2>1. Requests = {} /\ \A u \in Users : RunningOf(u) = {} /\ SendingOf(u) = {}
    BY DEF Init, Requests, RunningOf, SendingOf, Own
  <2> QED BY <2>1, FS_EmptySet, LimitAssumption DEF CapInv
<1>2. TypeOK /\ CapInv /\ [Next]_vars => CapInv'
  <2> SUFFICES ASSUME TypeOK, CapInv, [Next]_vars PROVE CapInv'
    OBVIOUS
  <2>1. CASE \E r \in Runs : SendBegin(r)
    BY <2>1, SendBeginKeepsCap
  <2>2. CASE \E r \in Runs : SendCommit(r)
    BY <2>2, SendCommitKeepsCap
  <2>3. CASE \A r \in Runs : ~SendBegin(r) /\ ~SendCommit(r)
    BY <2>3, OthersRunNothing, ShrinkingKeepsCap
  <2> QED BY <2>1, <2>2, <2>3
<1>3. CapInv => SoftCapBound
  BY DEF CapInv, SoftCapBound, RunningOf, SendingOf, Own
<1> QED BY <1>1, <1>2, <1>3, TypeCorrect, PTL DEF Spec

=============================================================================
