------------------------- MODULE SessionLedgerProofs -------------------------
(***************************************************************************)
(* SessionRuns implements SessionLedger: each transaction on the row,      *)
(* however it interleaves with others, is one atomic step of the ledger.   *)
(***************************************************************************)
EXTENDS SessionRunsProofs

USE DEF InTxn, Watching, Supervising, Over, Alive, States, Snapshots,
        Goto, GiveUp, CleanUp, Killed, Signalled, Overtaken, Committable, Busy

(* The ledger's view of the runs. *)
Phase == [r \in Runs |-> PhaseOf(r)]

(* A run that moves, alone, moves alone in the ledger. *)
LEMMA PhaseMoves ==
  ASSUME TypeOK, NEW r \in Runs, NEW to, Goto(r, to),
         \A q \in Runs : q # r => result'[q] = result[q]
  PROVE  Phase' = [Phase EXCEPT ![r] = PhaseOf(r)']
BY DEF TypeOK, Phase, PhaseOf

(* A step that keeps every run's program counter and handled results is      *)
(* not seen in the phases.                                                  *)
LEMMA PhaseRests ==
  ASSUME UNCHANGED pc, \A r \in Runs : (result'[r] = "handled") <=> (result[r] = "handled")
  PROVE  Phase' = Phase
BY DEF Phase, PhaseOf

(* What a supervised run is to the ledger. *)
LEMMA SupervisedPhase ==
  ASSUME NEW r \in Runs, pc[r] \in Supervising
  PROVE  PhaseOf(r) = IF result[r] = "handled" THEN "settled" ELSE "open"
BY DEF PhaseOf

(* The requests: send_message is accepted, or leaves no trace. *)
LEMMA RequestRefines ==
  ASSUME TypeOK, SnapshotInv, ResultInv, NEW r \in Runs, Request(r)
  PROVE  [Ledger!Next]_(Ledger!ledger)
<1>1. CASE SendBegin(r)
  <2>1. UNCHANGED <<state, turns, sess>> /\ Phase' = [Phase EXCEPT ![r] = PhaseOf(r)']
    BY <1>1, PhaseMoves DEF SendBegin, row, process
  <2>2. PhaseOf(r)' = PhaseOf(r)
    BY <1>1 DEF TypeOK, SendBegin, PhaseOf
  <2>3. Phase' = Phase
    BY <2>1, <2>2 DEF Phase
  <2> QED BY <2>1, <2>3 DEF Ledger!ledger, Phase
<1>2. CASE SendCommit(r)
  <2>1. Phase' = [Phase EXCEPT ![r] = "open"] /\ Phase[r] = "new"
    <3>1. PhaseOf(r)' = "open" /\ PhaseOf(r) = "new"
      BY <1>2 DEF TypeOK, ResultInv, SendCommit, PhaseOf, process
    <3>2. Phase' = [Phase EXCEPT ![r] = PhaseOf(r)']
      BY <1>2, PhaseMoves DEF SendCommit, process
    <3> QED BY <3>1, <3>2 DEF Phase
  <2>2. ~Busy(sess[r])
    BY <1>2 DEF SnapshotInv, SendCommit
  <2>3. Ledger!Accept(r)
    BY <1>2, <2>1, <2>2 DEF SendCommit, Ledger!Accept, Ledger!Moves, Phase
  <2> QED BY <2>3 DEF Ledger!Next
<1>3. CASE SendRollback(r)
  <2>1. Phase' = [Phase EXCEPT ![r] = "void"] /\ Phase[r] = "new"
    <3>1. PhaseOf(r)' = "void" /\ PhaseOf(r) = "new"
      BY <1>3 DEF TypeOK, SendRollback, PhaseOf
    <3>2. Phase' = [Phase EXCEPT ![r] = PhaseOf(r)']
      BY <1>3, PhaseMoves DEF SendRollback
    <3> QED BY <3>1, <3>2 DEF Phase
  <2>2. Ledger!Refuse(r)
    BY <1>3, <2>1 DEF SendRollback, row, Ledger!Refuse, Ledger!Moves, Phase
  <2> QED BY <2>2 DEF Ledger!Next
<1> QED BY <1>1, <1>2, <1>3 DEF Request

(* A worker that goes on without writing the row is not seen. *)
LEMMA QuietRefines ==
  ASSUME TypeOK, NEW r \in Runs, UNCHANGED <<state, turns, sess, result>>,
         pc[r] \in Supervising, \E to \in Supervising : Goto(r, to)
  PROVE  [Ledger!Next]_(Ledger!ledger)
<1>1. PhaseOf(r)' = PhaseOf(r)
  BY DEF TypeOK, PhaseOf
<1>2. Phase' = Phase
  BY <1>1, PhaseMoves DEF Phase
<1> QED BY <1>2 DEF Ledger!ledger, Phase

(* A worker that is lost leaves no trace in the row. *)
LEMMA LossRefines ==
  ASSUME TypeOK, NEW r \in Runs, pc[r] \in Supervising, NEW to \in {"lost", "dead"}, GiveUp(r, to)
  PROVE  [Ledger!Next]_(Ledger!ledger)
<1>1. Phase' = [Phase EXCEPT ![r] = "lost"]
  <2>1. PhaseOf(r)' = "lost"
    BY DEF TypeOK, PhaseOf
  <2> QED BY <2>1, PhaseMoves
<1>2. Phase[r] \in Ledger!Unfinished
  BY SupervisedPhase DEF Phase, Ledger!Unfinished
<1>3. Ledger!Lose(r)
  BY <1>1, <1>2 DEF row, Ledger!Lose, Ledger!Moves, Phase
<1> QED BY <1>3 DEF Ledger!Next

(* The commits of a worker: the pid is not the ledger's business, the result *)
(* settles the turn, the final transaction counts it, the handler fails it.  *)
LEMMA CommitRefines ==
  ASSUME TypeOK, SnapshotInv, ResultInv, NEW r \in Runs,
         \/ RecordPid(r) \/ CommitResult(r) \/ CommitFinal(r) \/ CommitFail(r)
         \/ RecordFails(r) \/ FinalFails(r)
  PROVE  [Ledger!Next]_(Ledger!ledger)
<1>1. CASE RecordPid(r)
  BY <1>1, QuietRefines DEF RecordPid, process
<1>2. CASE CommitResult(r)
  <2>1. Phase' = [Phase EXCEPT ![r] = "settled"] /\ Phase[r] = "open"
    <3>1. PhaseOf(r)' = "settled" /\ PhaseOf(r) = "open"
      BY <1>2 DEF TypeOK, ResultInv, CommitResult, PhaseOf
    <3>2. Phase' = [Phase EXCEPT ![r] = PhaseOf(r)']
      BY <1>2, PhaseMoves DEF TypeOK, CommitResult
    <3> QED BY <3>1, <3>2 DEF Phase
  <2>2. Ledger!Settle(r)
    BY <1>2, <2>1 DEF CommitResult, Ledger!Settle, Ledger!Moves, Ledger!Outcomes, Phase
  <2> QED BY <2>2 DEF Ledger!Next
<1>3. CASE CommitFinal(r)
  <2>1. pc[r] = "final" /\ ~stale[r]
    BY <1>3 DEF CommitFinal
  <2>2. seen[r] = [state |-> state[sess[r]], turns |-> turns[sess[r]]]
    BY <2>1 DEF SnapshotInv
  <2>3. seen[r].state = state[sess[r]] /\ seen[r].turns = turns[sess[r]]
    BY <2>2
  <2>4. Phase' = [Phase EXCEPT ![r] = "counted"] /\ Phase[r] \in Ledger!Unfinished
    <3>1. PhaseOf(r)' = "counted"
      BY <1>3 DEF TypeOK, CommitFinal, PhaseOf
    <3>2. Phase' = [Phase EXCEPT ![r] = PhaseOf(r)']
      BY <1>3, PhaseMoves DEF CommitFinal, process
    <3>3. Phase[r] \in Ledger!Unfinished
      BY <2>1, SupervisedPhase DEF Phase, Ledger!Unfinished
    <3> QED BY <3>1, <3>2, <3>3
  <2>5. turns' = [turns EXCEPT ![sess[r]] = turns[sess[r]] + 1]
    BY <1>3, <2>3 DEF CommitFinal, CountedTurns
  <2>6. \E out \in Ledger!Outcomes :
          state' = IF state[sess[r]] = "running" THEN [state EXCEPT ![sess[r]] = out] ELSE state
    <3>1. PICK st \in FinalStates(r) : state' = [state EXCEPT ![sess[r]] = st]
      BY <1>3 DEF CommitFinal
    <3>2. CASE state[sess[r]] = "running"
      BY <2>3, <3>1, <3>2 DEF FinalStates, Ledger!Outcomes
    <3>3. CASE state[sess[r]] # "running"
      <4>1. st = state[sess[r]]
        BY <2>3, <3>1, <3>3 DEF FinalStates
      <4>2. state' = state
        BY <3>1, <4>1 DEF TypeOK
      <4> QED BY <3>3, <4>2 DEF Ledger!Outcomes
    <3> QED BY <3>2, <3>3
  <2>7. Ledger!Count(r)
    BY <1>3, <2>4, <2>5, <2>6 DEF CommitFinal, Ledger!Count, Ledger!Moves, Phase
  <2> QED BY <2>7 DEF Ledger!Next
<1>4. CASE CommitFail(r) \/ RecordFails(r)
  <2>1. Phase' = [Phase EXCEPT ![r] = "failed"] /\ Phase[r] \in Ledger!Unfinished
    <3>1. PhaseOf(r)' = "failed"
      BY <1>4 DEF TypeOK, CommitFail, RecordFails, PhaseOf
    <3>2. Phase' = [Phase EXCEPT ![r] = PhaseOf(r)']
      BY <1>4, PhaseMoves DEF CommitFail, RecordFails, process
    <3>3. Phase[r] \in Ledger!Unfinished
      BY <1>4, SupervisedPhase DEF CommitFail, RecordFails, Phase, Ledger!Unfinished
    <3> QED BY <3>1, <3>2, <3>3
  <2>2. Ledger!Fail(r)
    BY <1>4, <2>1 DEF CommitFail, RecordFails, Ledger!Fail, Ledger!Moves, Phase
  <2> QED BY <2>2 DEF Ledger!Next
<1>5. CASE FinalFails(r)
  <2>1. pc[r] = "final" /\ ~stale[r]
    BY <1>5 DEF FinalFails
  <2>2. seen[r] = [state |-> state[sess[r]], turns |-> turns[sess[r]]]
    BY <2>1 DEF SnapshotInv
  <2>3. Phase' = [Phase EXCEPT ![r] = "counted"] /\ Phase[r] \in Ledger!Unfinished
    <3>1. PhaseOf(r)' = "counted"
      BY <1>5 DEF TypeOK, FinalFails, PhaseOf
    <3>2. Phase' = [Phase EXCEPT ![r] = PhaseOf(r)']
      BY <1>5, PhaseMoves DEF FinalFails, process
    <3>3. Phase[r] \in Ledger!Unfinished
      BY <2>1, SupervisedPhase DEF Phase, Ledger!Unfinished
    <3> QED BY <3>1, <3>2, <3>3
  <2>4. turns' = [turns EXCEPT ![sess[r]] = turns[sess[r]] + 1]
    BY <1>5, <2>2 DEF FinalFails, CountedTurns
  <2>5. Ledger!Count(r)
    BY <1>5, <2>3, <2>4 DEF FinalFails, Ledger!Count, Ledger!Moves, Ledger!Outcomes, Phase
  <2> QED BY <2>5 DEF Ledger!Next
<1> QED BY <1>1, <1>2, <1>3, <1>4, <1>5

(* Every step of a worker. *)
LEMMA WorkerRefines ==
  ASSUME TypeOK, SnapshotInv, ResultInv, NEW r \in Runs, WorkerStep(r) \/ WorkerMishap(r)
  PROVE  [Ledger!Next]_(Ledger!ledger)
<1>1. CASE Spawn(r) \/ OpenPid(r) \/ BeginResult(r) \/ TimeOut(r) \/ EndLoop(r)
           \/ OpenFinal(r) \/ OpenFail(r)
  <2>1. /\ UNCHANGED <<state, turns, sess, result>>
        /\ pc[r] \in Supervising
        /\ \E to \in Supervising : Goto(r, to)
    BY <1>1
    DEF Spawn, OpenPid, BeginResult, TimeOut, EndLoop, OpenFinal, OpenFail, row, process
  <2> QED BY <2>1, QuietRefines
<1>2. CASE SpawnFail(r) \/ EndLoopClosed(r) \/ WorkerError(r)
  <2>1. /\ UNCHANGED <<state, turns, sess, result>>
        /\ pc[r] \in Supervising
        /\ \E to \in Supervising : Goto(r, to)
    BY <1>2 DEF SpawnFail, EndLoopClosed, WorkerError, row, process
  <2> QED BY <2>1, QuietRefines
<1>3. CASE RecordPidConflict(r) \/ ResultConflict(r) \/ FinalConflict(r) \/ FailConflict(r)
  BY <1>3, LossRefines
  DEF RecordPidConflict, ResultConflict, FinalConflict, FailConflict
<1>4. CASE WorkerSqlError(r) \/ ThreadKilled(r)
  BY <1>4, LossRefines DEF WorkerSqlError, ThreadKilled
<1>5. CASE \/ RecordPid(r) \/ CommitResult(r) \/ CommitFinal(r) \/ CommitFail(r)
           \/ RecordFails(r) \/ FinalFails(r)
  BY <1>5, CommitRefines
<1> QED BY <1>1, <1>2, <1>3, <1>4, <1>5 DEF WorkerStep, WorkerMishap

(* The CLI and the clock are not seen; stop and the reaper are steps of the  *)
(* ledger, unless their transaction does not commit.                        *)
LEMMA OtherRefines ==
  ASSUME TypeOK,
         \/ \E r \in Runs : CliStep(r)
         \/ \E s \in Sessions : Stop(s) \/ StopUncommitted(s)
         \/ Reap \/ ReapUncommitted \/ Tick \/ UNCHANGED vars
  PROVE  [Ledger!Next]_(Ledger!ledger)
<1>1. CASE UNCHANGED <<state, turns, sess, pc, result>>
  BY <1>1, PhaseRests DEF Ledger!ledger, Phase
<1>2. ASSUME NEW r \in Runs, CliEmitResult(r) PROVE [Ledger!Next]_(Ledger!ledger)
  <2>1. Phase' = Phase
    BY <1>2, PhaseRests DEF TypeOK, CliEmitResult, worker
  <2> QED BY <1>2, <2>1 DEF CliEmitResult, row, worker, Ledger!ledger, Phase
<1>3. ASSUME NEW s \in Sessions, Stop(s) PROVE [Ledger!Next]_(Ledger!ledger)
  <2>1. Phase' = Phase
    BY <1>3, PhaseRests DEF Stop
  <2>2. Ledger!Stop(s)
    BY <1>3, <2>1 DEF Stop, Ledger!Stop, Phase
  <2> QED BY <2>2 DEF Ledger!Next
<1>4. CASE Reap
  <2>1. Phase' = Phase
    BY <1>4, PhaseRests DEF Reap
  <2>2. Ledger!Reap(Reapable) /\ Reapable \in SUBSET Sessions
    BY <1>4, <2>1 DEF Reap, Reapable, Ledger!Reap, Phase
  <2> QED BY <2>2 DEF Ledger!Next
<1> QED
  BY <1>1, <1>2, <1>3, <1>4
  DEF CliStep, CliLoad, CliExit, StopUncommitted, ReapUncommitted, Tick, vars, row, worker, process

(* The row, as its overlapping requests, workers, stops and reaps leave it, *)
(* is a ledger of turns changed by one whole transaction at a time.         *)
THEOREM RunsImplementLedger == Spec => LedgerSpec
<1>1. Init => Ledger!Init
  BY DEF Init, Ledger!Init, PhaseOf
<1>2. TypeOK /\ SnapshotInv /\ ResultInv /\ [Next]_vars => [Ledger!Next]_(Ledger!ledger)
  BY RequestRefines, WorkerRefines, OtherRefines DEF Next
<1> QED
  BY <1>1, <1>2, TypeCorrect, SnapshotsHold, ResultsHold, PTL DEF Spec, LedgerSpec, Ledger!Spec

=============================================================================
