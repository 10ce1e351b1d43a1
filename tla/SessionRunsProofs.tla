-------------------------- MODULE SessionRunsProofs --------------------------
(***************************************************************************)
(* Theorems about SessionRuns, for every value of its constants.           *)
(***************************************************************************)
EXTENDS SessionRuns, TLAPS

(* Everything a step can be, one definition to expand. *)
USE DEF InTxn, Watching, Supervising, Over, Alive, States, Snapshots,
        Goto, GiveUp, CleanUp, Killed, Signalled, Overtaken, Committable, Busy

-----------------------------------------------------------------------------
(* Type correctness *)

(* The initial states are well typed. *)
LEMMA InitTypeOK == Init => TypeOK
BY DEF Init, TypeOK

(* A request's step keeps every variable in its range. *)
LEMMA RequestTypeOK == ASSUME TypeOK, NEW r \in Runs, Request(r) PROVE TypeOK'
<1>1. CASE SendBegin(r)
  BY <1>1 DEF TypeOK, SendBegin, row, process
<1>2. CASE SendCommit(r)
  BY <1>2 DEF TypeOK, SendCommit, process, outside
<1>3. CASE SendRollback(r)
  BY <1>3 DEF TypeOK, SendRollback, row, outside
<1> QED BY <1>1, <1>2, <1>3 DEF Request

(* So does a step of a worker that goes as planned. *)
LEMMA WorkerStepTypeOK == ASSUME TypeOK, NEW r \in Runs, WorkerStep(r) PROVE TypeOK'
<1>1. CASE Spawn(r)
  BY <1>1 DEF TypeOK, Spawn, row
<1>2. CASE OpenPid(r)
  BY <1>2 DEF TypeOK, OpenPid, row, process, outside
<1>3. CASE RecordPid(r)
  BY <1>3 DEF TypeOK, RecordPid, process, outside
<1>4. CASE RecordPidConflict(r)
  BY <1>4 DEF TypeOK, RecordPidConflict, row, outside
<1>5. CASE BeginResult(r)
  BY <1>5 DEF TypeOK, BeginResult, row, process, outside
<1>6. CASE CommitResult(r)
  BY <1>6 DEF TypeOK, CommitResult, outside
<1>7. CASE ResultConflict(r)
  BY <1>7 DEF TypeOK, ResultConflict, row
<1>8. CASE TimeOut(r)
  BY <1>8 DEF TypeOK, TimeOut, row
<1>9. CASE EndLoop(r)
  BY <1>9 DEF TypeOK, EndLoop, row, process
<1>10. CASE OpenFinal(r)
  BY <1>10 DEF TypeOK, OpenFinal, row, process, outside
<1>11. CASE CommitFinal(r)
  <2>1. FinalStates(r) \subseteq States /\ CountedTurns(r) \in Nat
    BY DEF TypeOK, FinalStates, CountedTurns
  <2>2. state' \in [Sessions -> States]
    BY <1>11, <2>1 DEF TypeOK, CommitFinal
  <2>3. turns' \in [Sessions -> Nat]
    BY <1>11, <2>1 DEF TypeOK, CommitFinal
  <2> QED BY <1>11, <2>2, <2>3 DEF TypeOK, CommitFinal, process, outside
<1>12. CASE FinalConflict(r)
  BY <1>12 DEF TypeOK, FinalConflict, row, outside
<1>13. CASE OpenFail(r)
  BY <1>13 DEF TypeOK, OpenFail, row, process, outside
<1>14. CASE CommitFail(r)
  BY <1>14 DEF TypeOK, CommitFail, process, outside
<1>15. CASE FailConflict(r)
  BY <1>15 DEF TypeOK, FailConflict, row, outside
<1> QED
  BY <1>1, <1>2, <1>3, <1>4, <1>5, <1>6, <1>7, <1>8, <1>9, <1>10, <1>11, <1>12,
     <1>13, <1>14, <1>15 DEF WorkerStep

(* So does whatever befalls a worker. *)
LEMMA WorkerMishapTypeOK == ASSUME TypeOK, NEW r \in Runs, WorkerMishap(r) PROVE TypeOK'
<1>1. CASE SpawnFail(r)
  BY <1>1 DEF TypeOK, SpawnFail, row, process
<1>2. CASE EndLoopClosed(r)
  BY <1>2 DEF TypeOK, EndLoopClosed, row
<1>3. CASE WorkerError(r)
  BY <1>3 DEF TypeOK, WorkerError, row, process, outside
<1>4. CASE WorkerSqlError(r)
  BY <1>4 DEF TypeOK, WorkerSqlError, row, outside
<1>5. CASE ThreadKilled(r)
  BY <1>5 DEF TypeOK, ThreadKilled, row, outside
<1>6. CASE RecordFails(r)
  BY <1>6 DEF TypeOK, RecordFails, process, outside
<1>7. CASE FinalFails(r)
  BY <1>7 DEF TypeOK, FinalFails, CountedTurns, process, outside
<1> QED BY <1>1, <1>2, <1>3, <1>4, <1>5, <1>6, <1>7 DEF WorkerMishap

(* So does a step of the CLI. *)
LEMMA CliStepTypeOK == ASSUME TypeOK, NEW r \in Runs, CliStep(r) PROVE TypeOK'
BY DEF TypeOK, CliStep, CliLoad, CliEmitResult, CliExit, row, worker, outside

(* So does action_stop, whether or not its transaction commits. *)
LEMMA StopTypeOK ==
  ASSUME TypeOK, NEW s \in Sessions, Stop(s) \/ StopUncommitted(s) PROVE TypeOK'
<1>1. cli' \in [Runs -> Alive \cup {"none", "exited"}]
  BY DEF TypeOK, Stop, StopUncommitted, StopSignals
<1>2. CASE Stop(s)
  BY <1>1, <1>2 DEF TypeOK, Stop, outside
<1>3. CASE StopUncommitted(s)
  BY <1>1, <1>3 DEF TypeOK, StopUncommitted, row, worker, outside
<1> QED BY <1>2, <1>3

(* So does the reaper. *)
LEMMA ReapTypeOK == ASSUME TypeOK, Reap \/ ReapUncommitted PROVE TypeOK'
<1>1. cli' \in [Runs -> Alive \cup {"none", "exited"}]
  BY DEF TypeOK, Reap, ReapUncommitted, ReapSignals
<1>2. CASE Reap
  BY <1>1, <1>2 DEF TypeOK, Reap, outside
<1>3. CASE ReapUncommitted
  BY <1>1, <1>3 DEF TypeOK, ReapUncommitted, row, worker, outside
<1> QED BY <1>2, <1>3

(* So does the passing of time. *)
LEMMA TickTypeOK == ASSUME TypeOK, Tick PROVE TypeOK'
<1>1. \A t, b \in Nat : Older(t, b) \in Nat
  BY DEF Older
<1>2. Cutoff \in Nat /\ Timeout \in Nat
  BY LimitAssumption DEF Cutoff
<1>3. age' \in [Sessions -> Nat] /\ elapsed' \in [Runs -> Nat]
  BY <1>1, <1>2 DEF TypeOK, Tick
<1> QED BY <1>3 DEF TypeOK, Tick, process, outside

(* The variables of SessionRuns stay within their ranges, whatever the      *)
(* constants: the row's columns, the worker's locals, the CLI's state.      *)
THEOREM TypeCorrect == Spec => []TypeOK
<1>1. TypeOK /\ [Next]_vars => TypeOK'
  <2> SUFFICES ASSUME TypeOK, [Next]_vars PROVE TypeOK'
    OBVIOUS
  <2>1. CASE \E r \in Runs : Request(r) \/ WorkerStep(r) \/ WorkerMishap(r) \/ CliStep(r)
    BY <2>1, RequestTypeOK, WorkerStepTypeOK, WorkerMishapTypeOK, CliStepTypeOK
  <2>2. CASE \E s \in Sessions : Stop(s) \/ StopUncommitted(s)
    BY <2>2, StopTypeOK
  <2>3. CASE Reap \/ ReapUncommitted
    BY <2>3, ReapTypeOK
  <2>4. CASE Tick
    BY <2>4, TickTypeOK
  <2>5. CASE UNCHANGED vars
    BY <2>5 DEF TypeOK, vars, row, worker, process, outside
  <2> QED BY <2>1, <2>2, <2>3, <2>4, <2>5 DEF Next
<1> QED BY InitTypeOK, <1>1, PTL DEF Spec

-----------------------------------------------------------------------------
(* Snapshots: what a transaction that can still commit knows of the row *)

(* Only an open transaction can be overtaken; while it has not been, the    *)
(* check of a send and the columns read by a final transaction still hold.  *)
SnapshotInv ==
  \A r \in Runs :
    /\ stale[r] => pc[r] \in InTxn
    /\ pc[r] = "sending" /\ ~stale[r] => ~Busy(sess[r])
    /\ pc[r] = "final" /\ ~stale[r] =>
         seen[r] = [state |-> state[sess[r]], turns |-> turns[sess[r]]]

(* A request's step keeps the snapshots true. *)
LEMMA RequestSnapshots ==
  ASSUME TypeOK, SnapshotInv, NEW r \in Runs, Request(r) PROVE SnapshotInv'
<1>1. CASE SendBegin(r)
  BY <1>1 DEF TypeOK, SnapshotInv, SendBegin, row, process
<1>2. CASE SendCommit(r)
  BY <1>2 DEF TypeOK, SnapshotInv, SendCommit, process, outside
<1>3. CASE SendRollback(r)
  BY <1>3 DEF TypeOK, SnapshotInv, SendRollback, row, outside
<1> QED BY <1>1, <1>2, <1>3 DEF Request

(* A worker's steps do. *)
LEMMA WorkerStepSnapshots ==
  ASSUME TypeOK, SnapshotInv, NEW r \in Runs, WorkerStep(r) PROVE SnapshotInv'
<1>1. CASE Spawn(r)
  BY <1>1 DEF TypeOK, SnapshotInv, Spawn, row
<1>2. CASE OpenPid(r)
  BY <1>2 DEF TypeOK, SnapshotInv, OpenPid, row, process, outside
<1>3. CASE RecordPid(r)
  BY <1>3 DEF TypeOK, SnapshotInv, RecordPid, process, outside
<1>4. CASE RecordPidConflict(r)
  BY <1>4 DEF TypeOK, SnapshotInv, RecordPidConflict, row, outside
<1>5. CASE BeginResult(r)
  BY <1>5 DEF TypeOK, SnapshotInv, BeginResult, row, process, outside
<1>6. CASE CommitResult(r)
  BY <1>6 DEF TypeOK, SnapshotInv, CommitResult, outside
<1>7. CASE ResultConflict(r)
  BY <1>7 DEF TypeOK, SnapshotInv, ResultConflict, row
<1>8. CASE TimeOut(r)
  BY <1>8 DEF TypeOK, SnapshotInv, TimeOut, row
<1>9. CASE EndLoop(r)
  BY <1>9 DEF TypeOK, SnapshotInv, EndLoop, row, process
<1>10. CASE OpenFinal(r)
  BY <1>10 DEF TypeOK, SnapshotInv, OpenFinal, row, process, outside
<1>11. CASE CommitFinal(r)
  <2>1. \A q \in Runs : q # r /\ pc[q] \in InTxn /\ ~stale'[q] => sess[q] # sess[r]
    BY <1>11 DEF TypeOK, CommitFinal
  <2>2. \A s \in Sessions : s # sess[r] => state'[s] = state[s] /\ turns'[s] = turns[s]
    BY <1>11 DEF TypeOK, CommitFinal
  <2> QED BY <1>11, <2>1, <2>2 DEF TypeOK, SnapshotInv, CommitFinal, process, outside
<1>12. CASE FinalConflict(r)
  BY <1>12 DEF TypeOK, SnapshotInv, FinalConflict, row, outside
<1>13. CASE OpenFail(r)
  BY <1>13 DEF TypeOK, SnapshotInv, OpenFail, row, process, outside
<1>14. CASE CommitFail(r)
  BY <1>14 DEF TypeOK, SnapshotInv, CommitFail, process, outside
<1>15. CASE FailConflict(r)
  BY <1>15 DEF TypeOK, SnapshotInv, FailConflict, row, outside
<1> QED
  BY <1>1, <1>2, <1>3, <1>4, <1>5, <1>6, <1>7, <1>8, <1>9, <1>10, <1>11, <1>12,
     <1>13, <1>14, <1>15 DEF WorkerStep

(* Its mishaps do. *)
LEMMA WorkerMishapSnapshots ==
  ASSUME TypeOK, SnapshotInv, NEW r \in Runs, WorkerMishap(r) PROVE SnapshotInv'
<1>1. CASE SpawnFail(r)
  BY <1>1 DEF TypeOK, SnapshotInv, SpawnFail, row, process
<1>2. CASE EndLoopClosed(r)
  BY <1>2 DEF TypeOK, SnapshotInv, EndLoopClosed, row
<1>3. CASE WorkerError(r)
  BY <1>3 DEF TypeOK, SnapshotInv, WorkerError, row, process, outside
<1>4. CASE WorkerSqlError(r)
  BY <1>4 DEF TypeOK, SnapshotInv, WorkerSqlError, row, outside
<1>5. CASE ThreadKilled(r)
  BY <1>5 DEF TypeOK, SnapshotInv, ThreadKilled, row, outside
<1>6. CASE RecordFails(r)
  BY <1>6 DEF TypeOK, SnapshotInv, RecordFails, process, outside
<1>7. CASE FinalFails(r)
  <2>1. \A q \in Runs : q # r /\ pc[q] \in InTxn /\ ~stale'[q] => sess[q] # sess[r]
    BY <1>7 DEF TypeOK, FinalFails
  <2>2. \A s \in Sessions : s # sess[r] => state'[s] = state[s] /\ turns'[s] = turns[s]
    BY <1>7 DEF TypeOK, FinalFails
  <2> QED BY <1>7, <2>1, <2>2 DEF TypeOK, SnapshotInv, FinalFails, process, outside
<1> QED BY <1>1, <1>2, <1>3, <1>4, <1>5, <1>6, <1>7 DEF WorkerMishap

(* So does everything that is not a step of a run's own thread. *)
LEMMA OtherSnapshots ==
  ASSUME TypeOK, SnapshotInv,
         \/ \E r \in Runs : CliStep(r)
         \/ \E s \in Sessions : Stop(s) \/ StopUncommitted(s)
         \/ Reap \/ ReapUncommitted \/ Tick \/ UNCHANGED vars
  PROVE  SnapshotInv'
<1>1. ASSUME NEW r \in Runs, CliStep(r) PROVE SnapshotInv'
  BY <1>1 DEF SnapshotInv, CliStep, CliLoad, CliEmitResult, CliExit, row, worker
<1>2. ASSUME NEW s \in Sessions, Stop(s) PROVE SnapshotInv'
  <2>1. \A q \in Runs : pc[q] \in InTxn /\ ~stale'[q] => sess[q] # s
    BY <1>2, NilAssumption DEF TypeOK, Stop
  <2>2. \A q \in Runs : stale'[q] => pc[q] \in InTxn
    BY <1>2 DEF TypeOK, SnapshotInv, Stop
  <2>3. \A q \in Runs : ~stale'[q] /\ pc[q] \in InTxn => ~stale[q]
    BY <1>2, NilAssumption DEF TypeOK, Stop
  <2>4. \A t \in Sessions : t # s => state'[t] = state[t]
    BY <1>2 DEF TypeOK, Stop
  <2> QED BY <1>2, <2>1, <2>2, <2>3, <2>4 DEF TypeOK, SnapshotInv, Stop
<1>3. ASSUME NEW s \in Sessions, StopUncommitted(s) PROVE SnapshotInv'
  BY <1>3 DEF SnapshotInv, StopUncommitted, row, worker
<1>4. CASE Reap
  <2>1. \A q \in Runs : pc[q] \in InTxn /\ ~stale'[q] => sess[q] \notin Reapable
    BY <1>4, NilAssumption DEF TypeOK, Reap
  <2>2. \A s \in Sessions : s \notin Reapable => state'[s] = state[s]
    BY <1>4 DEF TypeOK, Reap
  <2>3. \A q \in Runs : stale'[q] => pc[q] \in InTxn
    BY <1>4 DEF TypeOK, SnapshotInv, Reap
  <2>4. \A q \in Runs : ~stale'[q] /\ pc[q] \in InTxn => ~stale[q]
    BY <1>4, NilAssumption DEF TypeOK, Reap
  <2> QED BY <1>4, <2>1, <2>2, <2>3, <2>4 DEF TypeOK, SnapshotInv, Reap
<1>5. CASE ReapUncommitted
  BY <1>5 DEF SnapshotInv, ReapUncommitted, row, worker
<1>6. CASE Tick
  BY <1>6 DEF SnapshotInv, Tick
<1>7. CASE UNCHANGED vars
  BY <1>7 DEF SnapshotInv, vars, row, worker
<1> QED BY <1>1, <1>2, <1>3, <1>4, <1>5, <1>6, <1>7

(* In every reachable state a transaction that can commit has read the row  *)
(* as it is.                                                                *)
THEOREM SnapshotsHold == Spec => []SnapshotInv
<1>1. Init => SnapshotInv
  BY DEF Init, SnapshotInv
<1>2. TypeOK /\ SnapshotInv /\ [Next]_vars => SnapshotInv'
  BY RequestSnapshots, WorkerStepSnapshots, WorkerMishapSnapshots, OtherSnapshots DEF Next
<1> QED BY <1>1, <1>2, TypeCorrect, PTL DEF Spec

(* No turn is accepted by a session that is running at the commit. *)
THEOREM SendsAreSerialised == Spec => SendSerialised
<1>1. SnapshotInv => [\A r \in Runs : SendCommit(r) => ~Busy(sess[r])]_vars
  BY DEF SnapshotInv, SendCommit
<1> QED BY <1>1, SnapshotsHold, PTL DEF SendSerialised

-----------------------------------------------------------------------------
(* Results *)

(* A result is written to the row from the queue, once, after the pid.      *)
ResultInv ==
  \A r \in Runs :
    /\ pc[r] = "event" => result[r] = "emitted"
    /\ pc[r] \in {"free", "sending", "pending", "spawned", "recording"} => result[r] # "handled"

(* A result is handled only by a worker that took it from the queue. *)
LEMMA ResultStep == ASSUME TypeOK, ResultInv, [Next]_vars PROVE ResultInv'
<1>1. ASSUME NEW r \in Runs, Request(r) PROVE ResultInv'
  BY <1>1
  DEF TypeOK, ResultInv, Request, SendBegin, SendCommit, SendRollback, row, process
<1>2. ASSUME NEW r \in Runs, CliStep(r) PROVE ResultInv'
  BY <1>2 DEF TypeOK, ResultInv, CliStep, CliLoad, CliEmitResult, CliExit, worker
<1>3. ASSUME NEW r \in Runs, WorkerMishap(r) PROVE ResultInv'
  BY <1>3
  DEF TypeOK, ResultInv, WorkerMishap, SpawnFail, EndLoopClosed, WorkerError,
      RecordFails, FinalFails, WorkerSqlError, ThreadKilled, process
<1>4. ASSUME NEW r \in Runs, WorkerStep(r) PROVE ResultInv'
  <2>1. CASE CommitResult(r)
    BY <2>1 DEF TypeOK, ResultInv, CommitResult
  <2>2. CASE RecordPidConflict(r) \/ ResultConflict(r) \/ FinalConflict(r) \/ FailConflict(r)
    BY <2>2
    DEF TypeOK, ResultInv, RecordPidConflict, ResultConflict, FinalConflict, FailConflict
  <2>3. CASE Spawn(r) \/ OpenPid(r) \/ RecordPid(r) \/ TimeOut(r) \/ EndLoop(r)
             \/ OpenFinal(r) \/ OpenFail(r) \/ CommitFinal(r) \/ CommitFail(r)
    BY <2>3
    DEF TypeOK, ResultInv, Spawn, OpenPid, RecordPid, TimeOut, EndLoop, OpenFinal, OpenFail,
        CommitFinal, CommitFail, process
  <2>4. CASE BeginResult(r)
    BY <2>4 DEF TypeOK, ResultInv, BeginResult, process
  <2> QED BY <1>4, <2>1, <2>2, <2>3, <2>4 DEF WorkerStep
<1>5. CASE UNCHANGED <<pc, result>>
  BY <1>5 DEF ResultInv
<1> QED
  BY <1>1, <1>2, <1>3, <1>4, <1>5
  DEF Next, Stop, StopUncommitted, Reap, ReapUncommitted, Tick, vars, worker, process

LEMMA ResultsHold == Spec => []ResultInv
<1>1. Init => ResultInv
  BY DEF Init, ResultInv
<1> QED BY <1>1, ResultStep, TypeCorrect, PTL DEF Spec

-----------------------------------------------------------------------------
(* A running session has a worker that will write its state *)

(* r is a witness of RunningHasSupervisor for the session s. *)
Keeps(r, s) ==
  /\ sess[r] = s
  /\ \/ pc[r] \in Supervising /\ ~stale[r] /\ result[r] # "handled"
     \/ pc[r] = "dead"

(* What a step must do: each run that stops keeping its session leaves the  *)
(* session at rest, each session that starts to run gets a keeper.          *)
LEMMA KeeperStep ==
  ASSUME TypeOK, RunningHasSupervisor, sess' = sess,
         \A r \in Runs, s \in Sessions :
            Keeps(r, s) /\ Busy(s)' => Keeps(r, s)' \/ \E q \in Runs : Keeps(q, s)',
         \A s \in Sessions :
            Busy(s)' => Busy(s) \/ \E q \in Runs : Keeps(q, s)'
  PROVE  RunningHasSupervisor'
BY DEF RunningHasSupervisor, Keeps

(* A request gives the session it sets running a worker. *)
LEMMA RequestKeeps ==
  ASSUME TypeOK, SnapshotInv, ResultInv, RunningHasSupervisor, NEW r \in Runs, Request(r)
  PROVE  RunningHasSupervisor'
<1>1. CASE SendBegin(r)
  BY <1>1 DEF TypeOK, RunningHasSupervisor, SendBegin, row, process
<1>2. CASE SendCommit(r)
  <2>1. Keeps(r, sess[r])' /\ sess' = sess
    BY <1>2 DEF TypeOK, ResultInv, Keeps, SendCommit, process
  <2>2. \A q \in Runs, s \in Sessions : Keeps(q, s) /\ s # sess[r] => Keeps(q, s)'
    BY <1>2 DEF TypeOK, Keeps, SendCommit, process
  <2>3. \A s \in Sessions : Busy(s)' => Busy(s) \/ s = sess[r]
    BY <1>2 DEF TypeOK, SendCommit
  <2> QED BY <2>1, <2>2, <2>3, KeeperStep DEF TypeOK
<1>3. CASE SendRollback(r)
  BY <1>3 DEF TypeOK, RunningHasSupervisor, SendRollback, row, outside
<1> QED BY <1>1, <1>2, <1>3 DEF Request

(* A worker that moves on without writing the row keeps its session. *)
LEMMA QuietStepKeeps ==
  ASSUME TypeOK, RunningHasSupervisor, NEW r \in Runs,
         UNCHANGED <<state, sess, stale, result>>,
         pc[r] \in Supervising,
         \E to \in Supervising : Goto(r, to)
  PROVE  RunningHasSupervisor'
BY DEF TypeOK, RunningHasSupervisor

(* A transaction that fails to commit has been overtaken, so it was not what *)
(* the session's running state rested on.                                   *)
LEMMA ConflictKeeps ==
  ASSUME TypeOK, RunningHasSupervisor, NEW r \in Runs, stale[r], pc[r] # "dead",
         GiveUp(r, "lost")
  PROVE  RunningHasSupervisor'
BY DEF TypeOK, RunningHasSupervisor, row

(* A worker that dies still marks its session. *)
LEMMA DeathKeeps ==
  ASSUME TypeOK, RunningHasSupervisor, NEW r \in Runs, GiveUp(r, "dead")
  PROVE  RunningHasSupervisor'
BY DEF TypeOK, RunningHasSupervisor, row

(* A commit that leaves its session at rest disturbs the keepers of no other. *)
LEMMA SettlingKeeps ==
  ASSUME TypeOK, RunningHasSupervisor, NEW r \in Runs, NEW to,
         Goto(r, to), sess' = sess, stale' = Overtaken({sess[r]}, r),
         \A q \in Runs : q # r => result'[q] = result[q],
         ~Busy(sess[r])',
         \A s \in Sessions : s # sess[r] => state'[s] = state[s]
  PROVE  RunningHasSupervisor'
<1> SUFFICES ASSUME NEW s \in Sessions, Busy(s)' PROVE \E q \in Runs : Keeps(q, s)'
  BY DEF RunningHasSupervisor, Keeps
<1>1. s # sess[r] /\ Busy(s)
  BY DEF TypeOK
<1>2. PICK q \in Runs : Keeps(q, s)
  BY <1>1 DEF RunningHasSupervisor, Keeps
<1>3. q # r /\ pc'[q] = pc[q] /\ stale'[q] = stale[q] /\ result'[q] = result[q]
  BY <1>1, <1>2 DEF TypeOK, Keeps
<1> QED BY <1>2, <1>3 DEF Keeps

(* The steps of a worker. *)
LEMMA WorkerStepKeeps ==
  ASSUME TypeOK, SnapshotInv, ResultInv, RunningHasSupervisor, NEW r \in Runs, WorkerStep(r)
  PROVE  RunningHasSupervisor'
<1>1. CASE Spawn(r) \/ OpenPid(r) \/ BeginResult(r) \/ TimeOut(r) \/ EndLoop(r)
           \/ OpenFinal(r) \/ OpenFail(r)
  <2>1. /\ UNCHANGED <<state, sess, stale, result>>
        /\ pc[r] \in Supervising
        /\ \E to \in Supervising : Goto(r, to)
    BY <1>1 DEF Spawn, OpenPid, BeginResult, TimeOut, EndLoop, OpenFinal, OpenFail, row, process
  <2> QED BY <2>1, QuietStepKeeps
<1>2. CASE RecordPid(r)
  <2>1. Keeps(r, sess[r])' /\ sess' = sess /\ state' = state
    BY <1>2 DEF TypeOK, ResultInv, Keeps, RecordPid, process
  <2>2. \A q \in Runs, s \in Sessions : Keeps(q, s) /\ s # sess[r] => Keeps(q, s)'
    BY <1>2 DEF TypeOK, Keeps, RecordPid, process
  <2> QED BY <2>1, <2>2, KeeperStep DEF TypeOK
<1>3. CASE RecordPidConflict(r) \/ ResultConflict(r) \/ FinalConflict(r) \/ FailConflict(r)
  <2>1. stale[r] /\ pc[r] # "dead" /\ GiveUp(r, "lost")
    BY <1>3 DEF RecordPidConflict, ResultConflict, FinalConflict, FailConflict
  <2> QED BY <2>1, ConflictKeeps
<1>4. CASE CommitResult(r)
  <2>1. ~Busy(sess[r])' /\ \A s \in Sessions : s # sess[r] => state'[s] = state[s]
    BY <1>4 DEF TypeOK, CommitResult
  <2>2. \A q \in Runs : q # r => result'[q] = result[q]
    BY <1>4 DEF TypeOK, CommitResult
  <2> QED BY <1>4, <2>1, <2>2, SettlingKeeps DEF CommitResult
<1>5. CASE CommitFinal(r)
  <2>1. PICK st \in FinalStates(r) : state' = [state EXCEPT ![sess[r]] = st]
    BY <1>5 DEF CommitFinal
  <2>2. st # "running"
    <3>1. pc[r] = "final" /\ ~stale[r]
      BY <1>5 DEF CommitFinal
    <3>2. seen[r] = [state |-> state[sess[r]], turns |-> turns[sess[r]]]
      BY <3>1 DEF SnapshotInv
    <3>3. seen[r].state = state[sess[r]]
      BY <3>2
    <3> QED BY <2>1, <3>3 DEF FinalStates
  <2>3. ~Busy(sess[r])' /\ \A s \in Sessions : s # sess[r] => state'[s] = state[s]
    BY <1>5, <2>1, <2>2 DEF TypeOK, CommitFinal
  <2> QED BY <1>5, <2>3, SettlingKeeps DEF CommitFinal, process
<1>6. CASE CommitFail(r)
  <2>1. ~Busy(sess[r])' /\ \A s \in Sessions : s # sess[r] => state'[s] = state[s]
    BY <1>6 DEF TypeOK, CommitFail
  <2> QED BY <1>6, <2>1, SettlingKeeps DEF CommitFail, process
<1> QED BY <1>1, <1>2, <1>3, <1>4, <1>5, <1>6 DEF WorkerStep

(* Its mishaps. *)
LEMMA WorkerMishapKeeps ==
  ASSUME TypeOK, RunningHasSupervisor, NEW r \in Runs, WorkerMishap(r)
  PROVE  RunningHasSupervisor'
<1>1. CASE SpawnFail(r) \/ EndLoopClosed(r) \/ WorkerError(r)
  <2>1. /\ UNCHANGED <<state, sess, stale, result>>
        /\ pc[r] \in Supervising
        /\ \E to \in Supervising : Goto(r, to)
    BY <1>1 DEF SpawnFail, EndLoopClosed, WorkerError, row, process
  <2> QED BY <2>1, QuietStepKeeps
<1>2. CASE WorkerSqlError(r) \/ ThreadKilled(r)
  BY <1>2, DeathKeeps DEF WorkerSqlError, ThreadKilled
<1>3. CASE RecordFails(r)
  <2>1. ~Busy(sess[r])' /\ \A s \in Sessions : s # sess[r] => state'[s] = state[s]
    BY <1>3 DEF TypeOK, RecordFails
  <2> QED BY <1>3, <2>1, SettlingKeeps DEF RecordFails, process
<1>4. CASE FinalFails(r)
  <2>1. ~Busy(sess[r])' /\ \A s \in Sessions : s # sess[r] => state'[s] = state[s]
    BY <1>4 DEF TypeOK, FinalFails
  <2> QED BY <1>4, <2>1, SettlingKeeps DEF FinalFails, process
<1> QED BY <1>1, <1>2, <1>3, <1>4 DEF WorkerMishap

(* The CLI, the users, the cron and the clock. *)
LEMMA OtherKeeps ==
  ASSUME TypeOK, RunningHasSupervisor,
         \/ \E r \in Runs : CliStep(r)
         \/ \E s \in Sessions : Stop(s) \/ StopUncommitted(s)
         \/ Reap \/ ReapUncommitted \/ Tick \/ UNCHANGED vars
  PROVE  RunningHasSupervisor'
<1>1. ASSUME UNCHANGED <<state, pc, sess, stale>>,
             \A r \in Runs : result'[r] = result[r] \/ result'[r] = "emitted"
      PROVE  RunningHasSupervisor'
  BY <1>1 DEF RunningHasSupervisor
<1>2. ASSUME NEW s \in Sessions, Stop(s) PROVE RunningHasSupervisor'
  BY <1>2 DEF TypeOK, RunningHasSupervisor, Stop
<1>3. CASE Reap
  <2>1. \A s \in Sessions : IF s \in Reapable THEN ~Busy(s)' ELSE Busy(s)' = Busy(s)
    BY <1>3 DEF TypeOK, Reap
  <2>2. \A r \in Runs, s \in Sessions : s \notin Reapable /\ Keeps(r, s) => Keeps(r, s)'
    BY <1>3 DEF TypeOK, Reap, Keeps, process
  <2>3. sess' = sess
    BY <1>3 DEF Reap
  <2> QED BY <2>1, <2>2, <2>3, KeeperStep
<1>4. ASSUME NEW r \in Runs, CliStep(r) PROVE RunningHasSupervisor'
  <2>1. \A q \in Runs : result'[q] = result[q] \/ result'[q] = "emitted"
    BY <1>4 DEF TypeOK, CliStep, CliLoad, CliEmitResult, CliExit
  <2> QED BY <1>1, <1>4, <2>1 DEF CliStep, CliLoad, CliEmitResult, CliExit, row, worker
<1>5. CASE (\E s \in Sessions : StopUncommitted(s)) \/ ReapUncommitted \/ Tick \/ UNCHANGED vars
  BY <1>1, <1>5 DEF StopUncommitted, ReapUncommitted, Tick, vars, row, worker, process
<1> QED BY <1>2, <1>3, <1>4, <1>5

(* A session is running only while a worker that can still commit is on its *)
(* way to write its state, or after a worker died: no conflict between      *)
(* sends, stops, the reaper and workers leaves it running for ever.         *)
THEOREM NoConflictWedges == Spec => []RunningHasSupervisor
<1>1. Init => RunningHasSupervisor
  BY DEF Init, RunningHasSupervisor
<1>2. TypeOK /\ SnapshotInv /\ ResultInv /\ RunningHasSupervisor /\ [Next]_vars
        => RunningHasSupervisor'
  BY RequestKeeps, WorkerStepKeeps, WorkerMishapKeeps, OtherKeeps DEF Next
<1> QED BY <1>1, <1>2, TypeCorrect, SnapshotsHold, ResultsHold, PTL DEF Spec

-----------------------------------------------------------------------------
(* The reaper and the worker's own deadline *)

(* The row of a running session was written after the deadline of any worker *)
(* that still reads its CLI was set.                                        *)
ClockInv ==
  \A r \in Runs :
    pc[r] \in Watching /\ Busy(sess[r]) => age[sess[r]] <= elapsed[r] \/ Expired(r)

(* Every step but Tick rewrites the row or leaves both clocks alone. *)
LEMMA ClockStep ==
  ASSUME TypeOK, TypeOK', ClockInv, sess' = sess,
         \A r \in Runs :
           pc'[r] \in Watching /\ Busy(sess[r])' =>
             \/ age'[sess[r]] = 0
             \/ /\ pc[r] \in Watching /\ Busy(sess[r])
                /\ age'[sess[r]] = age[sess[r]] /\ elapsed'[r] = elapsed[r]
  PROVE  ClockInv'
<1> SUFFICES ASSUME NEW r \in Runs, pc'[r] \in Watching, Busy(sess[r])'
             PROVE  age'[sess[r]] <= elapsed'[r] \/ elapsed'[r] >= Timeout
  BY DEF ClockInv, Expired
<1>1. elapsed'[r] \in Nat
  BY DEF TypeOK
<1>2. CASE age'[sess[r]] = 0
  BY <1>1, <1>2
<1>3. CASE /\ pc[r] \in Watching /\ Busy(sess[r])
           /\ age'[sess[r]] = age[sess[r]] /\ elapsed'[r] = elapsed[r]
  BY <1>3 DEF ClockInv, Expired
<1> QED BY <1>2, <1>3

(* The clocks of requests and workers. *)
LEMMA ThreadClocks ==
  ASSUME TypeOK, TypeOK', ClockInv, NEW r \in Runs,
         Request(r) \/ WorkerStep(r) \/ WorkerMishap(r)
  PROVE  ClockInv'
<1>1. CASE UNCHANGED <<state, age, elapsed, sess>> /\ \A q \in Runs : pc'[q] \in Watching => pc[q] \in Watching
  BY <1>1, ClockStep
<1>2. CASE Request(r)
  <2>1. CASE SendCommit(r)
    BY <1>1, <2>1, ClockStep DEF TypeOK, SendCommit
  <2>2. CASE SendBegin(r) \/ SendRollback(r)
    BY <1>1, <2>2 DEF TypeOK, SendBegin, SendRollback, row
  <2> QED BY <1>2, <2>1, <2>2 DEF Request
<1>3. CASE WorkerMishap(r)
  <2>1. CASE SpawnFail(r) \/ EndLoopClosed(r) \/ WorkerError(r)
    BY <1>1, <2>1 DEF TypeOK, SpawnFail, EndLoopClosed, WorkerError, row
  <2>2. CASE WorkerSqlError(r) \/ ThreadKilled(r)
    BY <1>1, <2>2 DEF TypeOK, WorkerSqlError, ThreadKilled, row
  <2>3. CASE RecordFails(r)
    BY <2>3, ClockStep DEF TypeOK, RecordFails
  <2>4. CASE FinalFails(r)
    BY <2>4, ClockStep DEF TypeOK, FinalFails
  <2> QED BY <1>3, <2>1, <2>2, <2>3, <2>4 DEF WorkerMishap
<1>4. CASE WorkerStep(r)
  <2>1. CASE Spawn(r) \/ OpenPid(r) \/ BeginResult(r) \/ TimeOut(r) \/ EndLoop(r)
             \/ OpenFinal(r) \/ OpenFail(r)
    BY <1>1, <2>1
    DEF TypeOK, Spawn, OpenPid, BeginResult, TimeOut, EndLoop, OpenFinal, OpenFail, row
  <2>2. CASE RecordPidConflict(r) \/ ResultConflict(r) \/ FinalConflict(r) \/ FailConflict(r)
    BY <1>1, <2>2
    DEF TypeOK, RecordPidConflict, ResultConflict, FinalConflict, FailConflict, row
  <2>3. CASE RecordPid(r)
    BY <2>3, ClockStep DEF TypeOK, RecordPid
  <2>4. CASE CommitResult(r)
    BY <2>4, ClockStep DEF TypeOK, CommitResult
  <2>5. CASE CommitFinal(r)
    <3>1. \A s \in Sessions : s # sess[r] => state'[s] = state[s]
      BY <2>5 DEF TypeOK, CommitFinal
    <3> QED BY <2>5, <3>1, ClockStep DEF TypeOK, CommitFinal
  <2>6. CASE CommitFail(r)
    BY <2>6, ClockStep DEF TypeOK, CommitFail
  <2> QED BY <1>4, <2>1, <2>2, <2>3, <2>4, <2>5, <2>6 DEF WorkerStep
<1> QED BY <1>2, <1>3, <1>4

(* A tick lets both grow together, until the deadline has passed. *)
LEMMA TickClocks == ASSUME TypeOK, TypeOK', ClockInv, Tick PROVE ClockInv'
<1> SUFFICES ASSUME NEW r \in Runs, pc'[r] \in Watching, Busy(sess[r])', ~Expired(r)'
             PROVE  age'[sess[r]] <= elapsed'[r]
  BY DEF ClockInv, Tick
<1>1. pc[r] = "loop" /\ Busy(sess[r]) /\ sess[r] \in Sessions
  BY DEF TypeOK, Tick
<1>2. elapsed'[r] = Older(elapsed[r], Timeout) /\ elapsed'[r] < Timeout
  BY <1>1, LimitAssumption DEF TypeOK, Tick, Expired
<1>3. elapsed'[r] = elapsed[r] + 1 /\ ~Expired(r)
  BY <1>2, LimitAssumption DEF TypeOK, Older, Expired
<1>4. age'[sess[r]] <= age[sess[r]] + 1
  BY <1>1, LimitAssumption DEF TypeOK, Tick, Older, Cutoff
<1>5. age[sess[r]] <= elapsed[r]
  BY <1>1, <1>3 DEF ClockInv
<1> QED BY <1>1, <1>3, <1>4, <1>5 DEF TypeOK

(* The rest. *)
LEMMA OtherClocks ==
  ASSUME TypeOK, TypeOK', ClockInv,
         \/ \E r \in Runs : CliStep(r)
         \/ \E s \in Sessions : Stop(s) \/ StopUncommitted(s)
         \/ Reap \/ ReapUncommitted \/ UNCHANGED vars
  PROVE  ClockInv'
<1>1. CASE UNCHANGED <<state, age, elapsed, sess, pc>>
  BY <1>1, ClockStep
<1>2. ASSUME NEW s \in Sessions, Stop(s) PROVE ClockInv'
  BY <1>2, ClockStep DEF TypeOK, Stop
<1>3. CASE Reap
  BY <1>3, ClockStep DEF TypeOK, Reap
<1> QED
  BY <1>1, <1>2, <1>3
  DEF CliStep, CliLoad, CliEmitResult, CliExit, StopUncommitted, ReapUncommitted,
      vars, row, worker

(* The reaper ends a turn only when the deadline of each of the session's   *)
(* workers that still reads its CLI has passed.                             *)
THEOREM ReaperIsPatient == Spec => ReapOnlyExpired
<1>1. Init => ClockInv
  BY DEF Init, ClockInv
<1>2. TypeOK /\ TypeOK' /\ ClockInv /\ [Next]_vars => ClockInv'
  BY ThreadClocks, TickClocks, OtherClocks DEF Next
<1>3. TypeOK /\ ClockInv =>
        [Reap => \A r \in Runs : pc[r] \in Watching /\ sess[r] \in Reapable => Expired(r)]_vars
  BY LimitAssumption DEF TypeOK, ClockInv, Reapable, Cutoff, Expired
<1> QED BY <1>1, <1>2, <1>3, TypeCorrect, PTL DEF Spec, ReapOnlyExpired

-----------------------------------------------------------------------------
(* What a worker leaves behind *)

Left == {"ended", "final", "counted"}

(* A worker past its finally block has neither files nor a routing session, *)
(* unless it could not remove them, and its CLI has exited: wait() returned. *)
ResidueInv ==
  \A r \in Runs : pc[r] \in Left =>
    /\ cfgFile[sess[r]] = r => <<r, "files">> \in unremoved
    /\ r \in sids => <<r, "sid">> \in unremoved
    /\ cli[r] = "exited"

(* A step that brings nobody past the finally block, and neither writes     *)
(* files nor mints a routing session for a run that is past it.             *)
Tidy ==
  /\ sess' = sess
  /\ unremoved \subseteq unremoved'
  /\ \A r \in Runs : pc'[r] \in Left =>
       /\ pc[r] \in Left
       /\ cli[r] = "exited" => cli'[r] = "exited"
       /\ cfgFile'[sess[r]] = r => cfgFile[sess[r]] = r
       /\ r \in sids' => r \in sids

(* Such a step keeps the invariant. *)
LEMMA TidyStep == ASSUME ResidueInv, Tidy PROVE ResidueInv'
BY DEF ResidueInv, Tidy

(* A worker's steps. *)
LEMMA WorkerResidue ==
  ASSUME TypeOK, ResidueInv, NEW r \in Runs, WorkerStep(r) \/ WorkerMishap(r)
  PROVE  ResidueInv'
<1>1. CASE EndLoop(r) \/ EndLoopClosed(r)
  <2>1. pc' = [pc EXCEPT ![r] = "ended"] /\ sess' = sess /\ CleanUp(r)
    BY <1>1 DEF EndLoop, EndLoopClosed
  <2>2. cli'[r] = "exited" /\ \A q \in Runs : q # r => cli'[q] = cli[q]
    BY <1>1 DEF TypeOK, EndLoop, EndLoopClosed, process
  <2>3. PICK fails \in SUBSET Residue :
          /\ cfgFile' = IF "files" \in fails THEN cfgFile ELSE [cfgFile EXCEPT ![sess[r]] = NoRun]
          /\ sids' = IF "sid" \in fails THEN sids ELSE sids \ {r}
          /\ unremoved' = unremoved \cup ({r} \X fails)
    BY <2>1
  <2>4. \A x \in fails : <<r, x>> \in unremoved'
    BY <2>3
  <2>5. cfgFile'[sess[r]] = r => "files" \in fails
    BY <2>3, NilAssumption DEF TypeOK
  <2>6. r \in sids' => "sid" \in fails
    BY <2>3
  <2>7. ASSUME NEW q \in Runs, q # r, pc'[q] \in Left
        PROVE  /\ pc[q] \in Left /\ cli'[q] = cli[q]
               /\ cfgFile'[sess[q]] = q => cfgFile[sess[q]] = q
               /\ q \in sids' => q \in sids
    BY <2>1, <2>2, <2>3, <2>7, NilAssumption DEF TypeOK
  <2> QED BY <2>1, <2>2, <2>3, <2>4, <2>5, <2>6, <2>7 DEF TypeOK, ResidueInv, Left
<1>2. CASE Spawn(r)
  <2>1. Tidy
    BY <1>2 DEF TypeOK, Spawn, Tidy, Left
  <2> QED BY <2>1, TidyStep
<1>3. CASE SpawnFail(r)
  <2>1. Tidy
    BY <1>3 DEF TypeOK, SpawnFail, Tidy, Left, process
  <2> QED BY <2>1, TidyStep
<1>4. CASE OpenPid(r) \/ RecordPid(r) \/ BeginResult(r) \/ CommitResult(r) \/ OpenFinal(r)
           \/ CommitFinal(r) \/ OpenFail(r) \/ CommitFail(r) \/ RecordFails(r) \/ FinalFails(r)
  <2>1. Tidy
    BY <1>4
    DEF TypeOK, Tidy, Left, OpenPid, RecordPid, BeginResult, CommitResult, OpenFinal,
        CommitFinal, OpenFail, CommitFail, RecordFails, FinalFails, process, outside
  <2> QED BY <2>1, TidyStep
<1>5. CASE TimeOut(r) \/ WorkerError(r)
  <2>1. Tidy
    BY <1>5, NilAssumption DEF TypeOK, Tidy, Left, TimeOut, WorkerError, process, outside
  <2> QED BY <2>1, TidyStep
<1>6. CASE RecordPidConflict(r) \/ ResultConflict(r) \/ FinalConflict(r) \/ FailConflict(r)
           \/ WorkerSqlError(r) \/ ThreadKilled(r)
  <2>1. Tidy
    BY <1>6, NilAssumption
    DEF TypeOK, Tidy, Left, RecordPidConflict, ResultConflict, FinalConflict, FailConflict,
        WorkerSqlError, ThreadKilled, outside
  <2> QED BY <2>1, TidyStep
<1> QED BY <1>1, <1>2, <1>3, <1>4, <1>5, <1>6 DEF WorkerStep, WorkerMishap

(* Every other step. *)
LEMMA OtherResidue ==
  ASSUME TypeOK, ResidueInv,
         \/ \E r \in Runs : Request(r) \/ CliStep(r)
         \/ \E s \in Sessions : Stop(s) \/ StopUncommitted(s)
         \/ Reap \/ ReapUncommitted \/ Tick \/ UNCHANGED vars
  PROVE  ResidueInv'
<1>1. CASE UNCHANGED <<pc, sess, cfgFile, sids, unremoved>> /\ \A r \in Runs : cli[r] = "exited" => cli'[r] = "exited"
  BY <1>1, TidyStep DEF Tidy
<1>2. ASSUME NEW r \in Runs, Request(r) PROVE ResidueInv'
  <2>1. Tidy
    BY <1>2
    DEF TypeOK, Tidy, Left, Request, SendBegin, SendCommit, SendRollback, process, outside
  <2> QED BY <2>1, TidyStep
<1>3. ASSUME NEW r \in Runs, CliStep(r) PROVE ResidueInv'
  BY <1>1, <1>3 DEF TypeOK, CliStep, CliLoad, CliEmitResult, CliExit, worker, outside
<1>4. CASE (\E s \in Sessions : Stop(s) \/ StopUncommitted(s)) \/ Reap \/ ReapUncommitted
  BY <1>1, <1>4
  DEF TypeOK, Stop, StopUncommitted, StopSignals, Reap, ReapUncommitted, ReapSignals,
      worker, outside
<1>5. CASE Tick \/ UNCHANGED vars
  BY <1>1, <1>5 DEF Tick, vars, worker, process, outside
<1> QED BY <1>2, <1>3, <1>4, <1>5

(* Once a worker is past its finally block its CLI is gone, and the token in *)
(* its mcp.json and its routing session are, or its own removal failed: no   *)
(* turn of the session that writes the same file, and no exception, brings   *)
(* them back or keeps them (CleanAfterRun).                                  *)
THEOREM CountedTurnsAreClean == Spec => []CleanAfterRun
<1>1. Init => ResidueInv
  BY DEF Init, ResidueInv, Left
<1>2. TypeOK /\ ResidueInv /\ [Next]_vars => ResidueInv'
  BY WorkerResidue, OtherResidue DEF Next
<1>3. ResidueInv => CleanAfterRun
  BY DEF ResidueInv, CleanAfterRun, Left
<1> QED BY <1>1, <1>2, <1>3, TypeCorrect, PTL DEF Spec

-----------------------------------------------------------------------------
(* A result that is overwritten *)

(* A worker that has written its CLI's result changes the state again, in   *)
(* its final transaction, only if a later turn of the session runs, or one  *)
(* whose worker has died: it is that turn's state it ends.                  *)
FinalEndsAnotherTurn ==
  [][\A r \in Runs :
       CommitFinal(r) /\ result[r] = "handled" /\ state' # state =>
         \E q \in Runs \ {r} :
           /\ sess[q] = sess[r]
           /\ \/ pc[q] \in Supervising /\ ~stale[q] /\ result[q] # "handled"
              \/ pc[q] = "dead"]_vars

(* The one way in which FinalizeMeansNoResult fails (the end of _execute).  *)
THEOREM FinalizeReachesOnlyOthers == Spec => FinalEndsAnotherTurn
<1>1. ASSUME TypeOK, SnapshotInv, RunningHasSupervisor, NEW r \in Runs,
             CommitFinal(r), result[r] = "handled", state' # state
      PROVE  \E q \in Runs \ {r} :
               /\ sess[q] = sess[r]
               /\ \/ pc[q] \in Supervising /\ ~stale[q] /\ result[q] # "handled"
                  \/ pc[q] = "dead"
  <2>1. pc[r] = "final" /\ ~stale[r]
    BY <1>1 DEF CommitFinal
  <2>2. seen[r].state = state[sess[r]]
    <3>1. seen[r] = [state |-> state[sess[r]], turns |-> turns[sess[r]]]
      BY <1>1, <2>1 DEF SnapshotInv
    <3> QED BY <3>1
  <2>3. PICK st \in FinalStates(r) : state' = [state EXCEPT ![sess[r]] = st]
    BY <1>1 DEF CommitFinal
  <2>4. Busy(sess[r])
    <3>1. st # state[sess[r]]
      BY <1>1, <2>3 DEF TypeOK
    <3> QED BY <2>2, <2>3, <3>1 DEF FinalStates
  <2>5. PICK q \in Runs : Keeps(q, sess[r])
    BY <1>1, <2>4 DEF RunningHasSupervisor, Keeps, TypeOK
  <2>6. q # r
    BY <1>1, <2>1, <2>5 DEF Keeps
  <2> QED BY <2>5, <2>6 DEF Keeps
<1>2. TypeOK /\ SnapshotInv /\ RunningHasSupervisor =>
        [\A r \in Runs :
           CommitFinal(r) /\ result[r] = "handled" /\ state' # state =>
             \E q \in Runs \ {r} :
               /\ sess[q] = sess[r]
               /\ \/ pc[q] \in Supervising /\ ~stale[q] /\ result[q] # "handled"
                  \/ pc[q] = "dead"]_vars
  BY <1>1
<1> QED
  BY <1>2, TypeCorrect, SnapshotsHold, NoConflictWedges, PTL DEF FinalEndsAnotherTurn

-----------------------------------------------------------------------------
(* Process ids *)

Launched == Watching \cup {"spawned", "recording"}

(* Two processes never have the same id at the same time. *)
PidInv ==
  /\ \A r \in Runs : pc[r] \in Launched => cli[r] # "none"
  /\ \A r, q \in Runs, p \in Pids : Holds(r, p) /\ Holds(q, p) => r = q

(* A step that starts no process takes no id. *)
LEMMA PidStep ==
  ASSUME TypeOK, PidInv, pid' = pid,
         \A q \in Runs : /\ pc'[q] \in Launched => pc[q] \in Launched
                         /\ cli'[q] \in Alive => cli[q] \in Alive
                         /\ cli[q] # "none" => cli'[q] # "none"
  PROVE  PidInv'
<1>1. ASSUME NEW q \in Runs, NEW p \in Pids, Holds(q, p)' PROVE Holds(q, p)
  BY <1>1 DEF TypeOK, PidInv, Holds, Launched
<1>2. \A q \in Runs : pc'[q] \in Launched => cli'[q] # "none"
  BY DEF PidInv
<1> QED BY <1>1, <1>2 DEF PidInv

LEMMA SpawnPids == ASSUME TypeOK, PidInv, NEW r \in Runs, Spawn(r) PROVE PidInv'
<1>1. PICK p \in Pids : /\ \A q \in Runs : ~Holds(q, p)
                        /\ pid' = [pid EXCEPT ![r] = p]
  BY DEF Spawn
<1>2. pid'[r] = p /\ cli'[r] = "starting"
  BY <1>1 DEF TypeOK, Spawn
<1>3. ASSUME NEW q \in Runs, q # r
      PROVE  /\ pid'[q] = pid[q] /\ cli'[q] = cli[q] /\ pc'[q] = pc[q]
             /\ \A x : Holds(q, x)' <=> Holds(q, x)
  <2>1. pid'[q] = pid[q] /\ cli'[q] = cli[q] /\ pc'[q] = pc[q]
    BY <1>1, <1>3 DEF TypeOK, Spawn
  <2> QED BY <2>1 DEF Holds
<1>4. \A q \in Runs : pc'[q] \in Launched => cli'[q] # "none"
  BY <1>2, <1>3 DEF PidInv
<1>5. \A x : Holds(r, x)' => x = p
  BY <1>2 DEF Holds
<1>6. ASSUME NEW a \in Runs, NEW b \in Runs, NEW x \in Pids, Holds(a, x)', Holds(b, x)'
      PROVE  a = b
  <2>1. CASE a = r \/ b = r
    BY <1>1, <1>3, <1>5, <1>6, <2>1
  <2>2. CASE a # r /\ b # r
    BY <1>3, <1>6, <2>2 DEF PidInv
  <2> QED BY <2>1, <2>2
<1> QED BY <1>4, <1>6 DEF PidInv

LEMMA StepPids == ASSUME TypeOK, PidInv, [Next]_vars PROVE PidInv'
<1> USE DEF Launched
<1>1. ASSUME NEW r \in Runs, Request(r) PROVE PidInv'
  BY <1>1, PidStep DEF TypeOK, Request, SendBegin, SendCommit, SendRollback, process
<1>2. ASSUME NEW r \in Runs, CliStep(r) PROVE PidInv'
  BY <1>2, PidStep DEF TypeOK, CliStep, CliLoad, CliEmitResult, CliExit, worker
<1>3. ASSUME NEW r \in Runs, WorkerMishap(r) PROVE PidInv'
  BY <1>3, PidStep
  DEF TypeOK, WorkerMishap, SpawnFail, EndLoopClosed, WorkerError, RecordFails, FinalFails,
      WorkerSqlError, ThreadKilled, process
<1>4. ASSUME NEW r \in Runs, WorkerStep(r), ~Spawn(r) PROVE PidInv'
  <2>1. CASE OpenPid(r) \/ RecordPid(r) \/ RecordPidConflict(r)
    BY <2>1, PidStep DEF TypeOK, OpenPid, RecordPid, RecordPidConflict, process
  <2>2. CASE BeginResult(r) \/ CommitResult(r) \/ ResultConflict(r)
    BY <2>2, PidStep DEF TypeOK, BeginResult, CommitResult, ResultConflict, process
  <2>3. CASE TimeOut(r) \/ EndLoop(r)
    BY <2>3, PidStep DEF TypeOK, TimeOut, EndLoop, process
  <2>4. CASE OpenFinal(r) \/ CommitFinal(r) \/ FinalConflict(r)
    BY <2>4, PidStep DEF TypeOK, OpenFinal, CommitFinal, FinalConflict, process
  <2>5. CASE OpenFail(r) \/ CommitFail(r) \/ FailConflict(r)
    BY <2>5, PidStep DEF TypeOK, OpenFail, CommitFail, FailConflict, process
  <2> QED BY <1>4, <2>1, <2>2, <2>3, <2>4, <2>5 DEF WorkerStep
<1>5. ASSUME NEW s \in Sessions, Stop(s) \/ StopUncommitted(s) PROVE PidInv'
  BY <1>5, PidStep DEF TypeOK, Stop, StopUncommitted, StopSignals, worker
<1>6. CASE Reap \/ ReapUncommitted
  BY <1>6, PidStep DEF TypeOK, Reap, ReapUncommitted, ReapSignals, worker
<1>7. CASE Tick \/ UNCHANGED vars
  BY <1>7, PidStep DEF TypeOK, Tick, vars, worker, process
<1> QED BY <1>1, <1>2, <1>3, <1>4, <1>5, <1>6, <1>7, SpawnPids DEF Next

(* The signal of a stop or of the reaper meets no process but the one its   *)
(* worker watches, if that one's id is in the row (SignalsMeetTheirCli).    *)
THEOREM NoSignalGoesAstray == Spec => SignalsMeetTheirCli
<1>1. Init => PidInv
  BY NilAssumption DEF Init, PidInv, Holds, Launched
<1>2. Spec => []PidInv
  BY <1>1, StepPids, TypeCorrect, PTL DEF Spec
<1>3. ASSUME TypeOK, PidInv, NEW r \in Runs, NEW q \in Runs,
             pc[r] \in Watching, pid[r] = lastPid[sess[r]],
             Stop(sess[r]) \/ StopUncommitted(sess[r]) \/ Reap \/ ReapUncommitted,
             q # r, pid[q] = pid[r]
      PROVE  cli'[q] = cli[q]
  <2>1. PICK targets, becomes : cli' = Signalled(targets, becomes) /\ NoPid \notin targets
    <3> HIDE DEF Signalled
    <3>1. \A s : NoPid \notin {lastPid[s]} \ {NoPid}
      OBVIOUS
    <3>2. CASE Stop(sess[r]) \/ StopUncommitted(sess[r])
      BY <3>1, <3>2, Zenon DEF Stop, StopUncommitted, StopSignals
    <3>3. CASE Reap \/ ReapUncommitted
      <4>1. NoPid \notin {lastPid[s] : s \in Reapable} \ {NoPid}
        OBVIOUS
      <4> QED BY <3>3, <4>1, Zenon DEF Reap, ReapUncommitted, ReapSignals
    <3> QED BY <1>3, <3>2, <3>3
  <2>2. CASE pid[q] = NoPid
    BY <2>1, <2>2 DEF TypeOK
  <2>3. CASE pid[q] # NoPid
    <3>1. pid[r] \in Pids /\ Holds(r, pid[r])
      BY <1>3, <2>3 DEF TypeOK, PidInv, Holds, Launched
    <3>2. cli[q] \notin Alive
      BY <1>3, <3>1 DEF PidInv, Holds
    <3> QED BY <2>1, <3>2 DEF TypeOK
  <2> QED BY <2>2, <2>3
<1>4. TypeOK /\ PidInv =>
        [\A r, q \in Runs :
           /\ pc[r] \in Watching /\ pid[r] = lastPid[sess[r]]
           /\ Stop(sess[r]) \/ StopUncommitted(sess[r]) \/ Reap \/ ReapUncommitted
           /\ q # r /\ pid[q] = pid[r]
           => cli'[q] = cli[q]]_vars
  BY <1>3
<1> QED BY <1>2, <1>4, TypeCorrect, PTL DEF SignalsMeetTheirCli

-----------------------------------------------------------------------------
(* What a stop does not reach *)

(* At most one worker of a session is at its work: nobody sends a turn while *)
(* the worker of a stopped, reaped or settled one is still there.            *)
OneWorker ==
  \A r, q \in Runs :
    r # q /\ sess[r] = sess[q] /\ pc[r] \in Supervising => pc[q] \notin Supervising

(* Where an exception, or the end of the server's thread, leaves a run. *)
Orphaned == {"failing", "failed", "lost", "dead"}

Unsignalled(r) == cli[r] \in {"starting", "live"}

(* A CLI goes on after a stop of its session only when its pid is not        *)
(* committed yet, or when its worker has left it by an exception             *)
(* (action_stop, _execute).                                                  *)
StopMissesOnlyUnwatched ==
  [][\A s \in Sessions, r \in Runs :
       Stop(s) /\ sess[r] = s /\ Unsignalled(r)' =>
         pc[r] \in {"spawned", "recording"} \cup Orphaned]_vars

(* A CLI nobody has signalled has its pid in the row while its worker reads  *)
(* it, and where a worker stands tells whether there can be such a CLI.      *)
Reached(r) ==
  Unsignalled(r) =>
    /\ pid[r] # NoPid
    /\ pc[r] \in {"spawned", "recording"} \cup Watching \cup Orphaned
    /\ pc[r] \in Watching => pid[r] = lastPid[sess[r]]
ReachInv == \A r \in Runs : Reached(r)

(* The steps of a run itself. *)
LEMMA OwnReach ==
  ASSUME TypeOK, NEW r \in Runs, Reached(r),
         Request(r) \/ WorkerStep(r) \/ WorkerMishap(r) \/ CliStep(r)
  PROVE  Reached(r)'
<1> USE NilAssumption DEF TypeOK, Reached, Unsignalled, Orphaned
<1>1. CASE SendBegin(r) \/ SendCommit(r) \/ SendRollback(r)
  BY <1>1 DEF SendBegin, SendCommit, SendRollback, GiveUp, Goto, process, row
<1>2. CASE Spawn(r)
  BY <1>2 DEF Spawn, Goto
<1>3. CASE SpawnFail(r) \/ OpenFail(r) \/ CommitFail(r) \/ FailConflict(r)
  BY <1>3 DEF SpawnFail, OpenFail, CommitFail, FailConflict, GiveUp, Goto, process, row
<1>4. CASE OpenPid(r) \/ RecordPid(r) \/ RecordPidConflict(r) \/ RecordFails(r)
  BY <1>4 DEF OpenPid, RecordPid, RecordPidConflict, RecordFails, GiveUp, Goto, process, row
<1>5. CASE BeginResult(r) \/ CommitResult(r) \/ ResultConflict(r)
  BY <1>5 DEF BeginResult, CommitResult, ResultConflict, GiveUp, Goto, process, row
<1>6. CASE TimeOut(r) \/ EndLoop(r) \/ EndLoopClosed(r)
  BY <1>6 DEF TimeOut, EndLoop, EndLoopClosed, Killed, process
<1>7. CASE OpenFinal(r) \/ CommitFinal(r) \/ FinalFails(r) \/ FinalConflict(r)
  BY <1>7 DEF OpenFinal, CommitFinal, FinalFails, FinalConflict, GiveUp, Goto, process, row
<1>8. CASE WorkerError(r) \/ WorkerSqlError(r) \/ ThreadKilled(r)
  BY <1>8 DEF WorkerError, WorkerSqlError, ThreadKilled, GiveUp, Goto, process, row
<1>9. CASE CliLoad(r) \/ CliEmitResult(r) \/ CliExit(r)
  BY <1>9 DEF CliLoad, CliEmitResult, CliExit, worker, row
<1> QED
  BY <1>1, <1>2, <1>3, <1>4, <1>5, <1>6, <1>7, <1>8, <1>9
     DEF Request, WorkerStep, WorkerMishap, CliStep

(* Another run writes the pid in the row only as the worker of its session,  *)
(* and has no hand in this one's CLI.                                        *)
LEMMA OthersReach ==
  ASSUME TypeOK, OneWorker, NEW r \in Runs, NEW q \in Runs \ {r}, Reached(r),
         Request(q) \/ WorkerStep(q) \/ WorkerMishap(q) \/ CliStep(q)
  PROVE  Reached(r)'
<1>1. UNCHANGED <<cli[r], pid[r], pc[r], sess[r]>>
  <2> USE DEF TypeOK
  <2>1. CASE Request(q) \/ CliStep(q)
    BY <2>1 DEF Request, SendBegin, SendCommit, SendRollback, GiveUp, Goto, process, worker,
                CliStep, CliLoad, CliEmitResult, CliExit
  <2>2. CASE WorkerStep(q)
    <3>1. CASE Spawn(q) \/ OpenPid(q) \/ RecordPid(q) \/ RecordPidConflict(q)
      BY <3>1 DEF Spawn, OpenPid, RecordPid, RecordPidConflict, GiveUp, Goto, process
    <3>2. CASE BeginResult(q) \/ CommitResult(q) \/ ResultConflict(q)
      BY <3>2 DEF BeginResult, CommitResult, ResultConflict, GiveUp, Goto, process
    <3>3. CASE TimeOut(q) \/ EndLoop(q)
      BY <3>3 DEF TimeOut, EndLoop, Killed, Goto, process
    <3>4. CASE OpenFinal(q) \/ CommitFinal(q) \/ FinalConflict(q)
      BY <3>4 DEF OpenFinal, CommitFinal, FinalConflict, GiveUp, Goto, process
    <3>5. CASE OpenFail(q) \/ CommitFail(q) \/ FailConflict(q)
      BY <3>5 DEF OpenFail, CommitFail, FailConflict, GiveUp, Goto, process
    <3> QED BY <2>2, <3>1, <3>2, <3>3, <3>4, <3>5 DEF WorkerStep
  <2>3. CASE WorkerMishap(q)
    BY <2>3 DEF WorkerMishap, SpawnFail, EndLoopClosed, WorkerError, RecordFails, FinalFails,
                WorkerSqlError, ThreadKilled, Killed, GiveUp, Goto, process
  <2> QED BY <2>1, <2>2, <2>3
<1> DEFINE WritesPid == RecordPid(q) \/ CommitFinal(q) \/ RecordFails(q) \/ FinalFails(q)
<1>2. CASE WritesPid
  <2>1. pc[q] \in Supervising
    BY <1>2 DEF RecordPid, CommitFinal, RecordFails, FinalFails
  <2>2. lastPid'[sess[r]] = lastPid[sess[r]] \/ sess[r] = sess[q]
    BY <1>2 DEF TypeOK, RecordPid, CommitFinal, RecordFails, FinalFails
  <2>3. sess[r] = sess[q] => pc[r] \notin Watching
    BY <2>1 DEF OneWorker
  <2> QED BY <1>1, <2>2, <2>3 DEF Reached, Unsignalled
<1>3. CASE ~WritesPid
  <2>1. lastPid' = lastPid
    BY <1>3
    DEF Request, SendBegin, SendCommit, SendRollback, GiveUp, CliStep, CliLoad, CliEmitResult,
        CliExit, WorkerStep, Spawn, OpenPid, RecordPidConflict, BeginResult, CommitResult,
        ResultConflict, TimeOut, EndLoop, OpenFinal, FinalConflict, OpenFail, CommitFail,
        FailConflict, WorkerMishap, SpawnFail, EndLoopClosed, WorkerError, WorkerSqlError,
        ThreadKilled, row
  <2> QED BY <1>1, <2>1 DEF Reached, Unsignalled
<1> QED BY <1>2, <1>3

(* Stop and reaper clear a pid only with a signal to it. *)
LEMMA SignalsReach ==
  ASSUME TypeOK, NEW r \in Runs, Reached(r),
         \/ \E s \in Sessions : Stop(s) \/ StopUncommitted(s)
         \/ Reap \/ ReapUncommitted
  PROVE  Reached(r)'
<1>1. UNCHANGED <<pid, pc, sess>>
  BY DEF Stop, StopUncommitted, Reap, ReapUncommitted, worker
<1>2. Unsignalled(r)' =>
        Unsignalled(r) /\ (lastPid'[sess[r]] = lastPid[sess[r]] \/ pid[r] # lastPid[sess[r]])
  <2>1. ASSUME NEW s \in Sessions, Stop(s) \/ StopUncommitted(s), Unsignalled(r)'
        PROVE  /\ Unsignalled(r)
               /\ lastPid'[sess[r]] = lastPid[sess[r]] \/ pid[r] # lastPid[sess[r]]
    <3>1. cli' = Signalled({lastPid[s]} \ {NoPid}, "term")
      BY <2>1, Zenon DEF Stop, StopUncommitted, StopSignals
    <3>2. Unsignalled(r) /\ pid[r] \notin {lastPid[s]} \ {NoPid}
      BY <2>1, <3>1 DEF TypeOK, Unsignalled, Signalled
    <3>3. pid[r] # NoPid
      BY <3>2 DEF Reached
    <3> QED BY <2>1, <3>2, <3>3 DEF TypeOK, Stop, StopUncommitted, row
  <2>2. ASSUME Reap \/ ReapUncommitted, Unsignalled(r)'
        PROVE  /\ Unsignalled(r)
               /\ lastPid'[sess[r]] = lastPid[sess[r]] \/ pid[r] # lastPid[sess[r]]
    <3>1. cli' = Signalled({lastPid[s] : s \in Reapable} \ {NoPid}, "exited")
      BY <2>2, Zenon DEF Reap, ReapUncommitted, ReapSignals
    <3>2. Unsignalled(r) /\ pid[r] \notin {lastPid[s] : s \in Reapable} \ {NoPid}
      BY <2>2, <3>1 DEF TypeOK, Unsignalled, Signalled
    <3>3. pid[r] # NoPid
      BY <3>2 DEF Reached
    <3>4. sess[r] \notin Reapable => lastPid'[sess[r]] = lastPid[sess[r]]
      BY <2>2 DEF TypeOK, Reap, ReapUncommitted, row
    <3> QED BY <3>2, <3>3, <3>4
  <2> QED BY <2>1, <2>2
<1> QED BY <1>1, <1>2 DEF Reached

LEMMA StepReach == TypeOK /\ ReachInv /\ OneWorker /\ [Next]_vars => ReachInv'
<1> SUFFICES ASSUME TypeOK, ReachInv, OneWorker, [Next]_vars, NEW r \in Runs PROVE Reached(r)'
  BY DEF ReachInv
<1>0. Reached(r)
  BY DEF ReachInv
<1>1. ASSUME NEW q \in Runs, Request(q) \/ WorkerStep(q) \/ WorkerMishap(q) \/ CliStep(q)
      PROVE  Reached(r)'
  BY <1>0, <1>1, OwnReach, OthersReach
<1>2. CASE Tick \/ UNCHANGED vars
  BY <1>0, <1>2 DEF Tick, vars, row, worker, process, Reached, Unsignalled
<1> QED BY <1>0, <1>1, <1>2, SignalsReach DEF Next

(* The two ways in which StopTerminates fails when the turns of a session    *)
(* keep apart; overlapping turns, which write each other's last_run_pid, are *)
(* a third.                                                                  *)
THEOREM LoneStopTerminates == Spec /\ []OneWorker => StopMissesOnlyUnwatched
<1>1. Init => ReachInv
  BY DEF Init, ReachInv, Reached, Unsignalled
<1>2. Spec /\ []OneWorker => []ReachInv
  BY <1>1, StepReach, TypeCorrect, PTL DEF Spec
<1>3. ASSUME TypeOK, ReachInv, NEW s \in Sessions, NEW r \in Runs,
             Stop(s), sess[r] = s, Unsignalled(r)'
      PROVE  pc[r] \in {"spawned", "recording"} \cup Orphaned
  <2>1. cli' = Signalled({lastPid[s]} \ {NoPid}, "term")
    BY <1>3, Zenon DEF Stop, StopSignals
  <2>2. Unsignalled(r) /\ pid[r] \notin {lastPid[s]} \ {NoPid}
    BY <1>3, <2>1 DEF TypeOK, Unsignalled, Signalled
  <2> QED BY <1>3, <2>2 DEF ReachInv, Reached
<1>4. TypeOK /\ ReachInv =>
        [\A s \in Sessions, r \in Runs :
           Stop(s) /\ sess[r] = s /\ Unsignalled(r)' =>
             pc[r] \in {"spawned", "recording"} \cup Orphaned]_vars
  BY <1>3
<1> QED BY <1>2, <1>4, TypeCorrect, PTL DEF StopMissesOnlyUnwatched

=============================================================================
