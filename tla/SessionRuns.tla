----------------------------- MODULE SessionRuns -----------------------------
(***************************************************************************)
(* The life of a chat turn: send_message in a request, the background      *)
(* worker that supervises the CLI subprocess, the CLI itself, action_stop  *)
(* and the reaper cron, all sharing one claudoo.session row.               *)
(*                                                                         *)
(* Every database section is a transaction under the isolation Odoo uses   *)
(* (REPEATABLE READ): it reads the row as it was when the transaction's    *)
(* first statement ran, and its commit fails when another transaction has  *)
(* committed a write of the same row since ("could not serialize access    *)
(* due to concurrent update").  Kills, files and routing sessions are not  *)
(* part of any transaction.                                                *)
(***************************************************************************)
EXTENDS Integers, FiniteSets

CONSTANTS Sessions,     \* the claudoo.session records
          Users,
          Owner,        \* session -> its user_id
          Managers,     \* users whose record rule shows them every session
          Runs,         \* one element per send_message call that gets past the checks
          NoRun,        \* "no file on disk"
          Pids,
          NoPid,        \* last_run_pid = False
          MaxRuns,      \* claudoo.max_concurrent_runs; 0 disables the cap
          HttpWorkers,  \* requests the server handles at the same time
          Timeout,      \* claudoo.timeout_s, in ticks
          Slack,        \* what the reaper adds to it (120 s), in ticks
          MaxUnremoved  \* bound: removals that fail

ASSUME OwnerAssumption == Owner \in [Sessions -> Users]
ASSUME FiniteAssumption == IsFiniteSet(Sessions) /\ IsFiniteSet(Runs)
ASSUME NilAssumption == NoRun \notin Runs /\ NoPid \notin Pids
ASSUME LimitAssumption == /\ MaxRuns \in Nat
                          /\ HttpWorkers \in Nat \ {0}
                          /\ Timeout \in Nat
                          /\ Slack \in Nat
                          /\ MaxUnremoved \in Nat

VARIABLES
  (* The session row. *)
  state,      \* the state column
  lastPid,    \* the last_run_pid column
  turns,      \* the turn_count column
  age,        \* ticks since write_date, counted while the row is running
  (* The request, then the worker thread, of a run. *)
  pc,         \* where the run is
  sess,       \* its session
  stale,      \* its open transaction has been overtaken by a committed write
  seen,       \* the state and turn_count its final transaction reads
  elapsed,    \* ticks since its deadline was set
  (* The CLI subprocess of a run and what it leaves outside the database. *)
  cli,        \* the process
  pid,        \* its process id
  result,     \* its "result" line: not written, in the queue, handled
  cfgFile,    \* the run whose mcp.json and settings.json are in the scratch dir
  sids,       \* the runs whose routing session exists in the session store
  unremoved   \* history: what a run's finally block tried in vain to remove

row == <<state, lastPid, turns, age>>
worker == <<pc, sess, stale, seen, elapsed>>
process == <<cli, pid, result>>
outside == <<cfgFile, sids, unremoved>>
vars == <<row, worker, process, outside>>

States == {"idle", "running", "done", "error"}
Snapshots == [state : States, turns : Nat]

InTxn == {"sending", "recording", "event", "final", "failing"}
Watching == {"loop", "event"}            \* between Popen's commit and the finally block
Supervising == Watching \cup
  {"pending", "spawned", "recording", "ended", "final", "aborted", "failing"}
Over == {"refused", "counted", "failed", "lost", "dead"}
Alive == {"starting", "live", "term"}

-----------------------------------------------------------------------------

(* The transactions open on the sessions S when a write of them commits; by *)
(* is the run that commits, if it is a run.                                 *)
Overtaken(S, by) ==
  [q \in Runs |-> /\ q # by
                  /\ stale[q] \/ (pc[q] \in InTxn /\ sess[q] \in S)]

(* REPEATABLE READ: the first of two transactions to write a row wins. *)
CommitsAnyway(r) == TRUE     \* mutant: READ COMMITTED, the last one wins
Committable(r) == ~stale[r]

(* A process keeps its id until it has exited and its worker has waited for it. *)
PolledEarly(r, p) == pid[r] = p /\ cli[r] \in Alive    \* mutant: poll() while lines are left
Holds(r, p) ==
  /\ pid[r] = p
  /\ \/ cli[r] \in Alive
     \/ cli[r] = "exited" /\ pc[r] \in Watching \cup {"spawned", "recording"}

(* os.kill: whichever process has that id receives the signal. *)
Signalled(targets, becomes) ==
  [r \in Runs |-> IF pid[r] \in targets /\ cli[r] \in Alive THEN becomes ELSE cli[r]]

(* proc.kill, through the worker's own handle. *)
Killed(r) == [cli EXCEPT ![r] = "exited"]

Residue == {"files", "sid"}

(* The finally block of _execute: the files go, whoever wrote them, and the *)
(* run's routing session.  A removal that fails is swallowed, and what it   *)
(* was to remove stays where it is.                                         *)
CleanUpFilesOnly(r) ==       \* mutant: the routing session is forgotten
  /\ cfgFile' = [cfgFile EXCEPT ![sess[r]] = NoRun]
  /\ UNCHANGED <<sids, unremoved>>
CleanUp(r) ==
  \E fails \in SUBSET Residue :
    /\ "files" \in fails => cfgFile[sess[r]] # NoRun
    /\ Cardinality(unremoved) + Cardinality(fails) <= MaxUnremoved
    /\ cfgFile' = IF "files" \in fails THEN cfgFile ELSE [cfgFile EXCEPT ![sess[r]] = NoRun]
    /\ sids' = IF "sid" \in fails THEN sids ELSE sids \ {r}
    /\ unremoved' = unremoved \cup ({r} \X fails)

Goto(r, label) == pc' = [pc EXCEPT ![r] = label]

(* A transaction that cannot commit: the error handler writes in the failed *)
(* transaction, its own commit raises too, and the thread ends.             *)
GiveUp(r, label) ==
  /\ Goto(r, label)
  /\ stale' = [stale EXCEPT ![r] = FALSE]
  /\ UNCHANGED <<row, sess, seen, elapsed, pid, result>>

-----------------------------------------------------------------------------

Init ==
  /\ state = [s \in Sessions |-> "idle"]
  /\ lastPid = [s \in Sessions |-> NoPid]
  /\ turns = [s \in Sessions |-> 0]
  /\ age = [s \in Sessions |-> 0]
  /\ pc = [r \in Runs |-> "free"]
  /\ sess \in [Runs -> Sessions]
  /\ stale = [r \in Runs |-> FALSE]
  /\ seen = [r \in Runs |-> [state |-> "idle", turns |-> 0]]
  /\ elapsed = [r \in Runs |-> 0]
  /\ cli = [r \in Runs |-> "none"]
  /\ pid = [r \in Runs |-> NoPid]
  /\ result = [r \in Runs |-> "none"]
  /\ cfgFile = [s \in Sessions |-> NoRun]
  /\ sids = {}
  /\ unremoved = {}

-----------------------------------------------------------------------------
(* send_message *)

Busy(s) == state[s] = "running"

Visible(u) == {s \in Sessions : u \in Managers \/ Owner[s] = u}

(* The count is made under the sender's record rules. *)
CapExceeded(u) ==            \* mutant: off by one
  /\ MaxRuns > 0
  /\ Cardinality({s \in Visible(u) : state[s] = "running"}) > MaxRuns
CapReached(u) ==
  /\ MaxRuns > 0
  /\ Cardinality({s \in Visible(u) : state[s] = "running"}) >= MaxRuns

Requests == {r \in Runs : pc[r] = "sending"}

SendBegin(r) ==
  /\ pc[r] = "free"
  /\ Cardinality(Requests) < HttpWorkers
  /\ ~Busy(sess[r])
  /\ ~CapReached(Owner[sess[r]])
  /\ Goto(r, "sending")
  /\ sids' = sids \cup {r}
  /\ UNCHANGED <<row, sess, stale, seen, elapsed, process, cfgFile, unremoved>>

(* The request's transaction rolls back, on a conflict or an exception: the *)
(* post-commit hook is dropped, the routing session stays behind.           *)
SendRollback(r) ==
  /\ pc[r] = "sending"
  /\ GiveUp(r, "refused")
  /\ UNCHANGED <<cli, outside>>

SendCommit(r) ==
  /\ pc[r] = "sending"
  /\ Committable(r)
  /\ state' = [state EXCEPT ![sess[r]] = "running"]
  /\ age' = [age EXCEPT ![sess[r]] = 0]
  /\ Goto(r, "pending")
  /\ stale' = Overtaken({sess[r]}, r)
  /\ UNCHANGED <<lastPid, turns, sess, seen, elapsed, process, outside>>

-----------------------------------------------------------------------------
(* The worker thread: _run_worker and _execute *)

(* The files are written and Popen returns a process with an unused id. *)
Spawn(r) ==
  /\ pc[r] = "pending"
  /\ \E p \in Pids : /\ \A q \in Runs : ~Holds(q, p)
                     /\ pid' = [pid EXCEPT ![r] = p]
  /\ cli' = [cli EXCEPT ![r] = "starting"]
  /\ cfgFile' = [cfgFile EXCEPT ![sess[r]] = r]
  /\ Goto(r, "spawned")
  /\ UNCHANGED <<row, sess, stale, seen, elapsed, result, sids, unremoved>>

(* Writing a file or starting the CLI raises, outside the try block. *)
SpawnFail(r) ==
  /\ pc[r] = "pending"
  /\ cfgFile' \in {cfgFile, [cfgFile EXCEPT ![sess[r]] = r]}
  /\ Goto(r, "aborted")
  /\ UNCHANGED <<row, sess, stale, seen, elapsed, process, sids, unremoved>>

(* The first statement of a transaction takes its snapshot of the row. *)
OpenPid(r) ==
  /\ pc[r] = "spawned"
  /\ Goto(r, "recording")
  /\ UNCHANGED <<row, sess, stale, seen, elapsed, process, outside>>

(* The commit of last_run_pid, after which the deadline is set. *)
RecordPid(r) ==
  /\ pc[r] = "recording"
  /\ Committable(r)
  /\ lastPid' = [lastPid EXCEPT ![sess[r]] = pid[r]]
  /\ age' = [age EXCEPT ![sess[r]] = 0]
  /\ elapsed' = [elapsed EXCEPT ![r] = 0]
  /\ Goto(r, "loop")
  /\ stale' = Overtaken({sess[r]}, r)
  /\ UNCHANGED <<state, turns, sess, seen, process, outside>>

(* The commit of last_run_pid conflicts, outside the try block: nothing is  *)
(* cleaned up and the CLI is left running.                                  *)
RecordPidConflict(r) ==
  /\ pc[r] = "recording"
  /\ ~Committable(r)
  /\ GiveUp(r, "lost")
  /\ UNCHANGED <<cli, outside>>

(* The loop meets the result line; _handle_event is about to write it. *)
BeginResult(r) ==
  /\ pc[r] = "loop"
  /\ result[r] = "emitted"
  /\ Goto(r, "event")
  /\ UNCHANGED <<row, sess, stale, seen, elapsed, process, outside>>

CommitResult(r) ==
  /\ pc[r] = "event"
  /\ Committable(r)
  /\ \E st \in {"done", "error"} : state' = [state EXCEPT ![sess[r]] = st]
  /\ age' = [age EXCEPT ![sess[r]] = 0]
  /\ result' = [result EXCEPT ![r] = "handled"]
  /\ Goto(r, "loop")
  /\ stale' = Overtaken({sess[r]}, r)
  /\ UNCHANGED <<lastPid, turns, sess, seen, elapsed, cli, pid, outside>>

ResultConflict(r) ==
  /\ pc[r] = "event"
  /\ ~Committable(r)
  /\ GiveUp(r, "lost")
  /\ CleanUp(r)
  /\ UNCHANGED cli

ExpiredOnOutput(r) ==        \* mutant: the deadline is looked at only when a line arrives
  elapsed[r] >= Timeout /\ result[r] = "emitted"
Expired(r) == elapsed[r] >= Timeout

(* The deadline: kill the CLI, clean up, let the handler write the error. *)
TimeOut(r) ==
  /\ pc[r] = "loop"
  /\ Expired(r)
  /\ cli' = Killed(r)
  /\ CleanUp(r)
  /\ Goto(r, "aborted")
  /\ UNCHANGED <<row, sess, stale, seen, elapsed, pid, result>>

(* The CLI has exited: the sentinel, or poll() after a silent tick, which    *)
(* can overlook a result line that came in between.                         *)
EndLoop(r) ==
  /\ pc[r] = "loop"
  /\ cli[r] = "exited"
  /\ CleanUp(r)
  /\ Goto(r, "ended")
  /\ UNCHANGED <<row, sess, stale, seen, elapsed, process>>

(* The CLI closes stdout but does not exit, or the reader thread fails and  *)
(* leaves lines unread: wait(10) expires and the CLI is killed.             *)
EndLoopClosed(r) ==
  /\ pc[r] = "loop"
  /\ cli[r] \in Alive
  /\ cli' = Killed(r)
  /\ CleanUp(r)
  /\ Goto(r, "ended")
  /\ UNCHANGED <<row, sess, stale, seen, elapsed, pid, result>>

(* turn_count and state are read here and written back at the commit. *)
OpenFinal(r) ==
  /\ pc[r] = "ended"
  /\ Goto(r, "final")
  /\ seen' = [seen EXCEPT ![r] = [state |-> state[sess[r]], turns |-> turns[sess[r]]]]
  /\ UNCHANGED <<row, sess, stale, elapsed, process, outside>>

(* What the final transaction makes of the state it read; the CLI's exit     *)
(* code chooses when there was no result.                                   *)
FinalStatesKept(r) == {state[sess[r]]}       \* mutant: no fallback without a result
FinalStatesForced(r) == {"done", "error"}    \* mutant: whatever the state was
FinalStates(r) ==
  IF seen[r].state = "running" THEN {"done", "error"} ELSE {state[sess[r]]}

UncountedTurns(r) == seen[r].turns - 1       \* mutant: off by one
CountedTurns(r) == seen[r].turns + 1

CommitFinal(r) ==
  /\ pc[r] = "final"
  /\ Committable(r)
  /\ \E st \in FinalStates(r) : state' = [state EXCEPT ![sess[r]] = st]
  /\ lastPid' = [lastPid EXCEPT ![sess[r]] = NoPid]
  /\ turns' = [turns EXCEPT ![sess[r]] = CountedTurns(r)]
  /\ age' = [age EXCEPT ![sess[r]] = 0]
  /\ Goto(r, "counted")
  /\ stale' = Overtaken({sess[r]}, r)
  /\ UNCHANGED <<sess, seen, elapsed, process, outside>>

FinalConflict(r) ==
  /\ pc[r] = "final"
  /\ ~Committable(r)
  /\ GiveUp(r, "lost")
  /\ UNCHANGED <<cli, outside>>

(* A Python exception in a worker, before its transaction has written       *)
(* anything: the write that records the pid, _handle_event, the reading of  *)
(* stderr, the final write.  The handler's write joins the transaction, if  *)
(* one is open.  Only inside the try block does the finally block run.      *)
WorkerError(r) ==
  /\ pc[r] \in {"recording", "loop", "event", "ended", "final"}
  /\ Goto(r, IF pc[r] = "ended" THEN "aborted" ELSE "failing")
  /\ IF pc[r] \in Watching THEN CleanUp(r) ELSE UNCHANGED outside
  /\ UNCHANGED <<row, sess, stale, seen, elapsed, process>>

(* An exception after the transaction has written, in the bus message say:  *)
(* nothing is rolled back, and the handler commits that write with its own. *)
RecordFails(r) ==
  /\ pc[r] = "recording"
  /\ Committable(r)
  /\ state' = [state EXCEPT ![sess[r]] = "error"]
  /\ lastPid' = [lastPid EXCEPT ![sess[r]] = pid[r]]
  /\ age' = [age EXCEPT ![sess[r]] = 0]
  /\ Goto(r, "failed")
  /\ stale' = Overtaken({sess[r]}, r)
  /\ UNCHANGED <<turns, sess, seen, elapsed, process, outside>>

FinalFails(r) ==
  /\ pc[r] = "final"
  /\ Committable(r)
  /\ state' = [state EXCEPT ![sess[r]] = "error"]
  /\ lastPid' = [lastPid EXCEPT ![sess[r]] = NoPid]
  /\ turns' = [turns EXCEPT ![sess[r]] = CountedTurns(r)]
  /\ age' = [age EXCEPT ![sess[r]] = 0]
  /\ Goto(r, "counted")
  /\ stale' = Overtaken({sess[r]}, r)
  /\ UNCHANGED <<sess, seen, elapsed, process, outside>>

(* The same with the transaction itself aborted by the database: nothing    *)
(* the handler does can be committed.                                       *)
WorkerSqlError(r) ==
  /\ pc[r] \in {"recording", "loop", "event", "final"}
  /\ GiveUp(r, "dead")
  /\ IF pc[r] \in Watching THEN CleanUp(r) ELSE UNCHANGED outside
  /\ UNCHANGED cli

OpenFail(r) ==
  /\ pc[r] = "aborted"
  /\ Goto(r, "failing")
  /\ UNCHANGED <<row, sess, stale, seen, elapsed, process, outside>>

(* The except branch of _run_worker: last_run_pid and turn_count stay. *)
CommitFail(r) ==
  /\ pc[r] = "failing"
  /\ Committable(r)
  /\ state' = [state EXCEPT ![sess[r]] = "error"]
  /\ age' = [age EXCEPT ![sess[r]] = 0]
  /\ Goto(r, "failed")
  /\ stale' = Overtaken({sess[r]}, r)
  /\ UNCHANGED <<lastPid, turns, sess, seen, elapsed, process, outside>>

FailConflict(r) ==
  /\ pc[r] = "failing"
  /\ ~Committable(r)
  /\ GiveUp(r, "lost")
  /\ UNCHANGED <<cli, outside>>

(* The Odoo process of a daemon thread ends; no finally block runs. *)
ThreadKilled(r) ==
  /\ pc[r] \in Supervising
  /\ GiveUp(r, "dead")
  /\ UNCHANGED <<cli, outside>>

-----------------------------------------------------------------------------
(* The CLI subprocess (external) *)

(* It reads --mcp-config and --settings, if they are still there. *)
CliLoad(r) ==
  /\ cli[r] = "starting"
  /\ cfgFile[sess[r]] # NoRun
  /\ cli' = [cli EXCEPT ![r] = "live"]
  /\ UNCHANGED <<row, worker, pid, result, outside>>

CliEmitResult(r) ==
  /\ cli[r] \in {"live", "term"}
  /\ result[r] = "none"
  /\ result' = [result EXCEPT ![r] = "emitted"]
  /\ UNCHANGED <<row, worker, cli, pid, outside>>

CliExit(r) ==
  /\ cli[r] \in Alive
  /\ cli' = [cli EXCEPT ![r] = "exited"]
  /\ UNCHANGED <<row, worker, pid, result, outside>>

-----------------------------------------------------------------------------
(* action_stop and the reaper cron: the signal, then the row *)

StopSignals(s) == cli' = Signalled({lastPid[s]} \ {NoPid}, "term")

Stop(s) ==
  /\ StopSignals(s)
  /\ state' = [state EXCEPT ![s] = "idle"]
  /\ lastPid' = [lastPid EXCEPT ![s] = NoPid]
  /\ age' = [age EXCEPT ![s] = 0]
  /\ stale' = Overtaken({s}, NoRun)
  /\ UNCHANGED <<turns, pc, sess, seen, elapsed, pid, result, outside>>

(* The signal is sent but the request's transaction does not commit. *)
StopUncommitted(s) ==
  /\ lastPid[s] # NoPid
  /\ StopSignals(s)
  /\ UNCHANGED <<row, worker, pid, result, outside>>

CutoffSlackOnly == Slack     \* mutant: the run's own limit is forgotten
Cutoff == Timeout + Slack

ReapableByPid ==             \* mutant: only rows that have a process to kill
  {s \in Sessions : state[s] = "running" /\ lastPid[s] # NoPid /\ age[s] >= Cutoff}
Reapable == {s \in Sessions : state[s] = "running" /\ age[s] >= Cutoff}

ReapSignals == cli' = Signalled({lastPid[s] : s \in Reapable} \ {NoPid}, "exited")

Reap ==
  /\ Reapable # {}
  /\ ReapSignals
  /\ state' = [s \in Sessions |-> IF s \in Reapable THEN "error" ELSE state[s]]
  /\ lastPid' = [s \in Sessions |-> IF s \in Reapable THEN NoPid ELSE lastPid[s]]
  /\ age' = [s \in Sessions |-> IF s \in Reapable THEN 0 ELSE age[s]]
  /\ stale' = Overtaken(Reapable, NoRun)
  /\ UNCHANGED <<turns, pc, sess, seen, elapsed, pid, result, outside>>

ReapUncommitted ==
  /\ Reapable # {}
  /\ ReapSignals
  /\ UNCHANGED <<row, worker, pid, result, outside>>

-----------------------------------------------------------------------------

Older(t, bound) == IF t < bound THEN t + 1 ELSE t

(* Time passes, while no transaction is open: a tick is long for one.  The  *)
(* counters stop at the last value a guard can tell from a larger one.      *)
Tick ==
  /\ \A r \in Runs : pc[r] \notin InTxn
  /\ age' = [s \in Sessions |-> IF state[s] = "running" THEN Older(age[s], Cutoff) ELSE 0]
  /\ elapsed' = [r \in Runs |-> IF pc[r] = "loop" THEN Older(elapsed[r], Timeout)
                                ELSE elapsed[r]]
  /\ UNCHANGED <<state, lastPid, turns, pc, sess, stale, seen, process, outside>>

-----------------------------------------------------------------------------

(* What the server's own threads do next once they have started. *)
WorkerStep(r) ==
  \/ Spawn(r)
  \/ OpenPid(r) \/ RecordPid(r) \/ RecordPidConflict(r)
  \/ BeginResult(r) \/ CommitResult(r) \/ ResultConflict(r)
  \/ TimeOut(r) \/ EndLoop(r)
  \/ OpenFinal(r) \/ CommitFinal(r) \/ FinalConflict(r)
  \/ OpenFail(r) \/ CommitFail(r) \/ FailConflict(r)

WorkerMishap(r) ==
  \/ SpawnFail(r) \/ EndLoopClosed(r)
  \/ WorkerError(r) \/ RecordFails(r) \/ FinalFails(r) \/ WorkerSqlError(r) \/ ThreadKilled(r)

Request(r) == SendBegin(r) \/ SendCommit(r) \/ SendRollback(r)

CliStep(r) == CliLoad(r) \/ CliEmitResult(r) \/ CliExit(r)

Next ==
  \/ \E r \in Runs : Request(r) \/ WorkerStep(r) \/ WorkerMishap(r) \/ CliStep(r)
  \/ \E s \in Sessions : Stop(s) \/ StopUncommitted(s)
  \/ Reap \/ ReapUncommitted
  \/ Tick

Spec == Init /\ [][Next]_vars

(* The cron runs again and again, time passes, a request ends, and a worker *)
(* thread that can go on does, until it dies or, its CLI ended, reads the   *)
(* end of a stderr that some other process may hold open.  Nothing is       *)
(* assumed of users, of the CLI or of errors.                               *)
Fairness ==
  /\ WF_vars(Tick)
  /\ WF_vars(Reap)
  /\ \A r \in Runs : /\ WF_vars(pc[r] # "ended" /\ WorkerStep(r))
                     /\ WF_vars(SendCommit(r) \/ SendRollback(r))

FairSpec == Spec /\ Fairness

-----------------------------------------------------------------------------
(* Properties *)

(* Every variable stays within its range. *)
TypeOK ==
  /\ state \in [Sessions -> States]
  /\ lastPid \in [Sessions -> Pids \cup {NoPid}]
  /\ turns \in [Sessions -> Nat]
  /\ age \in [Sessions -> Nat]
  /\ pc \in [Runs -> {"free", "sending"} \cup Supervising \cup Over]
  /\ sess \in [Runs -> Sessions]
  /\ stale \in [Runs -> BOOLEAN]
  /\ seen \in [Runs -> Snapshots]
  /\ elapsed \in [Runs -> Nat]
  /\ cli \in [Runs -> Alive \cup {"none", "exited"}]
  /\ pid \in [Runs -> Pids \cup {NoPid}]
  /\ result \in [Runs -> {"none", "emitted", "handled"}]
  /\ cfgFile \in [Sessions -> Runs \cup {NoRun}]
  /\ sids \subseteq Runs
  /\ unremoved \subseteq Runs \X Residue

(* A session shows "running" only while a worker that no other transaction  *)
(* has overtaken, and that has not written its result yet, will still write *)
(* its state, or after a worker died without being able to write.  In       *)
(* particular no conflict between a send, a stop, the reaper and the        *)
(* workers of one session can wedge it.                                     *)
RunningHasSupervisor ==
  \A s \in Sessions : Busy(s) =>
    \E r \in Runs : /\ sess[r] = s
                    /\ \/ pc[r] \in Supervising /\ ~stale[r] /\ result[r] # "handled"
                       \/ pc[r] = "dead"

(* The busy check of send_message is made in a snapshot, yet no turn is ever *)
(* accepted by a session that is running when the request commits.          *)
SendSerialised == [][\A r \in Runs : SendCommit(r) => ~Busy(sess[r])]_vars

(* turn_count is the number of turns that came to their final commit, with  *)
(* or without an error on the way: read-modify-write by overlapping workers *)
(* loses and doubles none of them.                                          *)
TurnCountExact ==
  \A s \in Sessions :
    turns[s] = Cardinality({r \in Runs : sess[r] = s /\ pc[r] = "counted"})

(* "Simultaneous bursts may briefly exceed the cap": by how much.  A user's *)
(* running sessions and sends in progress are at most MaxRuns - 1 and one   *)
(* for every request the server can be handling.                            *)
SoftCapBound ==
  MaxRuns > 0 =>
    \A u \in Users :
      LET own == {s \in Sessions : Owner[s] = u}
      IN  Cardinality({s \in own : Busy(s)})
            + Cardinality({r \in Requests : sess[r] \in own})
          <= MaxRuns - 1 + HttpWorkers

(* The reaper ends no turn whose worker is still within its own deadline. *)
ReapOnlyExpired ==
  [][Reap => \A r \in Runs : pc[r] \in Watching /\ sess[r] \in Reapable => Expired(r)]_vars

(* While the pid in the row is that of a CLI its worker still watches, the  *)
(* signal of a stop or of the reaper meets that CLI and no other: only a    *)
(* pid that a finished or overlapping turn left in the row can belong to    *)
(* somebody else by now (last_run_pid; _execute waits for its process).     *)
SignalsMeetTheirCli ==
  [][\A r, q \in Runs :
       /\ pc[r] \in Watching /\ pid[r] = lastPid[sess[r]]
       /\ Stop(sess[r]) \/ StopUncommitted(sess[r]) \/ Reap \/ ReapUncommitted
       /\ q # r /\ pid[q] = pid[r]
       => cli'[q] = cli[q]]_vars

(* Once a worker has left its read loop by the finally block, its           *)
(* token-bearing mcp.json and its routing session are still there only if   *)
(* its own attempt to remove them failed, whatever the workers of other     *)
(* turns write and remove in the same directory; and its CLI is gone.       *)
CleanAfterRun ==
  \A r \in Runs : pc[r] \in {"ended", "final", "counted"} =>
    /\ cfgFile[sess[r]] = r => <<r, "files">> \in unremoved
    /\ r \in sids => <<r, "sid">> \in unremoved
    /\ cli[r] \notin Alive

(* Whatever dies or hangs, a running session comes to rest. *)
RunningEnds == \A s \in Sessions : Busy(s) ~> ~Busy(s)

(* A worker leaves its read loop even when the CLI stays silent for ever. *)
SupervisionEnds == \A r \in Runs : pc[r] \in Watching ~> pc[r] \notin Watching

-----------------------------------------------------------------------------
(* What comments and docs say of the program and its code does not do. *)

(* action_stop: "Terminate the running CLI subprocess for this session". *)
StopTerminates ==
  [][\A s \in Sessions : Stop(s) =>
       \A r \in Runs : sess[r] = s => cli'[r] \notin {"starting", "live"}]_vars

(* "No explicit result event; treat as done unless rc indicates failure". *)
FinalizeMeansNoResult ==
  [][\A r \in Runs : CommitFinal(r) /\ result[r] = "handled" => UNCHANGED state]_vars

-----------------------------------------------------------------------------
(* The ledger of turns that the row, its transactions and workers implement. *)

PhaseOf(r) ==
  CASE pc[r] \in {"free", "sending"} -> "new"
    [] pc[r] = "refused" -> "void"
    [] pc[r] \in {"lost", "dead"} -> "lost"
    [] pc[r] \in {"counted", "failed"} -> pc[r]
    [] OTHER -> IF result[r] = "handled" THEN "settled" ELSE "open"

Ledger == INSTANCE SessionLedger WITH
            Turns <- Runs, st <- state, count <- turns, of <- sess,
            phase <- [r \in Runs |-> PhaseOf(r)]

(* Every transaction takes effect on the row as one atomic step. *)
LedgerSpec == Ledger!Spec

=============================================================================
