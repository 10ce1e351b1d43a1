# Verification of Claudoo

Claudoo is an Odoo 18 addon that drives the Claude CLI from a chat window: a
message starts a CLI process in a background thread of the Odoo server, the
CLI calls back into Odoo through an MCP bridge with the rights of the user who
wrote the message, and what it prints is streamed to the browser. This
directory holds TLA+ models of the addon's behaviour, TLC configurations that
check them on small instances, and TLAPS proofs of their main properties for
every instance. Paths below are relative to `src/claudoo/`.

## The system and its parts

| Part | Code | State it keeps | Operations | What makes it correct | Model |
|---|---|---|---|---|---|
| Chat turns | `models/claudoo_session.py`, `models/claudoo_runner.py` | the session row (`state`, `last_run_pid`, `turn_count`, `write_date`), a worker thread and a CLI process per turn, `mcp.json` and `settings.json`, a routing session | `send_message`, `_launch`, `_run_worker`, `_execute`, `action_stop`, `_cron_reap_stale` | one turn at a time is accepted; no session stays "running" for ever; each turn is counted once; the reaper leaves live turns alone; nothing with a token in it outlives its turn | `SessionRuns`, `SessionLedger` |
| Bridge token | `_mint_bridge_token`, `_verify_bridge_token`, `models/ir_http.py` | `bridge_salt`, `bridge_jti`, `bridge_exp` | mint at each send, verify at each call | only the latest turn's token is accepted, and not after its expiry | `ToolCalls`, `ToolGate` |
| Tool policy | `_ai_effective_tools`, `_check_tool`, `_check_model`, `ALLOWED_TOOLS` | grants, zero-trust flags, excluded models, SQL group | computed at launch and again at each call | a write tool needs a grant and no zero trust, whatever the CLI was told | `ToolPolicy` |
| Tool calls | `controllers/tools.py`, `models/claudoo_tool_log.py` | a request's transaction, the audit row on a second connection | `_run` and the tools under it | what the CLI is told happened, happened; nothing is written without a trace | `ToolCalls`, `ToolGate` |
| MCP bridge | `bridge/mcp_server.py` | none between calls but the tool list | `tools/list`, `tools/call` | one call at a time; an answer given up is reported as an error | `ToolCalls` |
| Runner's stream | `_execute`, `_pump`, `_handle_event`, `_upsert_assistant`, `_patch_tool_results`, `_emit_message` | two pipes, a queue, `msg_map`, messages, chips | one transaction per output line | the messages are what the CLI printed, every change is sent, the supervision ends | `RunnerStream`, `TurnLog`; `ChatView` (the answer as one version) |
| Chat client | `static/src/chat_action.js`, `static/src/claudoo_service.js` | open conversation, messages, running flag, chart, registered callbacks | open, new, send, stop, bus events | the screen shows the conversation it says it shows | `ChatView` |
| Login | `models/res_users.py`, `_completeAuth` | the PKCE parameter, `.credentials.json` and its `.tmp` | `auth/start`, `auth/complete`, `auth/logout`, the CLI's refresh | a login is consumed once, by its own code; an accepted one is stored; readers see a whole file | `ClaudeLogin` |
| Uploads | `_store_upload`, `_materialize_attachments`, `controllers/main.py`, `components/composer.js` | the composer's files, attachments, files on the disk | choose, upload, send, delete | a message holds its own conversation's files, once, and the CLI can read them | `Uploads` |
| Read guard | `bridge/read_guard.py`, `_write_settings` | none | one test of a path | reads stay in the turn's directory | `GuardAllows` in `Uploads` |
| SQL text check, markdown and chart extraction | `controllers/tools.py`, `static/src` | none | pure functions | | left out |

How they meet: a browser request runs `send_message` in a transaction; its
post-commit hook starts the worker, which writes the same row from
transactions of its own while `action_stop` (another request) and the reaper
(a cron job) write it too. The CLI reads the two files the worker wrote, starts
the bridge, and the bridge posts tool calls to the controllers with the turn's
token; each such call is a request and a transaction of its own. Everything the
browser learns after the send comes over the bus, except that the end of a turn
makes it fetch the conversation again.

The hard parts are the hazards of `PROJECT.json`: transactions that overlap on
one row, a process and its files that live outside any transaction, an error
handler that writes in a transaction that may have failed, two clocks (the
worker's and the reaper's), a count under record rules, an audit row committed
before the write it describes, a request the server runs again, a bridge that
stops waiting, a client whose calls come back in any order, and files that are
written outside the transactions that refer to them.

## Modules

### SessionRuns, SessionLedger: the chat turn

`SessionRuns` has one element of `Runs` per `send_message` call. Its `pc` goes
through the request (`sending`), the thread (`pending`, `spawned`, `recording`,
`loop`, `event`, `ended`, `final`, and `aborted`, `failing` for the `except`
branch of `_run_worker`) and rests at `refused`, `counted`, `failed`, `lost` or
`dead`. Database sections are transactions under REPEATABLE READ, the isolation
Odoo's cursors use: `stale[r]` says that the open transaction of `r` has been
overtaken by a committed write of its row, `Committable` that it has not, and a
commit marks the other open transactions of the row (`Overtaken`). What is not
transactional is modelled apart: signals, process ids that are reused once the
process has exited and its worker has waited for it, the two files (one path
per session, so turns that overlap share them), the routing session. A removal
that fails is swallowed by the code and leaves its file or session in place;
`CleanUp` may do so, and `unremoved` remembers whose attempt it was. `cfgFile`
is `mcp.json`, the file with the token; `settings.json` is taken to share its
fate. The `except` branch is reached from every statement that can raise, those
after the `finally` block included (`WorkerError`), and since it does not roll
back, it commits with the error what the transaction had written before
(`RecordFails`, `FinalFails`).
`StopUncommitted` and `ReapUncommitted` are a signal whose transaction did not
commit. The CLI is external: it may load the files, print a result line, exit
or stay silent, in any order and for ever.

`SessionLedger` is what the row promises, each transaction one atomic step:
accepted only at rest, a result written at most once, counted at most once.

Left out: messages, bus events and prompts (`ChatView`), the token
(`ToolCalls`), the transcript and `is_first`, the deletion of a session, a
change of `timeout_s` during a run, and two more writers of the row: an
upload's or a send's `working_dir` (`_get_scratch_dir`) and the session id of
the CLI's init line, which are in `Uploads`. A directory is written only when it
has changed. While init lines confirm the id the CLI was given ("should match
ours", `models/claudoo_runner.py:262`), that is before the first send, where such a
write can overtake a request (`SendRollback`) and no worker. With another id it
can overtake the worker of a running turn, and the row is then left to the
reaper: `RunningHasSupervisor` and `NoConflictWedges` are about the first case
only. A request the HTTP layer retries is another
element of `Runs`. The exit code is a nondeterministic choice. `write_date` is
taken to be the time of the commit: a transaction is short against a tick.

### ToolPolicy, ToolGate, ToolCalls: what a tool call may do

`ToolPolicy` computes, from an administrator's settings (`PolicySpace`), the
tools a user has (`EffectiveTools`), what the bridge advertises
(`VisibleTools`) and what a request permits (`Permitted`).

`ToolGate` promises that a call is accepted only at a moment at which its token
is the session's latest, is unexpired, and the policy permits it, and that it
has its effect once and after that.

`ToolCalls` follows each call through the bridge (`Forward`, `GiveUpWaiting`
after 60 s, `EndTurn`), the authentication (`Authenticate`, `RefuseToken`), the
tool (`Ran`, ending in `Deny`, `Succeed` or `Fail`), the audit row (`Record`,
`RecordFails`, `RecordBlocks`), the flush and the commit (`Commit`, `Rerun`,
`FlushFails`), while tokens rotate, the policy changes, time passes and the
server may die. A request is one snapshot, so policy and token are what they
were at authentication (`snap`). `_run` turns exceptions into results, so what a
tool had written before one is committed (`effect = "part"`). The server's
`retrying` reruns a whole request after a concurrent update, at most `MaxTries`
times. A tool's effect is nothing, a part or the whole; method patterns and the
server-action allowlist refuse a call the way any validation does, and
`sql_select` has no model to check. One session: a token names one.

### ChatView: what the user sees

The worker's transactions and their events (`Start`, `Message`, `Result`,
`Finish`, `Fail`), the service that looks a callback up when an event arrives
(`Deliver`), the component's calls, served and answered in any order, and its
continuations (`ReplyOpen`, `ReplyReload`, `ReplySession`, `ReplyStop`,
`ReplyError`). Two `Views` are two instances of the component: one that was
left still runs its continuations, and Owl does not call `onWillUnmount` for
one that was never mounted. An answer is its version. The bus keeps its order
and loses nothing for an open page. The user's and the error's bubbles are left
out, every answer is taken to carry a chart, and how the transactions of sends
meet is left to `SessionRuns`. A line whose handling raises is taken to leave
nothing; the `except` branch commits without a rollback, so what the line had
written may go with the error, which is `PartOf` in `RunnerStream`.

### RunnerStream, TurnLog, StreamLog: what the CLI prints

`RunnerStream` follows one turn from `Popen` to the end of `_execute`. The
stdout pipe and the queue are the two parts of `printed` that `_pump` and the
worker have not come to. The sentinel (`eof`) follows the last line once nobody
has stdout open any more (`out`): the CLI may have closed it and live on
(`CloseOutput`), or have exited while a process it started still holds it
(`child`). The reader thread may also fail, say on bytes it cannot decode; its
`finally` clause then puts the sentinel with lines unread (`ReadFails`,
`broken`). A CLI that fills its stderr is stuck. The worker's `worker` goes
round `top` (the deadline), `get` (the queue), `poll` (after `queue.Empty`), and
then `wait` (with the kill after ten seconds), `stderr`, `over`. It is ended
early by the deadline (`TimedOut`), by an exception while it handles a line
(`HandleFails`) and by one in the final read, write or commit (`FinishFails`).
The `except` branch does not roll back: a line half handled, some of its records
written and some of those announced, is committed with the error (`PartOf`), or
with nothing if the database cannot commit. `Stop` and `Reap` write the row of
the turn at any time; `cut` remembers how many lines had been handled at the
last of them. A line is one of the events `_handle_event` tells apart, with one
block, and lines that say nothing may come anywhere (`SkipLine`). `Known`,
`Extended` and `Askers` are its look-up in `msg_map`, the append of a text block
and the search for a tool call. `shown` is the last announcement of each record.

`TurnLog` defines what a list of lines says, as a whole: `Reads` relates
messages to lines by counting places (a line is the n-th first line, a block the
n-th text of its message), without going through the lines in order as the code
does. It promises that the stored messages are a reading of a prefix that grows
by a line, and that an error leaves the last line half done at most (`Tear`).
`StreamLog` is the refinement.

A conflict with a stop is one of the exceptions.

Left out: overlapping turns (`SessionRuns`), what a child of the CLI prints to
the stdout it inherited, the report messages of tools,
blocks of several kinds in one line, the 4000 characters of a tool result. The
chip of a call in a message without an id never gets its result, and one whose
turn timed out stays "running": `TurnLog` says so too, it is what the code does.

### ClaudeLogin: connecting an account

A `Logins` element is a call of `auth/start`, a `Requests` element one of
`auth/complete`, with the code the user pasted and perhaps its state. `param`
is the system parameter under REPEATABLE READ (`fresh`, `Overtaken`), so a
request that another has overtaken runs again (`Rerun`); `spent` are the codes
Claude has exchanged, which no rollback gives back. Files are named by the
writer that created them, so that two writers of the one `.tmp` name share a
file (`Opened`, `fd`), and `os.replace` publishes whatever has that name.
Crashes and disk errors leave the files as they are. The cache of system
parameters is taken to be as fresh as the snapshot, and the CLI's own write of
the file to be atomic. Left out: the account record in `.claude.json`.

`PublishedIsWhole` and `AcceptedIsStored` exclude histories in which two
requests were between open and rename at once (`clashed`): there the code does
publish half files, see below.

### Uploads: files on their way to the model

The composer's files outlive a change of conversation (`OpenSession` leaves
`ready` alone). An upload is one request for several files: refused at one of
them it still commits those before (`UploadPart`), rolled back it leaves files
on the disk (`UploadRolledBack`), overtaken it runs again. A send filters the
ids by conversation (`Own`), truncates and writes each file (`Materialize`,
`SendAccept`), and names the paths in its prompt. A conversation's directory is
named after the CLI's session id. `CliInit` changes it, to a new one or one the
row had before, whenever a worker reads an init line: also when a stop has put
the row to rest or the next turn is running. `GuardAllows` is the
hook with the directory `_write_settings` gave it. One page; a file is chosen
once; names, types and sizes are the set `Unfit`.

## Runs

| Run | Instance | Asks |
|---|---|---|
| `overlap` | 1 session, 2 turns, 2 pids, Timeout 1, Slack 0, 1 failed removal; symmetric in turns and pids | `TypeOK`, `RunningHasSupervisor`, `TurnCountExact`, `CleanAfterRun`, `SendSerialised`, `ReapOnlyExpired`, `SignalsMeetTheirCli`, refinement `LedgerSpec` |
| `cap` | 2 sessions of a user, 3 turns, cap 1, 2 request threads, launches fail | `SoftCapBound` |
| `liveness` | 1 session, 2 turns, 1 pid, Timeout 1, `FairSpec` | `RunningEnds`, `SupervisionEnds` |
| `calls` | 2 writes of one turn, one deletes what its audit row refers to; the grant is withdrawn and the next turn replaces the token; Ttl 0, MaxTries 2 | `TypeOK`, `SuccessIsDurable`, `EffectIsTraceable`, `AbandonedCallReported`, refinement `ImplementsGate` |
| `chat` | 1 view, 2 conversations, 3 turns, 2 updates each, 6 acts, `FairSpec`, one thing at a time | `TypeOK`, `SettledViewIsExact`, `TurnIsSeenToEnd` |
| `chat_races` | 2 views, 2 conversations, 1 turn, 4 acts, stop, losses | `ShownIsCommitted`, `HearsOnlyCurrent` |
| `login` | 2 logins, 3 codes (two of the first login), 2 requests, `FairSpec` | `TypeOK`, `PublishedIsWhole`, `AcceptedIsStored`, `StartedLoginKept`, `LoginCompletesOnce`, `ConnectingEnds` |
| `uploads` | 2 conversations, 3 files of which one is unfit, 2 sends, a session id that changes between two values; symmetric in conversations, fit files and sends | `TypeOK`, `MessageOwnsItsFiles`, `PromptIsReadable`, `EarlierFilesReadable`, `AttachedOnce`, `RefusedStaysOut` |
| `stream` | 5 lines to choose from, 3 printed, 2 message ids, 1 tool call in both messages, a stdout pipe of one line, `FairSpec` | `TypeOK`, `ReadToTheEnd`, `EveryChangeIsShown`, `OutcomeIsTheClis`, `OnlyExceptionsLeaveTheCli`, refinement `ImplementsLog`, `StreamEnds` |
| `stop_terminates`, `finalize`, `wrong_chart` | the instances above, or smaller | one statement of the repository each, refuted |

Bounds. Two overlapping turns are enough for every pair of transactions on a
row, and a third adds only another stale one; two pids allow a reused id, one pid
forces it. Three turns and two request threads exceed a cap of one in every way
the formula counts. `Timeout`, `Slack`, `Ttl`, `MaxTime` and the counters
`age` and `elapsed` stop at the last value a guard can tell from a larger one;
`Slack` 0 is the earliest the reaper can be, the sharpest case for
`ReapOnlyExpired`: a cutoff that forgets `Timeout` comes a tick before the deadline.
`MaxUnremoved` 1 lets one of the four removals fail while the others work; the
runs about the row alone (`cap`, `liveness` and the two refuted ones) have 0,
since no guard and no column depends on a removal. `MaxTries` is 2 instead
of 5: one rerun shows what a rerun repeats. Two versions tell an old answer from
a new one. Two requests, of which one may be run again, and two logins give every
order of start, exchange, write and commit; the third code is a second
authorization of the first login. Two fit files and an unfit one make an upload
that fails before, between and after files. Three lines hold a call and two
answers, or two blocks and a result; a pipe of one line lets the CLI, the pump
and the worker be at three different lines. `MaxActs` 6 lets a user open, switch, create, and send in both
conversations; 4 is what two views need to overlap in `Enter`, `Leave`, `Open`.
Deadlock is checked in the `SessionRuns` runs; the other models really
stop, when every call, act, line, login or file is used up.

Fairness. `SessionRuns`: time passes, the cron runs, a request ends and each
worker that can take a step does, until it dies, with one exception: after its
loop it reads stderr to the end, and a process that holds the pipe may keep it
there for ever, so nothing is assumed at `ended`. Nothing is assumed of users,
the CLI or errors; a CLI may stay silent for ever.
`ClaudeLogin`: the server works on its
requests and `requests.post` has a timeout; nothing is assumed of Claude.
`RunnerStream`: the worker runs, the reader thread does, and the deadline
passes. Nothing is assumed of the CLI, of the processes it starts, of users or
of the cron. `StreamEnds` therefore has an alternative, the only one left: the
CLI has exited and a process it started holds its stderr, and the worker waits
in the final read, which no deadline bounds. `ChatView`: the worker ends
(its deadline sees to it), calls are served and answered, events arrive.

## What is proved

The theorems hold for every value of the constants that satisfies the named
assumptions (disjoint tool sets, nil values outside their sets, bounds that are
natural numbers, finitely many sessions and turns).

- `SessionRunsProofs`. `TypeCorrect` first. `SnapshotInv` strengthens it: a
  transaction that can still commit has read the row as it is. It is needed
  because the guard that was checked when a transaction opened is not the one
  that holds at its commit. From it come `SendsAreSerialised` and, with the
  lemma that every step that changes a row leaves it a keeper,
  `NoConflictWedges`: a running session has a worker that can still commit and
  has not yet written its result, or a dead one. `ResultInv` (a result a worker
  has handled was settled in the row) is half of that. Turned round it limits the
  disagreement the run `finalize` shows: `FinalizeReachesOnlyOthers`, a worker
  that has written its result changes the state by its final commit, exceptions
  apart, only when another turn of the session is there. `PidInv`, no two processes hold the same id, gives
  `NoSignalGoesAstray`. `LoneStopTerminates` does for the run `stop_terminates`
  what `FinalizeReachesOnlyOthers` does for `finalize`: it assumes `OneWorker`
  (nobody sends while the worker of a stopped turn is still there), which keeps
  turns from writing each other's `last_run_pid`; a stop then misses only a CLI
  whose pid is not committed yet and one an exception has left. `ClockInv` relates the age of a row to the time of each
  worker that still reads its CLI and gives `ReaperIsPatient`. `ResidueInv`
  (a file or a routing session that is still there after the finally block is
  in `unremoved`, and no CLI is alive from there on) gives
  `CountedTurnsAreClean`.
- `SessionCountProofs`. `TurnsAreCounted`: the snapshot of the turn count is
  current at the commit, so one step adds one element and one to the column. A
  turn that ends in the except branch before its final write, or in a conflict,
  is in neither.
  `BurstIsBounded`: `CapInv` counts running sessions and sends in progress
  together, and only `SendBegin` raises the sum.
- `SessionLedgerProofs`. `RunsImplementLedger`: every commit maps to a step of
  the ledger or a stutter, with `ResultInv` for the results.
- `ToolCallsProofs`. `CallsInv` says for each call where its request, its
  bridge and its answer can be together; `SuccessHolds`, `TraceHolds`,
  `ReportHolds` follow, and with it `CallsImplementGate`: authentication with a
  permitted snapshot is `Accept`, the commit is `Perform`, a refusal, a crash
  and a rerun are `Drop`. For the policy alone: `WritesOnlyByGrant`,
  `WebOnlyByGrant`, `AdvertisedIsHeldOrDefault` for every setting. The two meet
  in `WritesAreGrantedTwice`: what a call has written was granted by the setting
  its turn was launched under and again by the one its request read, so neither
  the bridge's default list nor a setting changed in between lets a write
  through. `GrantInv` carries it: every started turn was given the tools of some
  setting, and every call on its way was shown among them.
- `ChatViewProofs`. `CommittedInv` extends `ShownIsCommitted` to the events and
  the replies on their way, which is where a version could come from;
  `ChatShowsCommitted`, `ChatHearsCurrent` (inductive as it stands).
  `CarefulViewIsExact` assumes `Careful` (one view, whose user waits; no Stop,
  no loss) and rests on `Follows`. A view is either on its way to a conversation
  with a single call in flight and nothing else happening, or in one: then at
  most one turn is at work, each answer is on the screen as it is or the last
  event about it carries its version, no message follows a "done", and the reload
  that "done" starts reads answers that no longer grow. `CarefulChartIsRight` is
  the same user's chart: what the run `wrong_chart` refutes needs a user who
  opens a second conversation before the first has answered.
- `RunnerStreamProofs`. `Flow` and `Ends` order the counters and say where the
  worker and the processes are at each end. `SentinelIsLast`: the sentinel of a
  reader thread that has not failed is put when nobody can write to the pipe and
  nothing is left in it, so whoever has taken everything before it has taken
  everything, though the CLI itself may be alive. `SupervisionLeavesNoCli`: then,
  and after a failed reader, it is the wait with its kill that leaves no CLI
  behind. `LastResultDecides` adds that until the end the row
  holds the status of the last result handled since the last stop or reaping,
  or what that one wrote.
  `Records` (messages, announcements and `msg_map` fit each other) gives
  `ChangesAreSent` and, with the rest of the types, `TypesHold`.
  `StreamImplementsLog` is the refinement of `TurnLog`. Its invariant `Read` says
  that the messages are a reading of the lines handled, and that `msg_map` leads
  from an id to the place of its first line, which is what a look-up must find for
  the next line to go to the right message. A line is then one of four cases (a
  block of a known message, of a new one, an answer, anything else), each with
  what it does to the first lines, the bodies and the calls; the lemmas on counted
  places (`Places`, `PlacesDiffer`, `PlacesCover`) stand in for an induction over
  the prefix. `ReadingIsUnique`, two readings of the same lines are equal, shows
  that the promise fixes the messages completely.
- `ClaudeLoginProofs`. `LatestLoginStaysOpen`: a transaction that can still
  commit read the parameter as it is, and its code is of that login.
  `LoginIsConsumedOnce`: a consumed login is never the parameter again.
  `ReadersSeeWholeFiles`, from which `AcceptedLoginsAreStored`: without a clash,
  at most one request is writing, and a file about to be renamed is its own.
- `UploadsProofs`. `ForeignFilesStayOut` and `RefusedUploadsAreNotSent` follow
  the ids from the upload to the message. `FilesAreSentOnce`: an id is in the
  composer or in one send. It carries `NamedFilesCanBeRead` and
  `EarlierFilesCanBeRead`, because only a second send of the same id could
  truncate a file that a prompt names.

Only model-checked: liveness (`RunningEnds`, `SupervisionEnds`,
`TurnIsSeenToEnd`, `ConnectingEnds`, `StreamEnds`), because it rests on fairness
and ENABLED, which are out of the prover's reach. Every safety property of the
passing runs is a theorem.

## Where code and documents disagree

Three runs refute a sentence of the repository (`PROJECT.json`, "findings"):
a stop before the pid is recorded leaves the CLI running (`stop_terminates`;
`LoneStopTerminates` says which others it misses);
the end of one turn closes the next one (`finalize`); the chart of one
conversation appears beside another (`wrong_chart`).

Met while modelling, without a run of their own:

- the cap is counted under the sender's record rules, so it is one per user and
  not "across all users" (`models/res_config_settings.py:26`);
- stop and reaper signal a recorded pid that may belong to another process by
  then, but not while the CLI it was recorded for is still watched
  (`SignalsMeetTheirCli`);
- an exception in a worker leaves its CLI running, with no deadline; one after
  the final write was made commits that write with the error, so that the turn is
  both counted and failed (`FinalFails`);
- a `finally` block that cannot remove a file says nothing, and `mcp.json` with
  the turn's token stays on the disk (`unremoved`);
- an audit row says "success" for a call whose flush fails after it, and a call
  refused for its token has no row (`README.md:40` of the repository);
- `sql_enabled` is read by no code (`README.md:135` of the repository);
- what a tool had written before it failed is committed, while its audit row is
  said to survive "a rollback of the failed operation"
  (`models/claudoo_tool_log.py:41`): there is none (`effect = "part"`);
- the audit of a call that deletes the session or user its row refers to waits
  for its own request's transaction and is never written (`RecordBlocks`),
  against "every tool call" of `README.md:40` of the repository;
- two logins that write at the same time can publish a half file, or each
  other's, although `_ai_write_credentials` says "Atomically write"
  (`models/res_users.py:365`); a refresh by a running CLI undoes a logout; and a
  rerun of `auth/complete` fails, because its code is spent, after the file has
  been written;
- files still in the composer when another conversation is opened are dropped
  from its message without a word, although they count as "already uploaded and
  ready to attach" (`components/composer.js:16`);
- between `queue.Empty` and `poll()` a CLI can print its last lines and exit:
  they are lost, the result line among them, and the turn is then judged by the
  exit status, as is one whose reader thread fails; the comment at `models/claudoo_runner.py:210` expects only a pipe
  that was not closed;
- no event tells the browser of a turn the reaper ended;
- a view that was left while it waited for a reply registers its callback in its
  successor's place, or removes it, and the open chat then hears nothing.

## Not modelled, and what could follow

- The transcript and `is_first`: a first turn that was not counted but left a
  transcript starts the next with an id the CLI already knows. What the CLI does
  then is not in this repository, so a model would end at the command line.
- The copy of the account into `.claude.json` (`_ai_sync_cli_account`): read,
  change and write of a file the CLI also writes; which of the two wins is the
  CLI's business.
- The text checks of `sql_select`, markdown and chart extraction, the framing of
  the bridge's JSON-RPC, forms, views, access rules and the migration: functions
  of one input, or data, without a state between steps.
- Still to model: several pages of one user in `Uploads`, and several blocks in
  one line of `RunnerStream`.
