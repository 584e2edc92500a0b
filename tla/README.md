# A verification of Retcon

Retcon is a control room for AI coding agents: a Rust core process (`src/crates/`), a Flutter
desktop application and a browser service in TypeScript (`src/apps/`). This directory holds TLA+
modules that model the core, the TLC configurations that check them on small instances, and
proofs that TLAPS checks for every size of the instance. `PROJECT.json` lists, for each definition,
the lines it models.

1. [The system](#1-the-system)
2. [Plan](#2-plan)
3. [The models](#3-the-models)
4. [What the runs check](#4-what-the-runs-check)
5. [Where the code and its texts disagree](#5-where-the-code-and-its-texts-disagree)
6. [What is proved](#6-what-is-proved)
7. [What is not modelled](#7-what-is-not-modelled)

## 1. The system

The core is one process with a multi-threaded tokio runtime. It serves newline-delimited JSON over
a local pipe or socket, keeps its durable state in one SQLite database (one connection behind a
mutex), and starts child processes: agents, terminals, development servers, verification gates and
the browser service. The parts that carry its logic:

| Part | State | Operations | Hard behaviour | Correct when |
|---|---|---|---|---|
| Sessions and turns (`retcon-core/src/session_engine.rs`, `session_rpc.rs`, `retcon-agents`) | durable: session and turn rows; volatile: `SessionRegistry` (known sessions, active turn, handle); a watcher task and a provider process per turn | `session.create/start/cancel/pause/resume`, `turn.send`, `turn.cancel`, the watcher, shutdown, recovery | handlers of several connections and the watchers interleave; rows read before an await and written after it; the mutex of a handle; crash between two writes | a turn in progress has an owner, an ended one no process; a completed one is a success; sequences are dense; a live row has somebody at work on it; nobody waits for anything but a provider that runs |
| Core lifecycle (`lifecycle.rs`, `state.rs`, `main.rs`) | instance lock, `core.json`, server task, shutdown flag | start (lock, open database, recover, publish, auto-start), shutdown (jobs, children, maintenance, server) | order of the start and of the shutdown; detached tasks; waits without a limit | nothing owned by the core outlives it; whoever serves can be found; a shutdown ends |
| RPC server (`server.rs`, `frame.rs`, `rpc.rs`) | connections, one request in flight each, cancellation map | authenticate, dispatch, permission gate, deliver events, `request.cancel` | frames and events in one `select!`; the handler is awaited inline; lag | every accepted request has a sign that it was seen; gaps in events are noticed |
| Event bus (`event.rs`) | next sequence, ring of 10,000 events, persistence queue, broadcast channel | emit (durable or volatile), replay, prune, open | sequence under a lock, queue and broadcast after it; writer thread; restart | a number names one event; replay is gapless and in order |
| Job supervisor (`jobs.rs`) | in-memory job table with handles, job rows | spawn, cancel, force_stop, detect_stuck, reconcile_orphans, shutdown, evict | task against controller; snapshots written after the unlock | one final outcome per job (no part of the program spawns one) |
| Approvals (`retcon-permissions`, `permissions_rpc.rs`) | approval and rule rows | check_rpc, decide, rules create, delete | check and decide are several statements; concurrent connections | a grant is used once, for the call and the project it was given for |
| Development servers (`dev_servers.rs`, `dev_servers_rpc.rs`, `retcon-devserver`, storage) | instance rows, port leases, active map, monitor task, process | start, stop, restart, monitor, shutdown, recovery | exit before the start is recorded; stop during startup; ports moved | one active lease per port; an instance row ends when its process does |
| Tasks (`tasks_rpc.rs`, `task_planning.rs`) | task, step, dependency and criterion rows | create, update, delete, status, dependencies, plan, criteria, evaluation, override | relations and projects change together; `task.create` is three transactions | relations stay acyclic and within a project; a completed task is done |
| Verification (`verification.rs`, `verification_rpc.rs`, `retcon-verification`) | command, run and gate rows, a runner task per run, its token | configure, create, start, record, finish, cancel, rerun | results by hand beside the runner; cancellation before the token is there; storage refuses a result | what has passed has passed its gates; a run ends; a completed task is verified |
| Browser sessions (`browser_rpc.rs`, `retcon-browser`, `apps/browser-service`) | session, profile, tab and takeover rows, pending requests, what can be relaunched, the service process | start, stop, operate, take over | the service dies in a call; late and lost answers; takeover during a call | the tables agree; a running session survives the service; nothing is automated twice |
| Browser verification (`browser_verification.rs`, its RPC and runner) | definitions, runs, baselines, an execution per run | save, run, cancel, review, approve a baseline | a late result against a decision; idempotency keys; baselines replaced during a run | decisions stand; one execution per run; what passed was compared with approved images only |
| Files, checkpoints, artifacts (`retcon-filesystem`, `retcon-checkpoints`, `artifacts.rs`) | working files, write locks, checkpoint and change rows, content-addressed files | read, conditional write, checkpoint, restore, clean-up, watch | files and rows are not one transaction; other programs write too | a write never replaces what its author has not seen; a checkpoint keeps its contents; a watcher catches up |
| Terminals (`spikes/terminal.rs`, `retcon-terminal`) | session and command rows, map of live terminals, shells, output and exit tasks | start, input, resize, kill, shutdown | exit, kill and shutdown meet; entries are worked on as clones | a terminal ends once; nothing that runs is forgotten |
| Storage (`database.rs`, `repositories.rs`, `recovery.rs`, `migrations.rs`, `storage.rs`) | the SQLite file, its version, backups | open, migrate, check, recover, back up, repair, reset | kill between two migrations; tools that take no lock | the version never claims what the tables have not seen; the work of a serving core is kept |

The remaining parts (git, worktrees, IDE launching, providers, secrets, diagnostics, protocol
types, platform, desktop, command line, scripts) are I/O, text processing or user interface;
`PROJECT.json` lists each with the reason it is left out.

How the parts meet: `server.rs` dispatches a request to one handler, which it awaits inline; a
handler asks the permission engine, calls the repositories one statement or transaction at a time,
may take the lock of an in-memory registry, may start a process and a task that watches it, and
emits events. Shutdown stops the server task and the children; `recover_interrupted` runs in one
transaction before anything is served.

`PROJECT.json` lists under "hazards" what can go wrong in this code and a test would hardly reach.

## 2. Plan

Each module has its constants and assumptions, one action per step of the code, invariants as
conjunctions of named parts and no `RECURSIVE` operator, so that it can be proved about as well as
checked.

| Module | Models | Composes, or implements | State |
|---|---|---|---|
| `SessionStates`, `SessionMachine`, `SessionTurns` | sessions, turns, providers, shutdown, crash and restart | `SessionMachine` is the table: `SessionTurns` implements it with one connection, a counterexample has two | checked, proved |
| `ApprovalLife`, `Approvals` | permission checks, decisions, rules | `Approvals` implements `ApprovalLife`: asked for, decided once, used at most once | checked, proved |
| `DevServers` | instance rows, leases, monitor, start and stop, auto-start | | checked, proved |
| `TaskPlanning` | tasks, relations, plans, criteria | | checked, proved |
| `Verification` | commands, runs, gates, runners | extends `TaskPlanning`: what lets a task complete | checked, proved |
| `BrowserSessions` | sessions, profiles, takeovers, tabs, the transport to the service | | checked, proved |
| `BrowserVerification` | definitions, runs, executions, reviews, baselines | | checked, proved |
| `FileEdits` | saves, checkpoints, restores, artifacts, clean-up | | checked, proved |
| `FileWatch` | the watch on a folder | | checked, proved |
| `EventBus` | emit, persist, prune, broadcast, open | | checked, proved |
| `RpcConnections` | connections, frames, replay, lag, and a client | extends `EventBus` | checked, proved |
| `Terminals` | terminals, shells, watchers | | checked, proved |
| `CoreStorage` | start and end of a core, the database file, the recovery tools | | checked, proved |

What is left: models of git worktrees and of the job supervisor, once a part of the program spawns
jobs.

## 3. The models

### Sessions and turns

`SessionStates` holds the two transition tables of `session_engine.rs`; `SessionMachine` is what
that file promises of every session row. `SessionTurns` models `session_rpc.rs` and what it calls.

State: `sessionStatus` and `turnRow` are the rows; `known` and `active` the `SessionRegistry`;
`watcher[t]` the point of the task that `turn.send` spawned for turn `t`; `call[c]` the handler the
connection `c` waits for, with the point it has reached and the state it has read; `process[t]` the
provider; `core`, `serving`, `handles` and `restarts` the life of the core.

A connection has at most one call (`server.rs` awaits the handler inline); `Offered` says which methods
each connection calls. Every database
statement, every critical section of the registry mutex and every await of a handler is an action,
so that calls of different connections, watchers, the provider and a shutdown interleave between
any two of them. The actions by handler:

| Code | Actions |
|---|---|
| `create_session` | `CreateSession` |
| `start_session` | `StartSession`, `StartStep` (once per transition), `StartUpsert` |
| `cancel_session`, `pause_session` | `CancelSession`, `PauseSession`, `Lookup`, `Kill`, `Unregister`, `SettleSession` |
| `resume_session` | `ResumeSession`, `ResumePreparing`, `ResumeRunning` |
| `send_turn` | `SendTurn`, `SendUpsert`, `SendSequence`, `SendInsert`, `SendCheckpoint`, `SendSpawn`, `SendNotSpawned`, `SendStarted`, `SendRegister` |
| `cancel_turn` | `CancelTurn`, `Kill`, `Unregister`, `CancelReread`, `CancelWrite` |
| the watcher task | `WatcherLock`, `WatcherWait`, `WatcherFinish`, `WatcherComplete`, `WatcherClear` |
| `CoreRuntime::shutdown`, `SessionRegistry::shutdown` | `RequestShutdown`, `StopServing`, `DropCall`, `TakeHandles`, `ShutdownKill`, `Exit` |
| a killed core, `recover_interrupted` | `Crash`, `Restart` |
| the child of `AgentTurn` | `ProviderExits` |

Abstractions. A request that is refused before it changed anything is a stuttering step. Prompts,
events, checkpoints' contents and the provider's own session id are left out. SQLite statements
succeed, except where UNIQUE refuses an insert. `child.kill()` and the reaping of the child are one
step, since the handle is held over both. The mutex of a handle is given to any waiter, not in the
order of arrival, and a shutdown takes the handles in any order, as it does with a hash map.
Registration of a turn and the spawn of its watcher have no await between them and are one step.
The permission gate in front of the handlers is the user's choice and not part of this model.

### Approvals

`Approvals` models the permission gate (`retcon-permissions/src/engine.rs`) with its callers in
`server.rs` and `permissions_rpc.rs` and its statements in `repositories.rs`. `ApprovalLife` is what
it promises of one approval.

State: `approvals` and `rules` are the tables; `owner[f]` is the project the parameters of the
request `f` lead to, which `permission_project_id` looks up anew for each call and which therefore
changes while calls are under way; `call[c]` is the check or decision a connection waits for. A
request is a fingerprint: the hash `request_fingerprint` takes of method and parameters, which
leaves the project out. Three fields are history the code does not store: `author` and `uses` of an
approval, `origin` of a rule.

| Code | Actions |
|---|---|
| `dispatch` up to the gate, and the method behind it | `Ask`, `Answer` |
| `check_rpc` | `CheckRules`, `CheckPresented`, `FindApproved`, `Consume`, `FindPending`, `Create`, `CreateFails` |
| `decide` | `Decide` (reads the row), `DecideWrite`, `Remember`, `RememberFails` |
| `permission.rules.create`, `permission.rules.delete` and expiry | `CreateRule`, `DropRule` |
| projects imported, paths that cannot be resolved | `Reown` |
| a killed core | `Crash` |

Each action is one SQL statement; no transaction spans two of them. `find_approved_by_fingerprint`
sorts by a clock in milliseconds that may tie or be set, so `FindApproved` takes any approved row.
Connections are tasks of a multi-threaded runtime, so checks and decisions of two connections do
interleave although neither awaits. Left out: which methods are protected, the development bypass,
scrubbing, audit records, and errors of reads (a failed read of rules counts as no rules).

### Development servers

`DevServers` models an instance from its row to its child: the transactions of the repository
(`retcon-storage/src/dev_servers.rs`), the handlers and the auto-start (`dev_servers_rpc.rs`), the
runtime with one monitor task per instance (`retcon-core/src/dev_servers.rs`) and the supervisor of
the child (`retcon-devserver/src/runtime.rs`).

State: `rows` and `leases` are the tables, with the leases that are active only; `servers[i]` is the
`DevServer` of instance `i` (its entry in the map and its monitor, the control mutex, the run it
still has, the child with its port, what was answered to `start`, and the first event after which
the monitor leaves); `call[c]` is where a connection, the auto-start task or the shutdown has got to
with an instance; `autoLeft` and `stopLeft` are the loops of the last two. A scope is what owns a
lease: a configuration, or a configuration and a task.

| Code | Actions |
|---|---|
| `start`, `auto_start` | `PrepareStart`, `AutoStartFails`, then `Launch`, `LaunchRefused`, `StartServer`, `NoPortToReserve`, `Startup`, `Reassign` (`start_instance`), then `MarkRunning`, `ReportRefused`, `MarkFailed` |
| `stop` | `BeginStop`, then `Lookup`, `StopServer`, `Join`, `Waited` (`stop_instance`), then `MarkStopped`, `LogsNotKept`, `LogsUnread` |
| `devServer.port.assign`, `devServer.port.release` | `AssignPort`, `ReleasePort` |
| `supervise` | `BecomesReady`, `StartupFails`, `Ends`, `Terminated` |
| `monitor_instance` | `Monitor` |
| `shutdown_all`, `abort_all`, exit | `BeginShutdown`, `Abort`, `ListServers`, `StopNext`, `Exit` |
| a killed core, `recover_interrupted` | `Crash`, `Restart` |

A transaction is one step. What a task does between two awaits is one step too, unless another task
could see the middle. A start that fails and a stop go through the same steps of `stop_instance`;
the field `then` of a call says where it goes on. Any port may be bound by another program, so
`StartServer` may take any port no child of ours has. `wait_for_terminal` gives up after five
seconds, so `Waited` may always happen, before the monitor has left as well as after. The mutex is
given to any waiter. Left out: errors of SQLite, a panic of the supervisor, detection, logs and
history, and the worktree of a task, which is taken not to change.

### Tasks

`TaskPlanning` models tasks with what hangs on them. State: `tasks`, `deps`, `plans` and `criteria`
are the tables; `creating[c]` says how far the `task.create` of a connection has got. Every other
method is one transaction and one step. Whether verification lets a task complete is a parameter of
its status actions, which `Verification` computes.

| Code | Actions |
|---|---|
| `task.create` | `CreateTask`, `CreateDependencies`, `CreateStatus`: three transactions |
| `task.update`, `task.delete`, `task.status.set` | `UpdateTask`, `DeleteTask`, `SetTaskStatus` |
| `task.dependencies.replace`, the methods of plans | `ReplaceDependencies`, `ReplacePlan` |
| `task.acceptance.*` | `CreateCriterion`, `UpdateCriterion`, `DeleteCriterion`, `EvaluateCriterion`, `OverrideCriterion`, `AddEvidence` |

Left out: titles, order, events, and the methods that only read.

### Verification

`Verification` extends `TaskPlanning` by the commands of a project, the runs with their gates and
the runner of each run. State: `commands` and `runs` are tables; `runner[r]` is the task that
executes run `r`, with the gates it has left, whether its child
runs and whether its token is cancelled; `call[c]` is what a handler is doing between two
transactions.

| Code | Actions |
|---|---|
| `verification.commands.configure`, `.list` | `ConfigureCommands`; `ListCommands`, `InstallDetected` |
| `verification.create`, `.rerun` | `VerifyTask`, `CreateRun`; `Rerun` |
| `verification.start` | `StartRun`, `GetDetails`, `StartRunner`, `Abandon` |
| `verification.recordResult`, `.finish`, `.cancel` | `RecordResult`; `FinishRun`; `CancelRun`, `SignalRunner` |
| `DurableVerificationRunner::execute_run` | `FindRoot`, `NoRoot`, `LeaveLoop`, `SpawnGate`, `RefuseGate`, `GateEnds`, `Captured`, `RecordGate`, `RecordFails`, `SkipGate`, `RunnerFinish` |
| the task around it | `GiveUp`, `RemoveHandle` |
| a killed core, `recover_interrupted` | `Restart` |

A gate ends by itself, by its timeout or by its token, which differ in the result only. What
`detect_gates` finds is a constant. A result that storage refuses is `RecordFails`.

### Browser sessions

`BrowserSessions` models a session from its row to the browser, with the transport between the core
and the Node process. State: `rows` (a session with its profile), `takeover` and `tab` are tables;
`known` is what the client of the service can launch again; `call[c]` what a connection waits for;
`requests` what the service has still to execute; `service`, `draining`, `live` and `paused` are the
process, the reader that clears the pending table after its death, its browsers, and those whose
automation is paused.

| Code | Actions |
|---|---|
| `start_session` | `StartSession`, `Remember`, then `Launched`, `LaunchedAstray`, `LaunchedTooLate`, `LaunchedNameless`, `LaunchFails`, `RolledBack` |
| `stop_session` | `StopSession`, `Forget`, `Stopped` |
| `call_operation` | `CallOperation`, then `OperationDone`, `OperationUnusable`, `OperationAstray`, `OperationFails`; a browser that is closed for what its page did: `Forget`, `FailedClosed` |
| `takeover_start`, `takeover_stop` | `TakeoverStart`, `TakeoverStop`, `TakeoverAnswered` |
| `call_wire`, `request_running`, `ensure_started` | `Send`, `SendFails`, `TimeOut`, `LaunchAgain`, `Relaunched` |
| the reader of the process | `ServiceDies`, `ReaderDrains` |
| the service (`browser.ts`) | `Execute` |
| a killed core, `recover_interrupted_state` | `Restart` |

When a launch or a close has returned, the client first notes it in its own map (`Remember`, `Forget`),
and the transaction of the handler is a step of its own after that; between the two a row may say what
the map does not. Any other answer and what the handler does with it are one step, since a handler
touches nothing shared in between. A request may be executed after its caller has given up (`MaxLate`).
A method stands for its kind: what observes, what navigates, what acts, what opens and closes a tab.

### Browser verification

State of `BrowserVerification`: `definitions`, `runs` and `baselines` are tables; `files` the baseline
files the service compares with, one per definition and variant, which all runs of the definition share;
`done` the tasks that are completed; `call[c]` and `background[r]` what a handler and the execution of a
run are doing. `against` says what the images of a run were compared with; `vouched` is history: the
definitions a completion relied on.

| Code | Actions |
|---|---|
| `save_definition` | `SaveDefinition` |
| `run` | `QueueRun`, `StartRun`, then `ReadBaselines`, `ClearFile`, `PutFile` (`prepare_visual_baselines`), `SpawnRun`, `PrepareFails` |
| `cancel` | `CancelRun`, `SignalRunner` |
| `review`, `approve_baseline` | `Review`; `ApproveBaseline`, `LoadDefinition`, the same three steps, `AnswerApproval` |
| `execute_run`, `finish_background_failure` | `CaptureImage`, `RunnerAnswers`, `RunnerFails`, `CompleteRun`, `FailRun` |
| a completion of the task (`task_planning.rs`) | `CompleteTask` |
| a killed core, `recover_interrupted` | `Restart` |

An answer of the service is a small record: whether steps failed, warnings, findings, and how each image
compared. `CaptureImage` compares an image with what its file holds at that moment, and says so or, if
the file is gone, that it is missing. `Translated`, `Acceptable`, `Valid` and `FinalStatus` are the pure
functions that judge definitions and answers. Images, reports and steps have no other content.

### Files, checkpoints and artifacts

State of `FileEdits`: `tree` is the project folder; `lock` the write locks; `call[c]` a save, a
snapshot or a restore, and the file its editor shows; `rows` the checkpoints, each with its row of
`file_changes` (the code never gives one more than one); `artifacts` the files of the store by age;
`core` and `kept` the shutdown with its clean-up. Revisions and artifacts are named by digests, so the
model names them by the content.

| Code | Actions |
|---|---|
| `file.read`, `file.write` | `ReadFile`; `SaveFile`, `CaptureBefore` or `SkipCheckpoint`, `LockFile`, `CheckAgain`, `RenameOver`, `AnswerSave`, `RecordChange` or `SkipChange` |
| `checkpoint.create`, and the snapshots of turns and of changes by git | `TakeSnapshot`, `StorePatch`, `InsertSnapshot`, `SkipSnapshot` |
| `checkpoint.restore` | `PreviewRestore`, `RestoreItem`, `RestoreFails` |
| `CoreRuntime::shutdown`, `cleanup_referenced` | `RequestShutdown`, `FindReferences`, `SweepArtifacts`, `Restart` |
| external: other programs, time | `WriteOutside`, `MonthPasses` |

A call that has begun goes on while the core shuts down and cleans up. The deletion of diagnostics
(`delete_if_unreferenced`) is left out: it takes artifacts of diagnostic rows only, whose contents are
taken to be none of a checkpoint's.

`FileWatch` models the watch on a folder: `raw` are the reports on their way, `pending` the merged
changes, `told` what the client was told last. Actions: `Watch`, `Unwatch`, `Deliver`, `EmitPending`;
external are `WriteFile`, `RemoveFile`, `MoveFile`, `ReplaceFile` and `TakeAway`, each with the
reports `notify` makes of it, which may also come in halves. The quiet window may end at any time.

### Events and connections

`EventBus` models the bus: `next` and `log` in memory, `queue` to the writer, `rows` the table, `box`
what a receiver will be given, `lost` how far it lags. `RpcConnections` extends it by the connection
(`link`, `arrived`, `partial`) and by a client that follows `schemas/protocol/README.md` (`sending`,
`seen`, `last`, `after`, `cursor`, `replay`).

| Code | Actions |
|---|---|
| `emit`, `emit_volatile` | `Emit`: `Number`, `Queue`, `Prune`, `Broadcast` |
| `event_writer_loop` | `WriteRow`, `LoseRow` |
| `EventBus::open`, the end of the core | `Open`, `Crash` |
| `serve_connection` | `Greet`, `Subscribe`, `Close`, `Replay`, `Refuse`, `Receive`, `Lag`, `Down` |
| `frame.rs` | `ReadHead`, `ReadEnd` |
| external: the client | `SendHead`, `SendTail` |

`partition_after` searches by halves; it is modelled by what that finds in a log in order.
`request.cancel` changes nothing here: it is read after the request it names has been answered.

### Terminals

State of `Terminals`: `session` the rows, `live` the map, `shell` the processes, `starting`,
`watcher` and `killing` the handlers and tasks, `keyboard` what was typed (history), `running` the
core.

| Code | Actions |
|---|---|
| `start` | `CreateSession`, `SpawnShell`, `SpawnFails`, `InsertLive`, `SpawnWatcher` |
| its output task and its exit task | `TakeOutput`; `WatcherSees`, `WatcherRemoves` |
| `terminal.input`, `terminal.kill` | `InputTerminal`; `KillTerminal`, `KillShell`, `KillFinishes` |
| shutdown and recovery | `ShutdownTerminals`, `RecoverTerminals` |
| external: the shell, the end of the process | `ShellWrites`, `ShellExits`, `TerminalsGo` |

`LiveTerminal` is cloned out of the map and put back, tracker and scrollback included; `Kept` is
what that does to keystrokes that came meanwhile.

### Core and storage

State of `CoreStorage`: `files` and `named` are the database files and the names they have;
`folder` says that the backup folder exists; `corelock` and `core_json` are the lock and the
discovery file; `proc` the processes, cores and tools.

| Code | Actions |
|---|---|
| `CoreRuntime::start` | `StartCore`, `RemoveStaleDiscovery`, `OpenFile` and what follows, `RecoverInterrupted`, `WriteDiscovery` |
| work and shutdown | `BeginWork`, `FinishWork`, `StopServing`, `ReleaseLock`, `ExitCore` |
| `Database::open` | `OpenFile`, `OpenFails`, `Migrate` (one migration each), `MigrationFails`, `QuickCheck`, `QuickCheckFails` |
| `recover_at_path`, `inspect_path` | `StartTool`, `NothingThere`, `OpenAgain`, `VacuumInto`, `BackupExists`, `CopyRaw`, `CopyFails`, `Reindex`, `MoveAside`, `MoveFails`, `InspectFresh`, `Inspected` |
| external: the operating system and the disk | `KillProcess`, `DamageFile` |

A tool is `retcon-core --storage-recover` or `storage.recover` inside a core; the stop of the latter is
the end of its core. `Migrate` of the rebuild of tables (version 4) succeeds again on tables that later
migrations have made, and writes its version over theirs; any other migration fails when repeated.
`OpenFilesMove` says whether an open file can be renamed: false on Windows, which Retcon is built for
first (`README.md:42`). One file is damaged at a time.

## 4. What the runs check

Twelve runs. Eleven hold; the twelfth, `rollback`, is described in section 5. Each passing run is
aimed at one part, with the smallest sets in which its hard cases happen. The comment above each
property says which code it is about, and `PROJECT.json` names a change of the code, as plausible as
a slip of the hand, that breaks it.

| Run | Instance | Distinct states |
|---|---|---|
| `sessions_race` | 2 connections, 1 session, 2 turns, 1 restart | 2.1 million |
| `sessions_single` | 2 connections, 1 session, 1 turn, every method, 1 restart | 129 thousand |
| `approvals_race` | 2 connections, 1 request, 2 projects, 2 approvals, 1 rule | 1.2 million |
| `devservers_race` | 1 connection, auto-start, shutdown; 2 scopes, 2 ports, 1 instance | 105 thousand |
| `tasks` | 2 connections, 3 tasks, 3 plans, 1 project, 1 session | 256 thousand |
| `verification` | 2 connections, 1 task, 2 plans, 1 criterion, 1 run of 2 gates, 1 restart | 652 thousand |
| `browser_sessions` | 2 connections, 1 session, 1 death of the service, 1 restart | 2.7 million |
| `browser_verification` | 2 connections, 2 runs, 1 image, 2 saves, 1 restart | 1.1 million |
| `file_edits` | 2 connections, 1 file, 1 checkpoint, 1 write from outside, 1 restart | 3.8 million |
| `connections` | 2 emitters, 3 events, 1 client, 1 fault | 2.4 million |
| `core_parts` | a folder of 2 files; 1 terminal; 2 cores and a tool | 1.7 million |

### Sessions and turns

**sessions_race** (methods `turn.send`, `turn.cancel`, `session.cancel`). Two connections are what it
takes for every pairwise race: two handlers of one session, or a handler and a watcher; a third party
is the shutdown or crash. Two turns are what it takes for a registration to be overwritten or wiped.

- `UnfinishedTurnsAreOwned`: while requests are served, a turn in progress has its `turn.send` or
  its watcher still to end it.
- `EndedTurnsHaveNoProcess`: a turn whose row has ended has no provider at work.
- `LiveProcessesAreWatched`: no provider is spawned and forgotten.
- `RegistrationsEnd`: a registration does not outlive its watcher, so a session is never locked out.

**sessions_single**. One connection calls every method but `turn.send`, the other starts the session and
sends, so that any two handlers of one session meet; a crash, or a shutdown with its next start, comes in
between. No symmetry, since liveness is checked.

- `LiveSessionsAreAttended`: a row that says "running" or "starting" has a core or a handler at work on it,
  although handlers judge a row they have read and write it without another look, and whatever the
  previous core left. (That the rows follow the table is not true with two connections; section 5.)
- `TurnsEnd`: a turn in progress ends, if providers end.
- `RequestsAreAnswered`: a request is answered or its connection goes down, and a shutdown ends, unless
  it waits to kill a provider that works on. That is the one thing anybody may wait for without an end.

Fairness. `CoreFairness` is weak fairness of each handler, of each watcher, of the shutdown steps
and of `Restart`: tokio polls every task that can run, and somebody starts the core again. Nothing is
assumed of providers, clients, crashes or shutdowns. `TurnsEnd` alone names an assumption about the
provider in its statement (`ProvidersEnd`), as nothing but the provider ends a turn that nobody cancels.
That a shutdown or a cancellation waits for the provider is what the code does, against its comment
(section 5); `RequestsAreAnswered` says that it waits for nothing else. Waiting for a handle is weakly
fair because the watcher releases it for good.

Bounds: the sets of the constants, `MaxRestarts`, and in `SendTurn` that a turn identity is left.

### Approvals

**approvals_race**. Two calls race for one approved row, two connections decide one approval, a
call comes between a decision's read and its write, and the project of the request changes
meanwhile. A second approval is what a duplicate needs.

- `ApprovalsAreUsedOnce`: an approval lets one call through, and is consumed by it.
- `NoConnectionAsksTwice`: look and insert are two statements, and still a connection leaves one
  pending approval for a request. (Two connections may each leave one; the second is harmless.)
- `GrantsAreExact`: a call that an approval has let through is the request that was approved, in the
  project it had then, found as an approval for once or presented by its id.
- `DecisionsAreFinal`: the refinement of `ApprovalLife`, so a decision is taken once and stays.

Bounds: `MaxApprovals` in `Create` and `MaxRules` in `Remember` and `CreateRule`.

### Development servers

**devservers_race**. One instance has five tasks that may end it: the start that made it, a stop,
its monitor, the shutdown and recovery. They meet here in every order. Two scopes that prefer one
port are what it takes for leases to contend.

- `RunningServersServeTheirPort`: "running" means ready, on the port of the row, which is the one
  that is leased, although the port may change while the server starts.
- `CrashesAreRecorded`: when the monitor has left after a crash, the row is not active.
- `ActiveInstancesHoldTheirLease`: through assignment, release, reassignment, stop and recovery.
- `InstancesSettle`: nothing stays starting or stopping, unless the core goes down, and the child of an
  instance that has stopped or failed ends, even if the stop came before there was a child to stop.
- `CallsAreAnswered`: start and stop wait for one mutex, and for a supervisor that holds none.

Fairness: weak fairness of what a caller has begun, of the supervisor (a startup has a timeout, and
a child that is killed dies), of the monitors and of the shutdown. A child need not end by itself,
nobody has to call, and nobody has to start the core again.

Bounds: `MaxInstances` in `PrepareStart`, and `Endings`, the ways the core may end.

### Tasks and verification

**tasks**. Three tasks are what a cycle needs that no single update sees whole; one of them may be
created by three transactions while the others are related to it.

- `NothingWaitsForItself`: dependencies and parents have no cycle, and no step waits for a later one.
- `RelativesShareTheirProject`: relatives, sessions and worktrees of a task are in its project.

**verification**. The second gate is optional. One client records results and finishes by hand
while the other cancels, or deletes the task; storage may refuse what the runner has to record.

- `PassedRunsPassedTheirGates`: nobody passes a run whose required gates have not passed.
- `CompletionIsEarned`: a completed task has done its plan, satisfied its criteria and passed its
  latest verification, whoever came last.
- `RunningRunsAreAttended`: a run that is running has a handler or a runner that will end it.

`Verification_live.cfg` adds `RunsEnd`, with one connection: every run that starts ends, and no
process of a gate goes on for ever. Its fairness is that of handlers and runners; a gate has a timeout.
It is no run of its own in `PROJECT.json`: 129 thousand states, 20 seconds.

Bounds: `MaxRuns`, `MaxRestarts`, `Creators` (who may create tasks), and the sets of plans, criteria
and statuses that clients send. Both runs have a constraint `Apart`: plans and criteria are looked at
while there is no run, or no second task, since they share nothing with those but the task's status,
which either of them alone can set and take back.

### Browser sessions

**browser_sessions**. One session, since sessions share the process of the service only; two
connections drive it. The service dies once, a request is executed late once, the core restarts once:
a death, a late answer and a restart are what the retry and the relaunch are for.

- `RunningSessionsCanBeRelaunched`: what runs is known to the client that would launch it again, or has
  just been closed for what its page did, by a handler whose next step writes "failed".
- `TablesAgree`: session, profile and takeover rows agree, whichever handler or failure comes last.
- `AutomationIsNotRepeated`: one call never automates twice.

### Browser verification

**browser_verification**. Two runs of one definition are what it takes for the latest one to count,
for a run to be asked for twice, and for one to replace the baseline file the other is compared with; a
second save changes what the definition requires.

- `CompletedTasksStayVerified`: each definition a completion relied on still has a latest run that
  passed or was approved, whatever came after.
- `DecisionsStand`: an ended run never changes, except by a review of one that failed or needs it.
- `RunsAreExecutedOnce`: of two clients that ask for a run, one executes it.
- `PassedImagesWereApproved`: what a run that passed was compared with was approved by somebody, for the
  same definition and variant, although the baselines are read when a run is prepared, the files are
  cleared and filled one by one, and other preparations do so while the images are compared. It does not
  say that the baseline was still the latest one, which the code does not promise.

The constraint `FirstHasKey` gives a key to the first run alone: what happens to a run without a key may
happen to one with a key, which in addition may be asked for again.

### Files

**file_edits**. Two connections on one file, and a program that takes no lock; a month may pass, so
that the clean-up takes old artifacts.

- `SavesReplaceWhatTheyName`: a save replaces the revision it names, unless somebody who takes no
  lock wrote between the last look and the rename; a save that makes a file has no such excuse.
- `RestoresSpareOtherWork`: an unforced restore finds what its change recorded, or what came after its
  preview.
- `CheckpointsKeepTheirArtifacts`: the clean-up keeps what a checkpoint needs; only a save or a snapshot
  that was still at work when the clean-up had looked may lose it (section 5).

### Events and connections

**connections**. A log and a table of two, a channel of one, pages of one: the limits 10,000, 1,024
and the page are reached by three events.

- `NumbersNameOneEvent`: in the log, the table, the queue and with the emitters, and in order.
- `NothingIsMissedSilently`: what a client was promised it has, will have, or is told that it lags.
- `WaitingClientsAreHeard`: while a client waits, the server still has something to read of it.

### Watch, terminals, storage

**core_parts** runs three modules that share no state, each by itself (`MCCoreParts`).

- `WatchersCatchUp`: when nothing is on its way, a client knows every file that is there, though
  reports are merged, paired and read late. That it knows which files are gone is not true (section 5).
- `RunningTerminalsAreAttended`, `TerminalsEndOnce`: start, exit, kill and shutdown, in any order,
  forget no shell and end no terminal twice.
- `ServingWorkIsKept`: nobody interrupts or moves away what a serving core works on, though tools
  take no lock (on Windows; section 5).
- `DiscoveryNamesTheServingCore`: whoever serves is named by `core.json`.
- `VersionsNeverRunAhead`: the version of a database claims no migration that its tables have not seen, and
  a core serves tables that have seen all, though cores and tools migrate one file, and are killed,
  between any two migrations. (The version may fall behind, section 5.)

Bounds: `MaxReports`, `MaxInputs`, `MaxChunks`, `MaxFiles`, and three migrations of which the second
rebuilds the tables, as version 4 does.

Except where a section says so, a module states no fairness: its properties are about safety.
`CHECK_DEADLOCK FALSE` stands where a behaviour ends because the bounds, or the identities of runs,
tasks and terminals, are used up.

## 5. Where the code and its texts disagree

Each of the following is a property that a text of the repository states and a configuration in
which TLC finds it violated. `rollback` is a run of `PROJECT.json`; for the others, check the module
`MC<name>` with the configuration that is named.

- **rollback** (`FileEdits_rollback.cfg`): "Rollback preserves unrelated user edits"
  (`development-plan.md:174`). `finish_file_write` reads the file again after the rename and outside of
  its lock (`service.rs:140`), so what another program has written by then is recorded as the content the
  save left; a restore finds no conflict and overwrites it. (In the same way a restore looks at regular
  files only: if a folder has taken the place of a file the save created, it is removed.)
- **One provider per session** (`SessionTurns_oneprovider.cfg`): `turn.send` refuses a second turn in
  progress, yet the watcher of an earlier turn wipes whatever turn is registered
  (`session_rpc.rs:803`). Cancel, send and send again, while the first watcher is between the exit
  and its last step, and two providers work in one session.
- **Shutdown cancels turns** (`SessionTurns_shutdown.cfg`): `SessionRegistry::shutdown` says that it
  cancels every turn in flight. The watcher holds the handle while it waits for the exit, so the
  shutdown, like `turn.cancel`, waits for the provider to end by itself. Fairness of the core only.
- **Resume** (`SessionTurns_resume.cfg`): `session.resume` writes `preparing` and then asks for
  `running`, a move the table forbids, so each resume of a paused session answers with an error and
  leaves `preparing`.
- **Rows** (`SessionTurns_rows.cfg`): the tables are "the single authority that translates those values
  into legal state transitions before they are written" (`session_engine.rs:3`). With two connections a
  row leaves the table: the transition is judged on the row the handler read first and written without
  another look.
- **Remembered** (`Approvals_remembered.cfg`): of two connections that decide one approval, the late
  one is answered ok too (`repositories.rs:1579` takes an update of no rows for success), and if it
  said "approve, always" it leaves a permanent allow rule although the approval was denied, or
  approved for once.
- **Exited** (`DevServers_exited.cfg`): a server that becomes ready and exits with code 0 before its
  handler has written "running" stays running for ever, without a child and without a monitor:
  `mark_exited` accepts rows that are running only, and its error is dropped.
- **Commands** (`Terminals_commands.cfg`, module `MCCoreParts`): the tracker "accumulates keystrokes
  until Enter and emits completed command lines" (`command_tracker.rs:3`). `LiveTerminal::clone`
  copies the tracker and the scrollback, and the copy that was typed into is dropped, so a command
  that is typed in pieces is not recorded; output is kept only when one chunk fills the scrollback.
- **Gone files** (`FileWatch_gone.cfg`, module `MCCoreParts`): a payload is "emitted when a watched path
  changes" (`watch.rs:20`). Of two files that are moved to one place within the window the first is named
  by no payload: `merge_change` keeps the previous path of the last (`watch.rs:213`), and its halves were
  paired away. It takes three files; with two the property holds.
- **Moved aside** (`CoreStorage_moved.cfg`, module `MCCoreParts`): a reset moves the damaged database
  aside (`storage.rs:22`), under a name made of the second. A second reset within that second renames
  over the first (`storage.rs:201`).
- **Open files** (`CoreStorage_open_files.cfg`, module `MCCoreParts`): where open files can be renamed,
  a reset, which takes no lock, moves the database away from the core that serves it.
- **Versions** (`CoreParts.cfg`, with `INVARIANT VersionsNameTheSchema` in the place of
  `VersionsNeverRunAhead`): opening is to "apply all pending migrations" (`database.rs:54`), and the
  version says which those are. Two processes that open a database without rows at once both read an old
  version; when one has come to the latest, the other still repeats version 4, which succeeds on tables
  without UUID rows (`database.rs:383`), and writes it over the latest (`database.rs:324`). The next start
  applies a migration that has been applied, and fails. A tool takes no lock, and so can be the other one.
- **Dropped variant** (`BrowserVerification.cfg`, with `Variants = {v1, v2}` and `INVARIANT
  PassedRunsComparedTheirImages`): an error that is thrown while a variant is carried out ends the
  loop, and counts as a failure only if no variant was carried out before it (`verification.ts:957`), so that
  a run passes with an image that was compared with nothing.
- **Runs end** (`BrowserVerification_ends.cfg`): a result that storage refuses as invalid is taken
  for one that came too late (`browser_verification_rpc.rs:299`), and the run stays running until the
  next start of the core.

Met while modelling, without a configuration of their own:

- Numbers of volatile events are given out again after a restart, so that a client's last sequence
  may be ahead of the bus it replays from (`schemas/protocol/README.md:13`: "from their last retained
  sequence").
- The read of a frame that an event interrupts forgets the piece it has read (`server.rs:150`); the
  request is lost, and the rest of the line is answered with an error that names no request.
- The report action of the storage tool, "without modifying files" (`storage.rs:16`), opens the
  database by the way that migrates it.
- A raw backup is copied into a folder that this path never creates (`storage.rs:167`), and neither
  backup nor reset takes the write-ahead log along.
- Saving a definition that requires more does not reopen the tasks completed before.
- The machine of a watcher starts at running, whatever the row says. If a cancellation comes first, the row
  moves from cancelled to failed, which the table of turns does not have (`session_rpc.rs:776`).
- A snapshot stores its patch and inserts its row after it, and goes on during a shutdown; if an old artifact
  of the same content had no row, the clean-up may delete it in between, and the checkpoint has lost its patch.

## 6. What is proved

Every theorem is about the specification of a module and holds for every value of its constants that
satisfies its assumptions. Some state properties that no run lists any more because a deeper one took
their place: `CompletedTurnsExitedCleanly`, `TurnSequencesAreDense`, `RememberedRulesStayInTheirProject`,
`PortsAreLeasedOnce` and `EndsAreFinal`.

### Sessions and turns

`SessionTurns_proofs` proves, for any sets of sessions, turns and clients and any number of
restarts, under `NullAssumption` (the null values are not sessions or turns):

| Theorem | Property |
|---|---|
| `Types` | `TypeOK` |
| `OwnedTurns` | `UnfinishedTurnsAreOwned` |
| `EndedTurns` | `EndedTurnsHaveNoProcess` |
| `WatchedProcesses` | `LiveProcessesAreWatched` |
| `CompletedTurns` | `CompletedTurnsExitedCleanly` |
| `Registrations` | `RegistrationsEnd` |
| `DenseSequences` | `TurnSequencesAreDense` |
| `AttendedSessions` | `LiveSessionsAreAttended` |

The arguments:

- *Types.* `TypeOK` with `CallsWellFormed`: a handler that is at work has a session and a core.
- *Turns.* The five ownership properties are proved together as `TurnsInv`. None is inductive
  alone. `SenderInv` says what the one `turn.send` at work on a turn may rely on (the row's status at
  each of its points, and that nobody else sends this turn); `WatcherInv` says what a watcher's steps
  have established; `CancelInv` says that a handler past its kill has no process left, which is what
  lets it write "cancelled"; `ActiveInv` ties a registration to a watcher that is not done; `RowsFirst`
  says that a turn without a row has nothing else; `DownInv` that nothing survives the core but
  orphans. `SendersAreKnown` is what makes `SetActive` take effect.
- *Sequences.* `SequencesInv` adds to density that a number read by `next_sequence` and not yet
  inserted leaves no gap below it: rows are never deleted, so it stays so until the insert.
- *Sessions.* `RowsInv` is `LiveSessionsAreAttended` with `ResumingInv`: a resume at its second step has
  read `preparing`, so that it cannot write running. `TransitionEffect` is what one call of
  `transition_session` does to the row and the handler, however old the status it judges: only a
  `session.start` writes starting or running, and its next step is to go on or to register the session.

### Approvals

`Approvals_proofs` proves, for any numbers of connections, requests, projects, approvals and rules,
from the assumptions of `Approvals` (methods, homes and offered choices are of their types):

| Theorem | Property |
|---|---|
| `Types` | `TypeOK` |
| `UsedOnce` | `ApprovalsAreUsedOnce` |
| `ExactGrants` | `GrantsAreExact` |
| `AskedOnce` | `NoConnectionAsksTwice` |
| `ProjectRules` | `RememberedRulesStayInTheirProject` |
| `FinalDecisions` | `DecisionsAreFinal` |

The invariant `Inv` adds to the properties what a call at each of its points may rely on (`CallOK`):
a call about to consume an approval has one that fits it and is approved or consumed by now; a call
about to record an approval has no pending one of its own. `RowsMove` says what any step may do to a
row: nothing but its status and, while it is pending, its remember changes, and a decision is never
undone. `CallKept` carries `CallOK` of all the other calls over every step that satisfies it, so that
each action is proved for its own call only. `FinalDecisions` shows that an action that changes the
rows changes the status of one, along `ApprovalLife`.

### Development servers

`DevServers_proofs` proves, for any numbers of connections, scopes, ports and instances, from the
assumptions of `DevServers` (ports are numbers, preferred ports and auto-starts are of their types,
the auto-start and the shutdown are not connections):

| Theorem | Property |
|---|---|
| `Types` | `TypeOK` |
| `HeldLeases` | `ActiveInstancesHoldTheirLease` |
| `PortsOnce` | `PortsAreLeasedOnce` |
| `RunningPorts` | `RunningServersServeTheirPort` |
| `RecordedCrashes` | `CrashesAreRecorded` |
| `FinalEnds` | `EndsAreFinal` |

The invariant has a part for the tables and one for memory. `LeaseInv` adds to the two lease
properties that a lease in use is of the scope and the port of a row that is there: without it a
release by instance could take another scope's lease, and a reassignment could leave two. It speaks
of `rows` and `leases` only, so that `MoveStep` proves it once for every transition. For memory,
`CallOK` says what a caller may rely on at each point, `StartersDiffer` that no two callers start one
instance (only `prepare_start` begins a start, with a new row), and `ServerOK` that a child that
lives is watched and has not had its last event. `Ended` says what every step does to the rows; it
carries `CrashesAreRecorded` over, and is what `FinalEnds` states. `CallStep`, `ControlStep` and
`ChildStep` take the invariant over all steps of a caller, of the mutex and of a child.

### Watch on a folder

`CoreParts_proofs` has the proofs about `FileEdits` and the three modules that `MCCoreParts` runs; none
of the four shares state with another. Of `FileWatch` it
proves, for any files, contents and bound on the reports, under `NothingAssumption` and
`ReportsAssumption`:

| Theorem | Property |
|---|---|
| `WatchTypes` | `TypeOK` |
| `CatchUp` | `WatchersCatchUp` |

`WatchersCatchUp` speaks of the moment when nothing is on its way; `WatchInv` says what is on its way
before. `Tracked` says of a file that is there: if the client would be told something amiss (`Amiss`:
a deletion is pending, or nothing is and its revision is an old one), a report that speaks of the file
is still to come; and every report that it is gone is followed by one that speaks of it (`Followed`).
The second part is needed for the first, as a deletion that arrives late makes amiss what was right.
`DeliveredShape` is what merging does to the entry of a file that is there: a report that speaks of it
leaves no deletion, and pairing the halves of a rename takes away entries of files only that are on the
other side of the rename. That a file's own entry survives is what `GoneFilesAreTold` has no
counterpart of (section 5).

### Saves and checkpoints

`CoreParts_proofs` proves of `FileEdits`, for any connections, files, contents and bounds, under
`ThingsAssumption` and `BoundsAssumption`:

| Theorem | Property |
|---|---|
| `EditTypes` | `EditTypeOK` |
| `NamedIsReplaced` | `SavesReplaceWhatTheyName` |
| `OtherWorkIsSpared` | `RestoresSpareOtherWork` |
| `ArtifactsStay` | `CheckpointsKeepTheirArtifacts` |

The two action properties speak of the step that writes; `EditInv` says what holds between the look and
the write. `NamedOK`: before the rename the path holds what the save names, unless it was raced; with
`HasLock`, no other save can be the racer. `KnownOK`: after the preview the path holds what the change
knows, unless the client insists or the restore was raced; this needs that a change is recorded once, which
is `SaveOK` (the checkpoint of a save under way has no change yet) with `OwnRows` (it belongs to no other
save). For the artifacts, `RowInv` adds to the property that while the clean-up is about to remove, it
keeps what the checkpoints need. The content before a save is stored long before a row names it, so
`BeforeOK` carries it: until the clean-up has looked nothing is removed, and a save that ends later is
late. `PatchOK` does the same for the patch of a snapshot between its store and its row. `CallKept` says
what a step must leave alone for another connection, and `CallStays` that this is enough.

### Terminals

`CoreParts_proofs` proves, for any numbers of terminals, inputs and chunks:

| Theorem | Property |
|---|---|
| `TerminalTypes` | `TerminalTypeOK` |
| `EndsOnce` | `TerminalsEndOnce` |
| `Attended` | `RunningTerminalsAreAttended` |

The invariant speaks of one terminal at a time. `HeldOnce` says that of a start under way, the map
and a kill one at most has the terminal, and that whoever has it has a running row to end;
`EndsCounted` that a row has ended as often as its status says; `WatcherFollows` that the watcher comes
last; `SomebodyHas` that what runs is had by somebody while the core serves; `NothingSurvives` that
nothing outlives the core. `EndsOnce` rests on `HeldOnce`: an end is written without a condition, so
whoever writes it must be the only one who can. `SameKept` and `OthersStay` carry the invariant over
the steps of other terminals.

### Core and storage

`CoreParts_proofs` proves, for any cores, tools, rows, migrations, files and seconds, under
`VersionAssumption`, `BoundAssumption` and `ProcessAssumption`:

| Theorem | Property |
|---|---|
| `StorageTypes` | `StorageTypeOK` |
| `Found` | `DiscoveryNamesTheServingCore` |
| `Versions` | `VersionsNeverRunAhead` |
| `WorkIsKept` | `ServingWorkIsKept`, if open files cannot be renamed |

`StorageInv` consists of `SchemaInv` (every file is `Honest`: its version is its schema, or a rebuild
has been repeated on a later one), `NamesInv` (a file has one name, and nobody holds a backup open),
`LockInv` (who is between the lock and its release holds it, and `core.json` names a core that serves),
`VersedInv` (whoever migrates has read no version that the tables do not have by now, and whoever has
the file open after that has the latest tables) and `WorkInv` (what a serving core has begun is busy in
its file). `OpenInv` adds, where open files stay where they are, that what is open is the database.
`QuietStep`, `QuietTool`, `FileStep`, `OwnFileStep`, `UnheldFileStep` and `NamesStep` carry the
invariant over the kinds of steps there are, so that each action is shown to be of a kind. `WorkIsKept`
needs the lock, since only the core that holds it interrupts work, and `OpenInv`, since a tool cannot
move an open file away.

### Browser sessions

`BrowserSessions_proofs` proves, for any connections, sessions, policies and bounds, under
`NullAssumption` and `BoundAssumption`:

| Theorem | Property |
|---|---|
| `Types` | `TypeOK` |
| `NotRepeated` | `AutomationIsNotRepeated` |
| `Agreement` | `TablesAgree` |
| `Relaunchable` | `RunningSessionsCanBeRelaunched` |

There are three arguments, each on top of the one before:

- *Requests.* `WireInv` says of a handler that automation it is about to send has not been carried out
  (`Handled`), and of a request that its handler still waits for it and has not had it carried out
  (`Awaited`). A caller that stops waiting leaves its request to nobody, so that a late execution is
  never counted for a call it does not belong to; and a handler asks again for observations only.
- *Tables.* `TablesAgree` is inductive. `TableSteps` reduces the steps of all handlers to the few things
  a transaction does to the tables (`TableStep`), and `AgreeStep` shows each of them to keep it.
- *Launches.* What is forgotten must not run. `LaunchInv` says where the handlers that forget a session
  or make it run have its row (`Placed`): a stop and a rollback have one that is over, and stays so; a
  launch has one that does not run yet, and is the only launch of its session. `Kept` says that a launch
  that has returned is remembered, unless its session came to an end meanwhile, so that the transaction
  that writes running finds it there; `Failing` is the handler that has forgotten a session and has yet
  to fail it, the exception the property names. `Keeps` is what every move but the one to running does,
  and `LaunchKind` carries the invariant over such a step.

### Tasks and verification

`Verification_proofs` proves, for any tasks, projects, sessions, worktrees, criteria, connections,
commands and bounds, from the assumptions of `TaskPlanning` and `Verification` (homes, statuses, drafts,
commands and answers are of their types, and nothing is not one of the things there are):

| Theorem | Property |
|---|---|
| `NoCycles`, `OneProject` (of `PlanningSpec`) | `NothingWaitsForItself`, `RelativesShareTheirProject` |
| `Types` | `TypeOK` |
| `PlanningStands` | both of the above, beside verification |
| `PassesAreHonest` | `PassedRunsPassedTheirGates` |
| `CompletionEarned` | `CompletionIsEarned` |
| `RunsAreAttended` | `RunningRunsAreAttended` |

- *Planning.* Each method of `tasks_rpc.rs` comes down to one `Transaction`, and what holds of the
  tables is shown for the transactions only. `NoRelations` is what the relations need: a row that is not
  there names no relatives, so that a task that is created again under its identity inherits none. A graph
  has a cycle if each task of some set waits for one of the set (`Acyclic`); if new edges of `t` closed
  one, those of the set that their targets reach would be such a set without `t` (`NewEdges`).
- *Runs.* `Advanced` says what may become of a row of `verification_runs`, and `RunsWritten` what any
  handler or runner does: at most one row advances, or a run is queued, and at most one task is reopened.
  `PassesAreHonest` needs no more than that. For `CompletionEarned`, `Earned` is inductive with it: a
  step that makes a gate of the latest run unverified reopens the task in the same transaction, and a
  transaction that completes a task has asked for the verdict that still stands at its end.
- *Attention.* `RunsAreAttended` goes by what a step may take away: no step but `StartRun` makes a run
  running (`NoneStarted`), and a handler or a runner that leaves a run has ended it (`AttentionKept`).

### Browser verification

`BrowserVerification_proofs` proves, for any definitions, tasks, sessions, connections and bounds, from
the assumptions of `BrowserVerification`:

| Theorem | Property |
|---|---|
| `Types` | `TypeOK` |
| `Decisions` | `DecisionsStand` |
| `KnownImages` | `PassedImagesWereApproved` |
| `ExecutedOnce` | `RunsAreExecutedOnce` |
| `CompletionsStand` | `CompletedTasksStayVerified` |

`RunStep` says what a step does to the runs: one of them evolves, one is queued, or recovery interrupts
those that have not ended; `Evolves` lists the moves a row may make, and is `DecisionsStand` itself once
every transaction is shown to be such a step. `Owned` adds that a handler or an execution has its run
and a run its definition, and `Unseen` that a run that has not ended has no comparisons. `Once` says
that whoever is about to spawn the execution of a run is alone with it, and that a queued run has none:
the status check of `start` lets one through. `Vouched` strengthens `CompletedTasksStayVerified` by the
definitions still being required, so that a new run of one of them reopens the task; `VouchedKept`
carries it over every step that queues, saves and completes nothing. `ImagesInv` follows an approved
image along its way: the table and the files hold approved images of their definition and variant or
none (`Kept`), what a handler has read and not yet put in place is one (`Carried`), so is what an
execution has compared with (`Met`), and a run passed with those alone (`Passed`). It needs that no
approval is taken back (`ApprovalsStay`), as an image stays in a file long after its run was reviewed.

### Events and connections

`RpcConnections_proofs` proves, for any numbers of clients, events, rows and events in memory, any
capacity of a receiver and any size of a page, under `BusAssumption` and `PageAssumption`:

| Theorem | Property |
|---|---|
| `Types` | `TypeOK` |
| `NumbersAreNames` | `NumbersNameOneEvent` |
| `NothingMissed` | `NothingIsMissedSilently` |
| `ClientsAreHeard` | `WaitingClientsAreHeard` |

- *Numbers.* `BusInv` needs `Ahead`: the next number is ahead of every event that a client may know
  while the core is up, and of every row between two lives of the core, since the rows are all that
  the next life has. `Numbered` bounds a number by the events emitted so far.
- *Frames.* `Framed` says that what has arrived of a request is a beginning of what was sent, and that
  a connection that is not open has neither a receiver nor a request. A client that waits for an
  answer is heard because no step takes its request away without answering or closing.
- *Events.* `NothingMissed` says that what a client was promised, and nobody told it that it missed, it
  has seen or will be given (`Given`). `MissInv` adds what a page under way owes (`Due`): while the
  client asks, everything between its `after` and the cursor is promised as well. `Pages` is what a page
  keeps of that: it has every event of the log between its two ends, and the last page reaches the end
  of the log. `LogGrows` says that this stays so when events are added, `BroadcastReaches` that an
  emitted event reaches every receiver or is counted as lost. `MaxOf` rests on the well-foundedness of
  the numbers.

### Only model-checked

The liveness properties `TurnsEnd`, `RequestsAreAnswered`, `InstancesSettle` and `CallsAreAnswered`, as
they need fairness, which the prover does not handle; and the counterexamples.

## 7. What is not modelled

`PROJECT.json` gives a reason for each part that is left out. The larger ones:

- The job supervisor: nothing in the program spawns a job, so shutdown, listing and recovery meet an
  empty table; no hazard is listed for it.
- Git and worktrees: a method runs git once or twice and parses what it prints; what is concurrent
  in it is git's own locking.
- The browser service: it is the peer that `BrowserSessions` and `BrowserVerification` answer for.
- Text processing (detection of servers and gates, parsing of output, redaction, escape sequences),
  operating system layers, the desktop application, the command line.

Within the modelled parts: errors of SQLite in the middle of a handler, except those named above; a
full disk; the write-ahead log; a database from a newer version; the contents of events, prompts,
plans, images and artifacts; the output of a provider; time, beyond that a timeout may come, a window
may end and a month may pass; temporary files that a kill leaves behind.

A handler is taken to be dispatched after the permission gate let it through: `Approvals` models the
gate by itself.
