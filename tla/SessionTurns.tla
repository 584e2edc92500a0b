---------------------------- MODULE SessionTurns ----------------------------
(***************************************************************************)
(* Agent sessions and provider turns of the Retcon core, translated from   *)
(* src/crates/retcon-core/src/session_rpc.rs (the RPC handlers, the        *)
(* SessionRegistry and the task that watches a provider process), with the *)
(* parts of the storage, agent and lifecycle crates the handlers call.     *)
(*                                                                         *)
(* A client is one RPC connection.  server.rs runs the handler of a        *)
(* request inline, so a client has at most one call in progress, and the   *)
(* multi-threaded runtime interleaves the calls of different clients and   *)
(* the watchers.  Each database statement, each critical section of the    *)
(* registry mutex and each await of a handler is a step.  A request that   *)
(* is refused before it changed anything is a stuttering step.             *)
(***************************************************************************)
EXTENDS SessionStates, Naturals, FiniteSets

CONSTANTS
  Sessions,     \* identities of sessions
  Turns,        \* identities of turns
  Clients,      \* RPC connections
  NoSession,    \* "no session" in a row or a call
  NoTurn,       \* None in ActiveSession::active_turn
  Offered,      \* the methods each client calls, beside session.create
  MaxRestarts   \* how often the core may stop and be started again

ASSUME NullAssumption == NoSession \notin Sessions /\ NoTurn \notin Turns
Methods == {"session.start", "session.cancel", "session.pause", "session.resume",
            "turn.send", "turn.cancel"}

ASSUME OfferedAssumption == Offered \in [Clients -> SUBSET Methods]
ASSUME RestartAssumption == MaxRestarts \in Nat

VARIABLES
  \* durable, in SQLite
  sessionStatus,  \* the status column of each session row, or "absent"
  turnRow,        \* status, session and sequence of each turn row
  \* volatile, in the core process
  known,          \* the sessions with an entry in the SessionRegistry
  active,         \* active_turn of those entries
  watcher,        \* the task turn.send spawns to wait for the provider
  call,           \* the handler each client is waiting for
  \* around the core
  process,        \* the provider process of each turn
  core,           \* the life of the core process
  serving,        \* whether the server task still runs the connections
  handles,        \* the turns SessionRegistry::shutdown has taken
  restarts        \* how often the core has been started again

durable == <<sessionStatus, turnRow>>
registry == <<known, active>>
lifecycle == <<core, serving, handles, restarts>>
vars == <<sessionStatus, turnRow, known, active, watcher, call, process,
          core, serving, handles, restarts>>

-----------------------------------------------------------------------------
(***************************************************************************)
(* State.                                                                  *)
(***************************************************************************)

\* The points of turn.send from the insertion of the row to the registration.
SendPoints == {"checkpoint", "spawn", "started", "register"}

\* The points at which a handler is cancelling a turn.
CancelPoints == {"kill", "unregister", "reread", "cancelled"}

Points == SendPoints \cup CancelPoints \cup
  {"idle", "step", "upsert", "lookup", "settle", "preparing", "resuming",
   "enter", "sequence", "insert"}

\* The points of a handler that are an await: the tasks of the connections
\* are dropped there when the server stops.
Awaits == {"checkpoint", "kill"}

Call == [method: Methods \cup {"none"}, pc: Points,
         session: Sessions \cup {NoSession}, turn: Turns \cup {NoTurn},
         state: SessionState \cup TurnState \cup {"none", "absent"}, sequence: Nat]

Idle == [method |-> "none", pc |-> "idle", session |-> NoSession, turn |-> NoTurn,
         state |-> "none", sequence |-> 0]

TurnRow == [status: TurnState \cup {"absent"}, session: Sessions \cup {NoSession},
            sequence: Nat]

NoRow == [status |-> "absent", session |-> NoSession, sequence |-> 0]

\* "ok" is an exit with code 0, "failed" any other end, a kill included; an
\* "orphan" outlived the core that spawned it.
ProcessState == {"none", "running", "ok", "failed", "orphan"}

WatcherState == {"none", "locking", "waiting", "exited", "completing", "clearing", "done"}

TypeOK ==
  /\ sessionStatus \in [Sessions -> SessionState \cup {"absent"}]
  /\ turnRow \in [Turns -> TurnRow]
  /\ known \in SUBSET Sessions
  /\ active \in [Sessions -> Turns \cup {NoTurn}]
  /\ watcher \in [Turns -> WatcherState]
  /\ call \in [Clients -> Call]
  /\ process \in [Turns -> ProcessState]
  /\ core \in {"up", "draining", "killing", "down"}
  /\ serving \in BOOLEAN
  /\ handles \in SUBSET Turns
  /\ restarts \in Nat

Init ==
  /\ sessionStatus = [s \in Sessions |-> "absent"]
  /\ turnRow = [t \in Turns |-> NoRow]
  /\ known = {}
  /\ active = [s \in Sessions |-> NoTurn]
  /\ watcher = [t \in Turns |-> "none"]
  /\ call = [c \in Clients |-> Idle]
  /\ process = [t \in Turns |-> "none"]
  /\ core = "up"
  /\ serving = TRUE
  /\ handles = {}
  /\ restarts = 0

-----------------------------------------------------------------------------
(***************************************************************************)
(* Helpers.                                                                *)
(***************************************************************************)

Running == core # "down"

TurnsOf(s) == {t \in Turns : turnRow[t].session = s}

Unused == {t \in Turns : turnRow[t].status = "absent"}

\* TurnRepository::next_sequence: MAX(sequence), 0 without rows, plus 1.
IsNextSequence(s, n) ==
  LET used == {turnRow[t].sequence : t \in TurnsOf(s)}
  IN /\ \A m \in used : m < n
     /\ n = 1 \/ \E m \in used : n = m + 1

\* The turns of the calls that will insert a row: each still needs an identity.
Reserved == {c \in Clients : call[c].pc \in {"enter", "sequence", "insert"}}

\* Mutation of HandleFree: the guard of a watcher that is done is leaked.
HandleLeaked(t) == watcher[t] \notin {"waiting", "exited", "completing", "clearing", "done"}

\* Nobody holds the tokio mutex around the AgentTurn.  The watcher keeps it
\* while it waits for the process to exit; a canceller holds it only for the
\* kill, which is one step here.
HandleFree(t) == watcher[t] # "waiting"

\* Mutation of Killed: the child is told to stop and nobody waits until it has.
KilledLater(t) == process

\* AgentTurn::cancel: kill the child and reap it; nothing if it has exited.
Killed(t) == [process EXCEPT ![t] = IF @ = "running" THEN "failed" ELSE @]

\* SessionRegistry::set_active_turn: nothing without an entry.
SetActive(s, t) == active' = IF s \in known THEN [active EXCEPT ![s] = t] ELSE active

\* A handler begins: its method, session, first point and the row it read.
Enter(c, m, s, p, st) ==
  call' = [call EXCEPT ![c] =
            [method |-> m, pc |-> p, session |-> s, turn |-> NoTurn,
             state |-> st, sequence |-> 0]]

Goto(c, p) == call' = [call EXCEPT ![c].pc = p]

\* The response is written and the client may send the next request.
Return(c) == call' = [call EXCEPT ![c] = Idle]

\* The client may send a request for a session that exists.
MayCall(c, m, s) ==
  /\ m \in Offered[c]
  /\ Running /\ serving
  /\ call[c].pc = "idle"
  /\ sessionStatus[s] # "absent"

At(c, p) == Running /\ call[c].pc = p

\* transition_session: the state machine of the handler, which started from
\* the row the handler read, decides; the row is then written whatever it
\* holds by now.  The caller says where the handler goes on.
TransitionSession(c, to, next) ==
  LET s == call[c].session
  IN \/ /\ SessionTransitionAllowed(call[c].state, to)
        /\ sessionStatus' = [sessionStatus EXCEPT ![s] = to]
        /\ call' = [call EXCEPT ![c] = IF next = "idle" THEN Idle
                                       ELSE [@ EXCEPT !.pc = next, !.state = to]]
     \/ /\ ~SessionTransitionAllowed(call[c].state, to)
        /\ Return(c)
        /\ UNCHANGED sessionStatus

\* persist_turn_status_internal: an unconditional write of the status.
WriteTurn(t, to) == turnRow' = [turnRow EXCEPT ![t].status = to]

-----------------------------------------------------------------------------
(***************************************************************************)
(* session.create and session.start.                                       *)
(***************************************************************************)

CreateSession(c, s) ==
  /\ Running /\ serving
  /\ call[c].pc = "idle"
  /\ sessionStatus[s] = "absent"
  /\ sessionStatus' = [sessionStatus EXCEPT ![s] = "created"]
  /\ UNCHANGED <<turnRow, registry, watcher, call, process, lifecycle>>

\* The states start_session walks through, one transition at a time.
NextOfStart(st) ==
  CASE st \in {"created", "paused"} -> "preparing"
    [] st = "preparing"             -> "starting"
    [] st = "disconnected"          -> "recovering"
    [] st \in {"starting", "recovering"} -> "running"

\* A session that has ended is refused; one that runs only gets its entry.
StartSession(c, s) ==
  /\ MayCall(c, "session.start", s)
  /\ sessionStatus[s] \notin Terminal
  /\ Enter(c, "session.start", s,
           IF sessionStatus[s] \in Waiting \cup {"running"} THEN "upsert" ELSE "step",
           sessionStatus[s])
  /\ UNCHANGED <<durable, registry, watcher, process, lifecycle>>

StartStep(c) ==
  /\ At(c, "step")
  /\ LET to == NextOfStart(call[c].state)
     IN TransitionSession(c, to, IF to = "running" THEN "upsert" ELSE "step")
  /\ UNCHANGED <<turnRow, registry, watcher, process, lifecycle>>

StartUpsert(c) ==
  /\ At(c, "upsert")
  /\ known' = known \cup {call[c].session}
  /\ Return(c)
  /\ UNCHANGED <<durable, active, watcher, process, lifecycle>>

-----------------------------------------------------------------------------
(***************************************************************************)
(* session.cancel, session.pause and session.resume.                       *)
(***************************************************************************)

CancelSession(c, s) ==
  /\ MayCall(c, "session.cancel", s)
  /\ Enter(c, "session.cancel", s, "lookup", sessionStatus[s])
  /\ UNCHANGED <<durable, registry, watcher, process, lifecycle>>

PauseSession(c, s) ==
  /\ MayCall(c, "session.pause", s)
  /\ Enter(c, "session.pause", s, "lookup", sessionStatus[s])
  /\ UNCHANGED <<durable, registry, watcher, process, lifecycle>>

\* The turn that is active now, if any, is killed before the row is judged.
Lookup(c) ==
  /\ At(c, "lookup")
  /\ LET t == active[call[c].session]
     IN call' = [call EXCEPT ![c].pc = IF t = NoTurn THEN "settle" ELSE "kill",
                             ![c].turn = t]
  /\ UNCHANGED <<durable, registry, watcher, process, lifecycle>>

Kill(c) ==
  /\ At(c, "kill") /\ serving
  /\ HandleFree(call[c].turn)
  /\ process' = Killed(call[c].turn)
  /\ Goto(c, "unregister")
  /\ UNCHANGED <<durable, registry, watcher, lifecycle>>

Unregister(c) ==
  /\ At(c, "unregister")
  /\ SetActive(call[c].session, NoTurn)
  /\ Goto(c, IF call[c].method = "turn.cancel" THEN "reread" ELSE "settle")
  /\ UNCHANGED <<durable, known, watcher, process, lifecycle>>

\* A session that has ended answers a cancel without a write.
SettleSession(c) ==
  /\ At(c, "settle")
  /\ \/ /\ call[c].method = "session.cancel"
        /\ call[c].state \in Terminal
        /\ Return(c)
        /\ UNCHANGED sessionStatus
     \/ /\ call[c].method = "session.cancel"
        /\ call[c].state \notin Terminal
        /\ TransitionSession(c, "cancelled", "idle")
     \/ /\ call[c].method = "session.pause"
        /\ TransitionSession(c, "paused", "idle")
  /\ UNCHANGED <<turnRow, registry, watcher, process, lifecycle>>

ResumeSession(c, s) ==
  /\ MayCall(c, "session.resume", s)
  /\ Enter(c, "session.resume", s, "preparing", sessionStatus[s])
  /\ UNCHANGED <<durable, registry, watcher, process, lifecycle>>

\* Two transitions; the table has no edge from preparing to running.
ResumePreparing(c) ==
  /\ At(c, "preparing")
  /\ TransitionSession(c, "preparing", "resuming")
  /\ UNCHANGED <<turnRow, registry, watcher, process, lifecycle>>

ResumeRunning(c) ==
  /\ At(c, "resuming")
  /\ TransitionSession(c, "running", "idle")
  /\ UNCHANGED <<turnRow, registry, watcher, process, lifecycle>>

-----------------------------------------------------------------------------
(***************************************************************************)
(* turn.send.                                                              *)
(***************************************************************************)

\* The status of the session is not looked at, only that its row exists and
\* that no turn is registered.  The second conjunct bounds the model: every
\* accepted call has an identity left for its row.
SendTurn(c, s) ==
  /\ MayCall(c, "turn.send", s)
  /\ Cardinality(Unused) > Cardinality(Reserved)
  /\ active[s] = NoTurn
  /\ Enter(c, "turn.send", s, "enter", "none")
  /\ UNCHANGED <<durable, registry, watcher, process, lifecycle>>

SendUpsert(c) ==
  /\ At(c, "enter")
  /\ known' = known \cup {call[c].session}
  /\ Goto(c, "sequence")
  /\ UNCHANGED <<durable, active, watcher, process, lifecycle>>

SendSequence(c) ==
  /\ At(c, "sequence")
  /\ \E n \in {1} \cup {turnRow[t].sequence + 1 : t \in Turns} :
       /\ IsNextSequence(call[c].session, n)
       /\ call' = [call EXCEPT ![c].pc = "insert", ![c].sequence = n]
  /\ UNCHANGED <<durable, registry, watcher, process, lifecycle>>

\* UNIQUE(session_id, sequence): the loser of two inserts gets the error.
SendInsert(c) ==
  /\ At(c, "insert")
  /\ LET s == call[c].session
         n == call[c].sequence
     IN \/ /\ \A t \in TurnsOf(s) : turnRow[t].sequence # n
           /\ \E t \in Unused :
                /\ turnRow' = [turnRow EXCEPT ![t] =
                                [status |-> "queued", session |-> s, sequence |-> n]]
                /\ call' = [call EXCEPT ![c].pc = "checkpoint", ![c].turn = t,
                                        ![c].state = "queued"]
        \/ /\ \E t \in TurnsOf(s) : turnRow[t].sequence = n
           /\ Return(c)
           /\ UNCHANGED turnRow
  /\ UNCHANGED <<sessionStatus, registry, watcher, process, lifecycle>>

\* The git snapshot of the worktree is awaited, then the turn is sending.
SendCheckpoint(c) ==
  /\ At(c, "checkpoint") /\ serving
  /\ WriteTurn(call[c].turn, "sending")
  /\ call' = [call EXCEPT ![c].pc = "spawn", ![c].state = "sending"]
  /\ UNCHANGED <<sessionStatus, registry, watcher, process, lifecycle>>

SendSpawn(c) ==
  /\ At(c, "spawn")
  /\ process' = [process EXCEPT ![call[c].turn] = "running"]
  /\ Goto(c, "started")
  /\ UNCHANGED <<durable, registry, watcher, lifecycle>>

\* The provider could not be spawned: the turn fails and so does the call.
SendNotSpawned(c) ==
  /\ At(c, "spawn")
  /\ WriteTurn(call[c].turn, "failed")
  /\ Return(c)
  /\ UNCHANGED <<sessionStatus, registry, watcher, process, lifecycle>>

SendStarted(c) ==
  /\ At(c, "started")
  /\ WriteTurn(call[c].turn, "running")
  /\ call' = [call EXCEPT ![c].pc = "register", ![c].state = "running"]
  /\ UNCHANGED <<sessionStatus, registry, watcher, process, lifecycle>>

\* Between the registration and the spawn of the watcher there is no await;
\* the instant between them is like the one before the watcher has its lock.
SendRegister(c) ==
  /\ At(c, "register")
  /\ SetActive(call[c].session, call[c].turn)
  /\ watcher' = [watcher EXCEPT ![call[c].turn] = "locking"]
  /\ Return(c)
  /\ UNCHANGED <<durable, known, process, lifecycle>>

-----------------------------------------------------------------------------
(***************************************************************************)
(* turn.cancel, which shares Kill and Unregister with session.cancel.      *)
(***************************************************************************)

\* The turn is the registered one; a turnId that names another is refused.
CancelTurn(c, s) ==
  /\ MayCall(c, "turn.cancel", s)
  /\ active[s] # NoTurn
  /\ call' = [call EXCEPT ![c] =
               [method |-> "turn.cancel", pc |-> "kill", session |-> s,
                turn |-> active[s], state |-> "none", sequence |-> 0]]
  /\ UNCHANGED <<durable, registry, watcher, process, lifecycle>>

\* The row is read again after the kill; one that has ended is left alone.
CancelReread(c) ==
  /\ At(c, "reread")
  /\ LET st == turnRow[call[c].turn].status
     IN IF st \in Terminal
        THEN Return(c)
        ELSE call' = [call EXCEPT ![c].pc = "cancelled", ![c].state = st]
  /\ UNCHANGED <<durable, registry, watcher, process, lifecycle>>

\* A refused transition is ignored and the answer is "cancelled" all the same.
CancelWrite(c) ==
  /\ At(c, "cancelled")
  /\ IF TurnTransitionAllowed(call[c].state, "cancelled")
     THEN WriteTurn(call[c].turn, "cancelled")
     ELSE UNCHANGED turnRow
  /\ Return(c)
  /\ UNCHANGED <<sessionStatus, registry, watcher, process, lifecycle>>

-----------------------------------------------------------------------------
(***************************************************************************)
(* The task that watches the provider process of turn t.                   *)
(***************************************************************************)

WatchAt(t, w) == Running /\ watcher[t] = w

Watch(t, w) == watcher' = [watcher EXCEPT ![t] = w]

WatcherLock(t) ==
  /\ WatchAt(t, "locking")
  /\ Watch(t, "waiting")
  /\ UNCHANGED <<durable, registry, call, process, lifecycle>>

\* Mutation of WatcherWait: the wait gives up before the process has exited.
WaitGivesUp(t) ==
  /\ WatchAt(t, "waiting")
  /\ Watch(t, "exited")
  /\ UNCHANGED <<durable, registry, call, process, lifecycle>>

\* wait() returns the exit code and the guard is dropped.
WatcherWait(t) ==
  /\ WatchAt(t, "waiting")
  /\ process[t] # "running"
  /\ Watch(t, "exited")
  /\ UNCHANGED <<durable, registry, call, process, lifecycle>>

\* The machine starts from Running, whatever the row holds by now.
WatcherFinish(t) ==
  /\ WatchAt(t, "exited")
  /\ \/ /\ process[t] = "ok"
        /\ WriteTurn(t, "completing")
        /\ Watch(t, "completing")
     \/ /\ process[t] # "ok"
        /\ WriteTurn(t, "failed")
        /\ Watch(t, "clearing")
  /\ UNCHANGED <<sessionStatus, registry, call, process, lifecycle>>

WatcherComplete(t) ==
  /\ WatchAt(t, "completing")
  /\ WriteTurn(t, "completed")
  /\ Watch(t, "clearing")
  /\ UNCHANGED <<sessionStatus, registry, call, process, lifecycle>>

\* Mutation of WatcherClear: the turn stays registered.
ClearNothing(t) ==
  /\ WatchAt(t, "clearing")
  /\ Watch(t, "done")
  /\ UNCHANGED <<durable, registry, call, process, lifecycle>>

\* set_active_turn(session, None), even if another turn is registered by now.
WatcherClear(t) ==
  /\ WatchAt(t, "clearing")
  /\ SetActive(turnRow[t].session, NoTurn)
  /\ Watch(t, "done")
  /\ UNCHANGED <<durable, known, call, process, lifecycle>>

-----------------------------------------------------------------------------
(***************************************************************************)
(* The provider and the life of the core.                                  *)
(***************************************************************************)

\* The child of AgentTurn ends by itself, at any time, or never.  Nothing of
\* the core observes when an orphan ends.
ProviderExits(t) ==
  /\ process[t] = "running"
  /\ process' = [process EXCEPT ![t] = "failed"]
     \/ process' = [process EXCEPT ![t] = "ok"]
  /\ UNCHANGED <<durable, registry, watcher, call, lifecycle>>

\* CoreRuntime::shutdown tells the server task to stop ...
RequestShutdown ==
  /\ core = "up"
  /\ restarts < MaxRestarts
  /\ core' = "draining"
  /\ UNCHANGED <<durable, registry, watcher, call, process, serving, handles, restarts>>

\* ... which aborts the connections, whenever it gets to run ...
StopServing ==
  /\ core \in {"draining", "killing"}
  /\ serving
  /\ serving' = FALSE
  /\ UNCHANGED <<durable, registry, watcher, call, process, core, handles, restarts>>

\* ... so that a handler is dropped at its next await.
DropCall(c) ==
  /\ Running /\ ~serving
  /\ call[c].pc \in Awaits
  /\ Return(c)
  /\ UNCHANGED <<durable, registry, watcher, process, lifecycle>>

\* Meanwhile SessionRegistry::shutdown takes the registered turns ...
TakeHandles ==
  /\ core = "draining"
  /\ core' = "killing"
  /\ handles' = {active[s] : s \in known} \ {NoTurn}
  /\ active' = [s \in Sessions |-> NoTurn]
  /\ UNCHANGED <<durable, known, watcher, call, process, serving, restarts>>

\* ... and cancels them, each once its handle is free.  The code takes them
\* in the order of a hash map and waits for each; here any free one may go.
ShutdownKill(t) ==
  /\ core = "killing"
  /\ t \in handles
  /\ HandleFree(t)
  /\ process' = Killed(t)
  /\ handles' = handles \ {t}
  /\ UNCHANGED <<durable, registry, watcher, call, core, serving, restarts>>

\* What dies with the core process.
LoseMemory ==
  /\ known' = {}
  /\ active' = [s \in Sessions |-> NoTurn]
  /\ watcher' = [t \in Turns |-> "none"]
  /\ call' = [c \in Clients |-> Idle]
  /\ core' = "down"
  /\ serving' = FALSE
  /\ handles' = {}

\* The runtime drops its tasks and with them the children (kill_on_drop).
Exit ==
  /\ core = "killing"
  /\ handles = {}
  /\ LoseMemory
  /\ process' = [t \in Turns |-> IF process[t] = "running" THEN "failed" ELSE process[t]]
  /\ UNCHANGED <<durable, restarts>>

\* Nothing runs when the core is killed: its children live on.
Crash ==
  /\ core # "down"
  /\ restarts < MaxRestarts
  /\ LoseMemory
  /\ process' = [t \in Turns |-> IF process[t] = "running" THEN "orphan" ELSE process[t]]
  /\ UNCHANGED <<durable, restarts>>

\* Mutation of Restart: recovery knows neither running sessions nor turns
\* that were being sent.
RestartForgetful ==
  /\ core = "down"
  /\ core' = "up"
  /\ serving' = TRUE
  /\ restarts' = restarts + 1
  /\ sessionStatus' = [s \in Sessions |->
       IF sessionStatus[s] \in Waiting \cup {"starting"}
       THEN "disconnected" ELSE sessionStatus[s]]
  /\ turnRow' = [t \in Turns |->
       IF turnRow[t].status \in TurnState \ (Terminal \cup {"sending"})
       THEN [turnRow[t] EXCEPT !.status = "failed"] ELSE turnRow[t]]
  /\ UNCHANGED <<registry, watcher, call, process, handles>>

\* Database::recover_interrupted, one transaction before anything is served.
Restart ==
  /\ core = "down"
  /\ core' = "up"
  /\ serving' = TRUE
  /\ restarts' = restarts + 1
  /\ sessionStatus' = [s \in Sessions |->
       IF sessionStatus[s] \in Waiting \cup {"starting", "running"}
       THEN "disconnected" ELSE sessionStatus[s]]
  /\ turnRow' = [t \in Turns |->
       IF turnRow[t].status \in TurnState \ Terminal
       THEN [turnRow[t] EXCEPT !.status = "failed"] ELSE turnRow[t]]
  /\ UNCHANGED <<registry, watcher, call, process, handles>>

-----------------------------------------------------------------------------
(***************************************************************************)
(* The specification.                                                      *)
(***************************************************************************)

Request(c) ==
  \E s \in Sessions :
    \/ CreateSession(c, s) \/ StartSession(c, s) \/ CancelSession(c, s)
    \/ PauseSession(c, s) \/ ResumeSession(c, s) \/ SendTurn(c, s) \/ CancelTurn(c, s)

HandlerStep(c) ==
  \/ StartStep(c) \/ StartUpsert(c)
  \/ Lookup(c) \/ Kill(c) \/ Unregister(c) \/ SettleSession(c)
  \/ ResumePreparing(c) \/ ResumeRunning(c)
  \/ SendUpsert(c) \/ SendSequence(c) \/ SendInsert(c) \/ SendCheckpoint(c)
  \/ SendSpawn(c) \/ SendNotSpawned(c) \/ SendStarted(c) \/ SendRegister(c)
  \/ CancelReread(c) \/ CancelWrite(c)
  \/ DropCall(c)

WatcherStep(t) ==
  WatcherLock(t) \/ WatcherWait(t) \/ WatcherFinish(t) \/ WatcherComplete(t) \/ WatcherClear(t)

ShutdownStep ==
  StopServing \/ TakeHandles \/ (\E t \in Turns : ShutdownKill(t)) \/ Exit

Next ==
  \/ \E c \in Clients : Request(c) \/ HandlerStep(c)
  \/ \E t \in Turns : WatcherStep(t) \/ ProviderExits(t)
  \/ RequestShutdown \/ ShutdownStep
  \/ Crash \/ Restart

Spec == Init /\ [][Next]_vars

\* tokio keeps polling a task that can run, and someone starts the core again.
CoreFairness ==
  /\ \A c \in Clients : WF_vars(HandlerStep(c))
  /\ \A t \in Turns : WF_vars(WatcherStep(t))
  /\ WF_vars(ShutdownStep)
  /\ WF_vars(Restart)

CoreSpec == Spec /\ CoreFairness

\* An assumption about the provider, not a promise of the code: a prompt ends.
ProvidersEnd == \A t \in Turns : WF_vars(ProviderExits(t))

-----------------------------------------------------------------------------
(***************************************************************************)
(* Safety.                                                                 *)
(***************************************************************************)

Unfinished(t) == turnRow[t].status \in TurnState \ Terminal

\* Call c is the turn.send that inserted the row of t and is not done with it.
Sending(c, t) == call[c].turn = t /\ call[c].pc \in SendPoints

\* While requests are served, a turn row that says the turn is in progress has
\* somebody who will end it: the turn.send that made it, or a watcher before
\* its last write.  Neither a race of handlers nor a crash between two writes
\* leaves a turn that looks busy for ever (recover_interrupted is what fails
\* the rows of the previous run).
UnfinishedTurnsAreOwned ==
  Running /\ serving =>
    \A t \in Turns : Unfinished(t) =>
      \/ \E c \in Clients : Sending(c, t)
      \/ watcher[t] \in {"locking", "waiting", "exited", "completing"}

\* A turn whose row has ended, by completion, failure, cancellation or
\* recovery, has no provider process of this core still at work: cancel kills
\* and reaps the child before the row is written, the watcher waits first.
EndedTurnsHaveNoProcess ==
  \A t \in Turns : turnRow[t].status \in Terminal => process[t] # "running"

\* Every provider process of this core is waited for by its watcher, or by the
\* turn.send that is about to start one; none is spawned and forgotten.
LiveProcessesAreWatched ==
  \A t \in Turns : process[t] = "running" =>
    \/ watcher[t] \in {"locking", "waiting"}
    \/ \E c \in Clients : call[c].turn = t /\ call[c].pc \in {"started", "register"}

\* "completed" is the truth: the provider exited with code 0, also when a
\* cancellation or a shutdown raced the exit.
CompletedTurnsExitedCleanly ==
  \A t \in Turns : turnRow[t].status \in {"completing", "completed"} => process[t] = "ok"

\* The registration of a turn, which makes turn.send refuse another one, does
\* not outlive the turn's watcher: the session is never locked out for ever.
RegistrationsEnd ==
  \A s \in Sessions :
    active[s] # NoTurn => watcher[active[s]] \in WatcherState \ {"none", "done"}

\* A session row that says "running" or "starting" is one that this core is at
\* work on: it knows the session, or a session.start of it is on its way.  Rows
\* left by a previous run never pass for live ones, and handlers that write over
\* each other's status leave none behind.
LiveSessionsAreAttended ==
  Running => \A s \in Sessions :
    /\ sessionStatus[s] = "running" =>
         s \in known \/ \E c \in Clients : call[c].session = s /\ call[c].pc = "upsert"
    /\ sessionStatus[s] = "starting" =>
         \E c \in Clients :
           call[c].session = s /\ call[c].pc = "step" /\ call[c].state = "starting"

\* The turns of a session are numbered 1, 2, 3 ... without a gap or a
\* duplicate, although next_sequence and the insert are two statements.
TurnSequencesAreDense ==
  \A s \in Sessions : \A t \in TurnsOf(s) :
    /\ \A u \in TurnsOf(s) : turnRow[u].sequence = turnRow[t].sequence => u = t
    /\ \A n \in 1..turnRow[t].sequence : \E u \in TurnsOf(s) : turnRow[u].sequence = n

-----------------------------------------------------------------------------
(***************************************************************************)
(* Liveness, under CoreSpec.                                               *)
(***************************************************************************)

\* A turn in progress ends, whatever handlers, cancellations, shutdowns and
\* crashes do meanwhile, if providers end.
TurnsEnd ==
  ProvidersEnd => \A t \in Turns : Unfinished(t) ~> turnRow[t].status \in Terminal

\* The only thing that anybody waits for is a provider: a request is answered,
\* or its connection goes down, unless it cancels a turn whose provider works
\* on; and a shutdown comes to its end, unless it has such a turn to cancel.
RequestsAreAnswered ==
  /\ \A c \in Clients :
       (call[c].pc # "idle") ~>
         (call[c].pc = "idle" \/ (call[c].pc = "kill" /\ process[call[c].turn] = "running"))
  /\ (core = "draining") ~>
       (core = "down" \/ \E t \in handles : process[t] = "running")

-----------------------------------------------------------------------------
(***************************************************************************)
(* What comments and texts of the repository say and the code does not do. *)
(***************************************************************************)

Machine == INSTANCE SessionMachine WITH status <- sessionStatus

\* session_engine.rs: "the single authority that translates those values into
\* legal state transitions before they are written."  Two handlers of one session
\* each judge the status they read first.
SessionRowsFollowTheTable == Machine!Spec

\* "That session already has a turn in progress.": turn.send lets a session
\* have one provider at a time.
OneProviderPerSession ==
  \A t, u \in Turns :
    process[t] = "running" /\ process[u] = "running" /\ turnRow[t].session = turnRow[u].session
      => t = u

\* SessionRegistry::shutdown: "Cancel every in-flight provider turn owned by
\* the core."
ShutdownCancelsTurns ==
  (core = "killing") ~> (\A t \in Turns : process[t] # "running")

\* "Resume the agent session": a session.resume that moved the row of a
\* paused session goes on to make it running.
ResumesRun ==
  [][\A c \in Clients :
       call[c].pc = "resuming" /\ call'[c].pc = "idle" /\ Running'
         => sessionStatus'[call[c].session] = "running"]_vars

=============================================================================
