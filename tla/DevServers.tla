----------------------------- MODULE DevServers -----------------------------
(***************************************************************************)
(* The development servers of the Retcon core: their rows and port leases  *)
(* (src/crates/retcon-storage/src/dev_servers.rs), the RPC handlers that   *)
(* start and stop them (retcon-core/src/dev_servers_rpc.rs), the durable   *)
(* runtime with one monitor per instance (retcon-core/src/dev_servers.rs)  *)
(* and the supervisor of the child process                                 *)
(* (retcon-devserver/src/runtime.rs).                                      *)
(*                                                                         *)
(* A transaction of the repository is one step, and so is everything a     *)
(* task does between two awaits that another task could tell apart.  A     *)
(* scope is what owns a lease: a configuration and the task, if any.       *)
(***************************************************************************)
EXTENDS Naturals, Sequences

CONSTANTS
  Clients,       \* RPC connections
  Scopes,        \* configurations, each with a task or without
  Ports,         \* ports that may be leased
  NoPort,        \* no port, as of a server that has not been started
  Preferred,     \* preferred_port of each scope, or NoPort
  AutoStarts,    \* the sets of scopes that may be marked auto_start at a start
  NoCaller,      \* nobody holds the control mutex
  Endings,       \* bound: the ways the core may come to an end
  MaxInstances   \* bound: how many instances are prepared

ASSUME PortAssumption == Ports \subseteq Nat /\ NoPort \notin Ports
ASSUME PreferredAssumption == Preferred \in [Scopes -> Ports \cup {NoPort}]
ASSUME AutoStartAssumption == AutoStarts \subseteq SUBSET Scopes
ASSUME CallerAssumption == "auto" \notin Clients /\ "main" \notin Clients /\ NoCaller \notin Clients
                           /\ NoCaller # "auto" /\ NoCaller # "main"
ASSUME BoundAssumption == MaxInstances \in Nat /\ Endings \subseteq {"shutdown", "crash"}

VARIABLES
  rows,       \* table dev_server_instances, by created_at
  leases,     \* the active rows of table dev_server_port_leases, by owner
  servers,    \* the DevServer of each instance, its child and its monitor
  call,       \* what each caller of the runtime is doing
  autoLeft,   \* scopes auto_start has still to start
  stopLeft,   \* instances shutdown_all has still to stop
  core        \* whether the core is up, shutting down or not running

vars == <<rows, leases, servers, call, autoLeft, stopLeft, core>>

-----------------------------------------------------------------------------
(***************************************************************************)
(* State.                                                                  *)
(***************************************************************************)

Ids == 1..MaxInstances
NoInstance == 0

\* Connections, the task that auto-starts, and the one that shuts down.
Callers == Clients \cup {"auto", "main"}

\* Statuses of instances that count as active, and all of them.
ActiveStatus == {"starting", "running", "stopping"}
Status == ActiveStatus \cup {"stopped", "failed", "orphaned"}

Row == [scope: Scopes, port: Ports, status: Status]

\* instance is NoInstance for a port that was assigned and is not in use.
Lease == [port: Ports \cup {NoPort}, instance: Ids \cup {NoInstance}]
NoLease == [port |-> NoPort, instance |-> NoInstance]

\* watched: the instance is in the map of active servers and has its monitor.
\* control, handle: the mutex of the DevServer and whether it still has the run.
\* child, port, startup, stop: the process, the port it was given, what was
\* answered to start, and whether it was told to stop.  event is the first of
\* the events after which the monitor leaves.
Server == [watched: BOOLEAN, control: Callers \cup {NoCaller}, handle: BOOLEAN,
           child: {"none", "starting", "ready", "gone"}, port: Ports \cup {NoPort},
           startup: {"waiting", "ok", "failed"}, stop: BOOLEAN,
           event: {"none", "StartupFailed", "Exited", "Crashed", "Stopped"}]

NoServer == [watched |-> FALSE, control |-> NoCaller, handle |-> FALSE,
             child |-> "none", port |-> NoPort, startup |-> "waiting",
             stop |-> FALSE, event |-> "none"]

\* Where a caller waits for another task.
AwaitPoints == {"control", "startup", "lock", "join", "terminal"}
Points == AwaitPoints \cup {"idle", "launch", "started", "report", "lookup",
                            "failed", "stopped", "next"}

\* then is where the caller goes on after it has stopped the runtime.
Call == [pc: Points, instance: Ids \cup {NoInstance}, then: {"failed", "stopped"}]
Idle == [pc |-> "idle", instance |-> NoInstance, then |-> "failed"]

TypeOK ==
  /\ rows \in Seq(Row) /\ Len(rows) <= MaxInstances
  /\ leases \in [Scopes -> Lease]
  /\ servers \in [Ids -> Server]
  /\ call \in [Callers -> Call]
  /\ autoLeft \subseteq Scopes /\ stopLeft \subseteq Ids
  /\ core \in {"up", "stopping", "down"}

Init ==
  /\ rows = <<>>
  /\ leases = [s \in Scopes |-> NoLease]
  /\ servers = [i \in Ids |-> NoServer]
  /\ call = [c \in Callers |-> Idle]
  /\ autoLeft \in AutoStarts
  /\ stopLeft = {}
  /\ core = "up"

-----------------------------------------------------------------------------
(***************************************************************************)
(* The repository.                                                         *)
(***************************************************************************)

Rows == DOMAIN rows

\* The query of prepare_start, assign_port and release_port.
Busy(s) ==
  \E i \in Rows :
    /\ rows[i].scope = s
    /\ \/ rows[i].status \in ActiveStatus
       \/ rows[i].status = "orphaned" /\ \E t \in Scopes : leases[t].instance = i

Leased(p) == \E s \in Scopes : leases[s].port = p

\* The port a start of the scope takes: the one it has, the preferred one if it
\* is free, or else the first that is (find_available_port).
PortFor(s, p) ==
  IF leases[s] # NoLease THEN p = leases[s].port
  ELSE /\ p \in Ports /\ ~Leased(p)
       /\ \/ p = Preferred[s]
          \/ /\ Preferred[s] = NoPort \/ Leased(Preferred[s])
             /\ \A q \in Ports : Leased(q) \/ p <= q

\* UPDATE dev_server_port_leases SET status='released' WHERE instance_id=..
Released(i) == [s \in Scopes |-> IF leases[s].instance = i THEN NoLease ELSE leases[s]]

\* transition: the moves it permits.
Permits(from, to) ==
  \/ to = "running" /\ from = "starting"
  \/ to = "stopping" /\ from \in {"starting", "running"}
  \/ to = "stopped" /\ from = "stopping"
  \/ to \in {"failed", "orphaned"} /\ from \in ActiveStatus

Move(i, to) ==
  /\ rows' = [rows EXCEPT ![i].status = to]
  /\ leases' = IF to \in {"stopped", "failed"} THEN Released(i) ELSE leases

\* A transition whose error nobody acts on.
TryMove(i, to) ==
  IF Permits(rows[i].status, to) THEN Move(i, to) ELSE UNCHANGED <<rows, leases>>

-----------------------------------------------------------------------------
(***************************************************************************)
(* Callers.                                                                *)
(***************************************************************************)

At(c, p) == call[c].pc = p
Mine(c) == call[c].instance

Goto(c, p) == call' = [call EXCEPT ![c].pc = p]

\* auto_start and shutdown_all go on with the next one, an RPC is answered.
Return(c) ==
  call' = [call EXCEPT ![c] = IF c = "main" THEN [Idle EXCEPT !.pc = "next"] ELSE Idle]

Runs == core # "down"

\* Who may call start: a connection, or the auto-start for what is left.
MayStart(c, s) == c \in Clients \/ (c = "auto" /\ s \in autoLeft)

NotAutoLeft(c, s) == autoLeft' = IF c = "auto" THEN autoLeft \ {s} ELSE autoLeft

\* devServer.start: prepare_start writes the row and takes or keeps a lease.
PrepareStart(c, s, p) ==
  LET i == Len(rows) + 1
  IN /\ Runs /\ At(c, "idle") /\ MayStart(c, s)
     /\ i \in Ids
     /\ ~Busy(s) /\ PortFor(s, p)
     /\ rows' = Append(rows, [scope |-> s, port |-> p, status |-> "starting"])
     /\ leases' = [leases EXCEPT ![s] = [port |-> p, instance |-> i]]
     /\ call' = [call EXCEPT ![c] = [Idle EXCEPT !.pc = "launch", !.instance = i]]
     /\ NotAutoLeft(c, s)
     /\ UNCHANGED <<servers, stopLeft, core>>

\* prepare_start is refused: the scope has an active instance, or no port is
\* free.  Only the auto-start changes by that.
AutoStartFails(s) ==
  /\ Runs /\ At("auto", "idle") /\ s \in autoLeft
  /\ Busy(s) \/ \A p \in Ports : ~PortFor(s, p)
  /\ autoLeft' = autoLeft \ {s}
  /\ UNCHANGED <<rows, leases, servers, call, stopLeft, core>>

\* start_instance puts the server into the map and spawns its monitor.
Launch(c) ==
  /\ At(c, "launch")
  /\ servers' = [servers EXCEPT ![Mine(c)].watched = TRUE]
  /\ Goto(c, "control")
  /\ UNCHANGED <<rows, leases, autoLeft, stopLeft, core>>

\* The root, the command or the host of the configuration is of no use.
LaunchRefused(c) ==
  /\ At(c, "launch")
  /\ Goto(c, "failed")
  /\ UNCHANGED <<rows, leases, servers, autoLeft, stopLeft, core>>

Claimed(p) == \E j \in Ids : servers[j].child \in {"starting", "ready"} /\ servers[j].port = p

\* DevServer::start takes the mutex, reserves the requested port or another one
\* and spawns the supervisor.  Any port may be bound by another program.
StartServer(c, p) ==
  LET i == Mine(c)
  IN /\ At(c, "control")
     /\ servers[i].control = NoCaller
     /\ p \in Ports /\ ~Claimed(p)
     /\ servers' = [servers EXCEPT ![i].control = c, ![i].handle = TRUE,
                                   ![i].child = "starting", ![i].port = p]
     /\ Goto(c, "startup")
     /\ UNCHANGED <<rows, leases, autoLeft, stopLeft, core>>

\* No port can be reserved: start fails without an event.
NoPortToReserve(c) ==
  /\ At(c, "control")
  /\ servers[Mine(c)].control = NoCaller
  /\ Goto(c, "lock")
  /\ UNCHANGED <<rows, leases, servers, autoLeft, stopLeft, core>>

\* The supervisor has answered.  After a failure start_instance stops the server.
Startup(c) ==
  LET i == Mine(c)
  IN /\ At(c, "startup")
     /\ servers[i].startup # "waiting"
     /\ servers' = [servers EXCEPT ![i].control = NoCaller,
                      ![i].handle = @ /\ servers[i].startup = "ok"]
     /\ Goto(c, IF servers[i].startup = "ok" THEN "started" ELSE "lock")
     /\ UNCHANGED <<rows, leases, autoLeft, stopLeft, core>>

\* What reassign_instance_port asks for.
MayMoveTo(i, p) ==
  /\ rows[i].status = "starting"
  /\ ~\E s \in Scopes : leases[s].port = p /\ leases[s].instance # i
  /\ \E s \in Scopes : leases[s].instance = i

\* A server on another port than the row says takes the lease with it.
Reassign(c) ==
  LET i == Mine(c)
      p == servers[i].port
  IN /\ At(c, "started")
     /\ \/ /\ rows[i].port = p
           /\ Goto(c, "report")
           /\ UNCHANGED <<rows, leases>>
        \/ /\ rows[i].port # p /\ MayMoveTo(i, p)
           /\ rows' = [rows EXCEPT ![i].port = p]
           /\ leases' = [s \in Scopes |-> IF leases[s].instance = i
                                          THEN [port |-> p, instance |-> i] ELSE leases[s]]
           /\ Goto(c, "report")
        \/ /\ rows[i].port # p /\ ~MayMoveTo(i, p)
           /\ Goto(c, "lock")
           /\ UNCHANGED <<rows, leases>>
     /\ UNCHANGED <<servers, autoLeft, stopLeft, core>>

\* Mutation of MarkRunning: a row that is refused is an error of the answer only.
MarkRunningOnly(c) ==
  LET i == Mine(c)
  IN /\ At(c, "report")
     /\ TryMove(i, "running")
     /\ Return(c)
     /\ UNCHANGED <<servers, autoLeft, stopLeft, core>>

\* The handler of start validates the report, whose URL has to be of the port of
\* the row, and writes the row; otherwise it stops the server again.
MarkRunning(c) ==
  LET i == Mine(c)
  IN /\ At(c, "report")
     /\ IF servers[i].port = rows[i].port /\ Permits(rows[i].status, "running")
        THEN Move(i, "running") /\ Return(c)
        ELSE Goto(c, "lookup") /\ UNCHANGED <<rows, leases>>
     /\ UNCHANGED <<servers, autoLeft, stopLeft, core>>

\* The URL the server printed is not one of a local preview.
ReportRefused(c) ==
  /\ At(c, "report")
  /\ Goto(c, "lookup")
  /\ UNCHANGED <<rows, leases, servers, autoLeft, stopLeft, core>>

\* mark_failed, whose error is ignored.
MarkFailed(c) ==
  /\ At(c, "failed")
  /\ TryMove(Mine(c), "failed")
  /\ Return(c)
  /\ UNCHANGED <<servers, autoLeft, stopLeft, core>>

-----------------------------------------------------------------------------
(***************************************************************************)
(* Stopping a server, by devServer.stop, by a start that fails and by the  *)
(* shutdown.                                                               *)
(***************************************************************************)

\* devServer.stop: begin_stop writes the row, or refuses and nothing happens.
BeginStop(c, i) ==
  /\ Runs /\ c \in Clients /\ At(c, "idle")
  /\ Permits(rows[i].status, "stopping")
  /\ Move(i, "stopping")
  /\ call' = [call EXCEPT ![c] = [pc |-> "lookup", instance |-> i, then |-> "stopped"]]
  /\ UNCHANGED <<servers, autoLeft, stopLeft, core>>

\* stop_instance asks the map.  Without an entry it reads the logs that were kept.
Lookup(c) ==
  /\ At(c, "lookup")
  /\ Goto(c, IF servers[Mine(c)].watched THEN "lock" ELSE call[c].then)
  /\ UNCHANGED <<rows, leases, servers, autoLeft, stopLeft, core>>

\* devServer.stop cannot read them, and quarantines the instance.
LogsUnread(c) ==
  LET i == Mine(c)
  IN /\ At(c, "lookup") /\ call[c].then = "stopped" /\ ~servers[i].watched
     /\ TryMove(i, "orphaned")
     /\ Return(c)
     /\ UNCHANGED <<servers, autoLeft, stopLeft, core>>

\* Mutation of StopServer: the supervisor is not told.
StopUntold(c) ==
  LET i == Mine(c)
  IN /\ At(c, "lock")
     /\ servers[i].control = NoCaller
     /\ IF servers[i].handle
        THEN /\ servers' = [servers EXCEPT ![i].control = c, ![i].handle = FALSE]
             /\ Goto(c, "join")
        ELSE /\ Goto(c, "terminal")
             /\ UNCHANGED servers
     /\ UNCHANGED <<rows, leases, autoLeft, stopLeft, core>>

\* DevServer::stop takes the mutex and the run.  A stopped runtime is a no-op.
StopServer(c) ==
  LET i == Mine(c)
  IN /\ At(c, "lock")
     /\ servers[i].control = NoCaller
     /\ IF servers[i].handle
        THEN /\ servers' = [servers EXCEPT ![i].control = c, ![i].handle = FALSE,
                                           ![i].stop = TRUE]
             /\ Goto(c, "join")
        ELSE /\ Goto(c, "terminal")
             /\ UNCHANGED servers
     /\ UNCHANGED <<rows, leases, autoLeft, stopLeft, core>>

\* The supervisor has ended, and the mutex is given back.
Join(c) ==
  LET i == Mine(c)
  IN /\ At(c, "join")
     /\ servers[i].child = "gone"
     /\ servers' = [servers EXCEPT ![i].control = NoCaller]
     /\ Goto(c, "terminal")
     /\ UNCHANGED <<rows, leases, autoLeft, stopLeft, core>>

\* wait_for_terminal waits for the monitor, but for five seconds at most.
Waited(c) ==
  /\ At(c, "terminal")
  /\ Goto(c, call[c].then)
  /\ UNCHANGED <<rows, leases, servers, autoLeft, stopLeft, core>>

\* The logs are kept and the row is written.
MarkStopped(c) ==
  LET i == Mine(c)
  IN /\ At(c, "stopped")
     /\ IF Permits(rows[i].status, "stopped") \/ c = "main"
        THEN TryMove(i, "stopped")
        ELSE TryMove(i, "failed")
     /\ Return(c)
     /\ UNCHANGED <<servers, autoLeft, stopLeft, core>>

\* The logs cannot be kept.
LogsNotKept(c) ==
  /\ At(c, "stopped") /\ c \in Clients
  /\ TryMove(Mine(c), "failed")
  /\ Return(c)
  /\ UNCHANGED <<servers, autoLeft, stopLeft, core>>

-----------------------------------------------------------------------------
(***************************************************************************)
(* Ports.                                                                  *)
(***************************************************************************)

\* Mutation of AssignPort: a scope may always have another port.
AssignPortAnyway(c, s, p) ==
  /\ Runs /\ At(c, "idle")
  /\ ~Leased(p)
  /\ leases' = [leases EXCEPT ![s] = [port |-> p, instance |-> NoInstance]]
  /\ UNCHANGED <<rows, servers, call, autoLeft, stopLeft, core>>

\* devServer.port.assign
AssignPort(c, s, p) ==
  /\ Runs /\ At(c, "idle")
  /\ ~Busy(s) /\ ~Leased(p)
  /\ leases' = [leases EXCEPT ![s] = [port |-> p, instance |-> NoInstance]]
  /\ UNCHANGED <<rows, servers, call, autoLeft, stopLeft, core>>

\* devServer.port.release
ReleasePort(c, s) ==
  /\ Runs /\ At(c, "idle")
  /\ ~Busy(s)
  /\ leases' = [leases EXCEPT ![s] = NoLease]
  /\ UNCHANGED <<rows, servers, call, autoLeft, stopLeft, core>>

-----------------------------------------------------------------------------
(***************************************************************************)
(* The supervisor of the child, and the monitor.                           *)
(***************************************************************************)

\* The monitor leaves after the first of these events.
Emitted(i, e) == IF servers[i].event = "none" THEN e ELSE servers[i].event

\* Spawning fails, the child exits before it is ready, or it never gets ready.
StartupFails(i) ==
  /\ servers[i].child = "starting"
  /\ servers' = [servers EXCEPT ![i].child = "gone", ![i].startup = "failed",
                                ![i].event = Emitted(i, "StartupFailed")]
  /\ UNCHANGED <<rows, leases, call, autoLeft, stopLeft, core>>

BecomesReady(i) ==
  /\ servers[i].child = "starting"
  /\ servers' = [servers EXCEPT ![i].child = "ready", ![i].startup = "ok"]
  /\ UNCHANGED <<rows, leases, call, autoLeft, stopLeft, core>>

\* The child comes to its end by itself.
Ends(i, e) ==
  /\ servers[i].child = "ready"
  /\ servers' = [servers EXCEPT ![i].child = "gone", ![i].event = Emitted(i, e)]
  /\ UNCHANGED <<rows, leases, call, autoLeft, stopLeft, core>>

\* The child is killed, as it was told to stop.
Terminated(i) ==
  /\ servers[i].stop /\ servers[i].child \in {"starting", "ready"}
  /\ servers' = [servers EXCEPT ![i].child = "gone", ![i].event = Emitted(i, "Stopped"),
                   ![i].startup = IF @ = "waiting" THEN "failed" ELSE @]
  /\ UNCHANGED <<rows, leases, call, autoLeft, stopLeft, core>>

\* Mutation of Monitor: a crash is recorded as an exit.
MonitorExits(i) ==
  /\ servers[i].watched /\ servers[i].event # "none"
  /\ IF servers[i].event \in {"Exited", "Crashed"} /\ rows[i].status = "running"
     THEN Move(i, "stopped")
     ELSE UNCHANGED <<rows, leases>>
  /\ servers' = [servers EXCEPT ![i].watched = FALSE]
  /\ UNCHANGED <<call, autoLeft, stopLeft, core>>

\* monitor_instance: mark_failed or mark_exited, and the entry is removed.
Monitor(i) ==
  /\ servers[i].watched /\ servers[i].event # "none"
  /\ CASE servers[i].event = "Crashed" -> TryMove(i, "failed")
       [] servers[i].event = "Exited" /\ rows[i].status = "running" -> Move(i, "stopped")
       [] OTHER -> UNCHANGED <<rows, leases>>
  /\ servers' = [servers EXCEPT ![i].watched = FALSE]
  /\ UNCHANGED <<call, autoLeft, stopLeft, core>>

-----------------------------------------------------------------------------
(***************************************************************************)
(* Shutdown, crash and restart of the core.                                *)
(***************************************************************************)

BeginShutdown ==
  /\ "shutdown" \in Endings /\ core = "up"
  /\ core' = "stopping"
  /\ UNCHANGED <<rows, leases, servers, call, autoLeft, stopLeft>>

\* abort_all drops the handler of a connection where it waits, with the guard
\* of the mutex if it has it.
Abort(c) ==
  LET i == Mine(c)
  IN /\ core = "stopping" /\ c \in Clients /\ call[c].pc \in AwaitPoints
     /\ servers' = IF servers[i].control = c
                   THEN [servers EXCEPT ![i].control = NoCaller] ELSE servers
     /\ call' = [call EXCEPT ![c] = Idle]
     /\ UNCHANGED <<rows, leases, autoLeft, stopLeft, core>>

\* shutdown_all copies the map.
ListServers ==
  /\ core = "stopping" /\ At("main", "idle")
  /\ stopLeft' = {i \in Ids : servers[i].watched}
  /\ Goto("main", "next")
  /\ UNCHANGED <<rows, leases, servers, autoLeft, core>>

\* shutdown_all: begin_stop, whose error is ignored, and the stop of the server.
StopNext(i) ==
  /\ At("main", "next") /\ i \in stopLeft
  /\ TryMove(i, "stopping")
  /\ stopLeft' = stopLeft \ {i}
  /\ call' = [call EXCEPT !["main"] = [pc |-> "lock", instance |-> i, then |-> "stopped"]]
  /\ UNCHANGED <<servers, autoLeft, core>>

\* What there was in memory is gone.
Down ==
  /\ core' = "down"
  /\ servers' = [i \in Ids |-> NoServer]
  /\ call' = [c \in Callers |-> Idle]
  /\ autoLeft' = {} /\ stopLeft' = {}
  /\ UNCHANGED <<rows, leases>>

\* The process of the core exits, and its children are killed.
Exit == At("main", "next") /\ stopLeft = {} /\ Down

\* The core is killed.  Its children outlive it, as programs that hold a port.
Crash == "crash" \in Endings /\ Runs /\ Down

\* Mutation of Restart: instances that were running are not looked for.
RestartRunning(auto) ==
  /\ core = "down"
  /\ core' = "up"
  /\ rows' = [i \in Rows |-> IF rows[i].status \in {"starting", "stopping"}
                             THEN [rows[i] EXCEPT !.status = "orphaned"] ELSE rows[i]]
  /\ leases' = [s \in Scopes |-> IF leases[s].instance # NoInstance THEN NoLease ELSE leases[s]]
  /\ autoLeft' = auto
  /\ UNCHANGED <<servers, call, stopLeft>>

\* recover_interrupted: what was active is orphaned, and its leases are stale.
Restart(auto) ==
  /\ core = "down"
  /\ core' = "up"
  /\ rows' = [i \in Rows |-> IF rows[i].status \in ActiveStatus
                             THEN [rows[i] EXCEPT !.status = "orphaned"] ELSE rows[i]]
  /\ leases' = [s \in Scopes |-> IF leases[s].instance # NoInstance THEN NoLease ELSE leases[s]]
  /\ autoLeft' = auto
  /\ UNCHANGED <<servers, call, stopLeft>>

-----------------------------------------------------------------------------
(***************************************************************************)
(* The specification.                                                      *)
(***************************************************************************)

\* What a caller does once it has begun.
Work(c) ==
  \/ Launch(c) \/ LaunchRefused(c) \/ \E p \in Ports : StartServer(c, p)
  \/ NoPortToReserve(c) \/ Startup(c) \/ Reassign(c) \/ MarkRunning(c) \/ ReportRefused(c)
  \/ MarkFailed(c) \/ Lookup(c) \/ LogsUnread(c) \/ StopServer(c) \/ Join(c) \/ Waited(c)
  \/ MarkStopped(c) \/ LogsNotKept(c)

\* What the clients ask for.
Request(c) ==
  \/ \E s \in Scopes : \/ \E p \in Ports : PrepareStart(c, s, p) \/ AssignPort(c, s, p)
                       \/ ReleasePort(c, s)
  \/ \E i \in Rows : BeginStop(c, i)

AutoStart ==
  \E s \in Scopes : AutoStartFails(s) \/ \E p \in Ports : PrepareStart("auto", s, p)

Supervise(i) == StartupFails(i) \/ BecomesReady(i) \/ Terminated(i)

Shutdown == ListServers \/ (\E i \in Ids : StopNext(i)) \/ Exit

Next ==
  \/ \E c \in Clients : Request(c) \/ Abort(c)
  \/ AutoStart
  \/ \E c \in Callers : Work(c)
  \/ \E i \in Ids : Supervise(i) \/ Monitor(i) \/ \E e \in {"Exited", "Crashed"} : Ends(i, e)
  \/ BeginShutdown \/ Shutdown \/ Crash
  \/ \E auto \in AutoStarts : Restart(auto)

\* Handlers go on, a startup has a timeout, a child that is killed dies, and a
\* shutdown goes on.  Nobody has to call, and no child has to end by itself.
Fairness ==
  /\ \A c \in Callers : WF_vars(Work(c))
  /\ \A i \in Ids : WF_vars(Supervise(i)) /\ WF_vars(Monitor(i))
  /\ WF_vars(Shutdown)

Spec == Init /\ [][Next]_vars /\ Fairness

-----------------------------------------------------------------------------
(***************************************************************************)
(* Properties.                                                             *)
(***************************************************************************)

\* While an instance is starting, running or stopping it has the lease of its
\* scope, on the port of its row: whoever assigns, releases or reassigns ports
\* meanwhile, whoever else stops it, and whenever the core was killed.
ActiveInstancesHoldTheirLease ==
  \A i \in Rows : rows[i].status \in ActiveStatus =>
    leases[rows[i].scope] = [port |-> rows[i].port, instance |-> i]

\* No port has two active leases: what idx_dev_server_active_port asks for is
\* never put to the test.
PortsAreLeasedOnce ==
  \A s, t \in Scopes : leases[s].port = leases[t].port /\ leases[s] # NoLease => s = t

\* An instance that is running was ready on the port of its row, which is the
\* one it has leased (reassign_instance_port, validate_runtime_report).
RunningServersServeTheirPort ==
  \A i \in Rows : rows[i].status = "running" /\ core # "down" =>
    servers[i].startup = "ok" /\ servers[i].port = rows[i].port

\* A crash is written to the row before the monitor leaves, whatever the row
\* was at that time (monitor_instance).
CrashesAreRecorded ==
  \A i \in Rows : servers[i].event = "Crashed" /\ ~servers[i].watched =>
    rows[i].status \notin ActiveStatus

\* What has stopped, failed or been quarantined stays so, although up to four
\* tasks may write the end of an instance.
EndsAreFinal ==
  [][\A i \in Rows : rows[i].status \notin ActiveStatus => rows'[i] = rows[i]]_vars

Is(i, statuses) == i \in Rows /\ rows[i].status \in statuses

\* What is ended comes to its end: no instance is left starting or stopping, unless
\* the core goes down, and the child of one that has stopped or failed is ended,
\* even if the stop came before the start had a child to stop (stop_instance, and
\* the stop of a start whose row was refused).
InstancesSettle ==
  \A i \in Ids :
    /\ Is(i, {"starting", "stopping"}) ~> (core = "down" \/ ~Is(i, {"starting", "stopping"}))
    /\ Is(i, {"stopped", "failed"}) ~> servers[i].child \in {"none", "gone"}

\* Every call is answered: the mutex that start and stop wait for comes free.
CallsAreAnswered == \A c \in Clients : ~At(c, "idle") ~> At(c, "idle")

\* "Connects standalone processes to durable instances" (DurableDevServerRuntime):
\* the row of a server that runs has a monitor that will record its end.
RunningServersAreWatched ==
  \A i \in Rows : rows[i].status = "running" /\ core # "down" => servers[i].watched

=============================================================================
