---------------------------- MODULE Verification ----------------------------
(***************************************************************************)
(* Verification runs of the Retcon core and the tasks they are about: the  *)
(* transactions of src/crates/retcon-storage/src/verification.rs, the      *)
(* handlers of retcon-core/src/verification_rpc.rs, and the runner that    *)
(* executes the gates of a run (retcon-core/src/verification.rs,           *)
(* retcon-verification/src/execute.rs).                                    *)
(*                                                                         *)
(* The runner is a task of its own for each run.  A handler and a runner   *)
(* take one step for every transaction, lock and await.                    *)
(***************************************************************************)
EXTENDS TaskPlanning

CONSTANTS
  Commands,     \* verification commands, in the order of gate_order
  Required,     \* the commands whose gates are required
  Detected,     \* what detect_gates may find in a project
  Configured,   \* the sets of commands that clients configure
  Selections,   \* the selections of commands that clients verify with
  Answers,      \* the results clients record for a gate
  MaxRuns,      \* bound: how many runs are created
  MaxRestarts   \* bound: how often the core is killed and started again

ASSUME CommandAssumption ==
  /\ Commands \subseteq Nat /\ Required \subseteq Commands
  /\ Detected \cup Configured \cup Selections \subseteq SUBSET Commands
ASSUME RunBoundAssumption == MaxRuns \in Nat /\ MaxRestarts \in Nat

VARIABLES
  commands,   \* table project_verification_commands, those that are enabled
  runs,       \* table verification_runs with verification_gates, by created_at
  runner,     \* the task that executes each run
  call,       \* what the handler of each connection is doing
  restarts    \* how often the core has been started again

verificationVars == <<commands, runs, runner, call, restarts>>
vars == <<planningVars, verificationVars>>

-----------------------------------------------------------------------------
(***************************************************************************)
(* State.                                                                  *)
(***************************************************************************)

Ids == 1..MaxRuns
NoRun == 0

\* GATE_RESULTS, and what a gate is before it has one of them.
GateResults == {"passed", "failed", "skipped", "error"}
ASSUME AnswerAssumption == Answers \subseteq GateResults
GateStatus == GateResults \cup {"none", "pending", "cancelled"}

EndedStatus == {"passed", "failed", "cancelled", "error"}
RunStatus == EndedStatus \cup {"queued", "running", "deleted"}

\* A gate that is not part of the run is "none".
Run == [task: Tasks, status: RunStatus, gates: [Commands -> GateStatus]]

\* pc is where execute_run is, left are the gates it has not recorded, result
\* is that of its current gate; child is the process of the gate.
Runner == [pc: {"none", "root", "next", "execute", "capture", "record", "skip",
                "finish", "cancel", "remove", "done"},
           left: SUBSET Commands, result: {"passed", "failed", "error", "cancelled"},
           cancelled: BOOLEAN, child: BOOLEAN]
NoRunner == [pc |-> "none", left |-> {}, result |-> "passed",
             cancelled |-> FALSE, child |-> FALSE]

\* A handler between two of its steps; seen is the status it has read.
Call == [pc: {"idle", "detect", "create", "get", "start", "abandon", "signal"},
         run: Ids \cup {NoRun}, task: Tasks \cup {Nothing}, project: Projects \cup {Nothing},
         kinds: SUBSET Commands, seen: RunStatus]
Idle == [pc |-> "idle", run |-> NoRun, task |-> Nothing, project |-> Nothing,
         kinds |-> {}, seen |-> "queued"]

TypeOK ==
  /\ PlanningTypeOK
  /\ commands \in [Projects -> SUBSET Commands]
  /\ runs \in Seq(Run) /\ Len(runs) <= MaxRuns
  /\ runner \in [Ids -> Runner]
  /\ call \in [Clients -> Call]
  /\ restarts \in 0..MaxRestarts

Init ==
  /\ PlanningInit
  /\ commands = [p \in Projects |-> {}]
  /\ runs = <<>>
  /\ runner = [r \in Ids |-> NoRunner]
  /\ call = [c \in Clients |-> Idle]
  /\ restarts = 0

-----------------------------------------------------------------------------
(***************************************************************************)
(* The repository.                                                         *)
(***************************************************************************)

RunIds == DOMAIN runs

Latest(t) == {r \in RunIds : runs[r].task = t /\ \A q \in RunIds : runs[q].task = t => q <= r}

\* SELECT g.id FROM verification_gates .. of completion_blockers.
UnverifiedGates(t) ==
  {g \in Required : \E r \in Latest(t) :
     /\ runs[r].gates[g] # "none" /\ runs[r].status # "deleted"
     /\ runs[r].status # "passed" \/ runs[r].gates[g] # "passed"}

RequiredOf(r) == {g \in Required : runs[r].gates[g] # "none"}

\* replace_commands.
ReplaceCommands(p, new) == commands' = [commands EXCEPT ![p] = new]

\* The commands of a run: all, or the selected ones and those that are required.
Selected(p, kinds) ==
  {g \in commands[p] : g \in Required \/ kinds = {} \/ g \in kinds}

\* Mutation of ReopenedBy: a new run leaves the task as it is.
LeaveTask(t, gates) == tasks

\* What create_run, record_gate, finish and cancel do to the task.
ReopenedBy(t, gates) == IF gates # {} THEN Reopened(t) ELSE tasks

\* create_run for a task with a project; created_at is larger than of any run before.
InsertRun(t, kinds) ==
  LET gates == Selected(tasks[t].project, kinds)
  IN /\ Len(runs) < MaxRuns
     /\ gates # {}
     /\ runs' = Append(runs, [task |-> t, status |-> "queued",
                  gates |-> [g \in Commands |-> IF g \in gates THEN "pending" ELSE "none"]])
     /\ tasks' = ReopenedBy(t, gates \cap Required)

\* What record_gate asks for.
MayRecord(r, g) == runs[r].status = "running" /\ runs[r].gates[g] # "none"

\* start.
WriteStart(r) ==
  /\ runs[r].status = "queued"
  /\ runs' = [runs EXCEPT ![r].status = "running"]

\* record_gate.
WriteGate(r, g, status) ==
  /\ runs' = [runs EXCEPT ![r].gates[g] = status]
  /\ tasks' = ReopenedBy(runs[r].task, IF status = "passed" THEN {} ELSE {g} \cap Required)

\* What finish asks for.
MayFinish(r) ==
  runs[r].status = "running" /\ \A g \in RequiredOf(r) : runs[r].gates[g] # "pending"

\* Mutation of FailedGates: a gate that was skipped has not failed.
NotSkipped(r) == {g \in RequiredOf(r) : runs[r].gates[g] \notin {"passed", "skipped"}}

FailedGates(r) == {g \in RequiredOf(r) : runs[r].gates[g] # "passed"}

\* finish.
WriteFinish(r) ==
  /\ runs' = [runs EXCEPT ![r].status = IF FailedGates(r) = {} THEN "passed" ELSE "failed"]
  /\ tasks' = ReopenedBy(runs[r].task, FailedGates(r))

MayCancel(r) == runs[r].status \in {"queued", "running"}

\* cancel.
WriteCancel(r) ==
  /\ runs' = [runs EXCEPT ![r].status = "cancelled",
                ![r].gates = [g \in Commands |-> IF @[g] = "pending" THEN "cancelled" ELSE @[g]]]
  /\ tasks' = ReopenedBy(runs[r].task, RequiredOf(r))

\* A cancel whose error nobody acts on.
TryCancel(r) == IF MayCancel(r) THEN WriteCancel(r) ELSE UNCHANGED <<runs, tasks>>

-----------------------------------------------------------------------------
(***************************************************************************)
(* Handlers.                                                               *)
(***************************************************************************)

At(c, p) == call[c].pc = p
Ready(c) == At(c, "idle") /\ Free(c)
Goto(c, p) == call' = [call EXCEPT ![c].pc = p]
Return(c) == call' = [call EXCEPT ![c] = Idle]

Untouched == UNCHANGED <<deps, plans, criteria, creating, restarts>>

\* verification.commands.configure.
ConfigureCommands(c, p, new) ==
  /\ Ready(c)
  /\ ReplaceCommands(p, new)
  /\ UNCHANGED <<tasks, runs, runner, call>> /\ Untouched

\* verification.create reads the task, and ensure_default_commands its commands.
VerifyTask(c, t, kinds) ==
  LET p == tasks[t].project
  IN /\ Ready(c) /\ Exists(t) /\ p # Nothing
     /\ call' = [call EXCEPT ![c] = [Idle EXCEPT !.task = t, !.project = p, !.kinds = kinds,
                   !.pc = IF commands[p] = {} THEN "detect" ELSE "create"]]
     /\ UNCHANGED <<tasks, commands, runs, runner>> /\ Untouched

\* verification.commands.list installs commands as well.
ListCommands(c, p) ==
  /\ Ready(c) /\ commands[p] = {}
  /\ call' = [call EXCEPT ![c] = [Idle EXCEPT !.pc = "detect", !.project = p]]
  /\ UNCHANGED <<tasks, commands, runs, runner>> /\ Untouched

\* ensure_default_commands installs what it has detected, or gives up.
InstallDetected(c, found) ==
  /\ At(c, "detect")
  /\ IF found = {} THEN UNCHANGED commands ELSE ReplaceCommands(call[c].project, found)
  /\ IF found = {} \/ call[c].task = Nothing THEN Return(c) ELSE Goto(c, "create")
  /\ UNCHANGED <<tasks, runs, runner>> /\ Untouched

\* verification.rerun reads the run it is to repeat.
Rerun(c, r) ==
  /\ Ready(c) /\ runs[r].status # "deleted"
  /\ call' = [call EXCEPT ![c] = [Idle EXCEPT !.pc = "create", !.run = r, !.task = runs[r].task]]
  /\ UNCHANGED <<tasks, commands, runs, runner>> /\ Untouched

\* create_run, which is refused if the task, its project, its commands or the
\* run to be repeated is not there.
CreateRun(c) ==
  LET t == call[c].task
      r == call[c].run
  IN /\ At(c, "create")
     /\ \/ /\ Exists(t) /\ tasks[t].project # Nothing
           /\ r # NoRun => runs[r].status # "deleted"
           /\ InsertRun(t, call[c].kinds)
        \/ UNCHANGED <<runs, tasks>>
     /\ Return(c)
     /\ UNCHANGED <<commands, runner>> /\ Untouched

\* verification.start: the transaction of VerificationRepository::start.
StartRun(c, r) ==
  /\ Ready(c)
  /\ WriteStart(r)
  /\ call' = [call EXCEPT ![c] = [Idle EXCEPT !.pc = "get", !.run = r]]
  /\ UNCHANGED <<tasks, commands, runner>> /\ Untouched

\* The row is read again for the runner.
GetDetails(c) ==
  LET status == runs[call[c].run].status
  IN /\ At(c, "get")
     /\ IF status = "deleted" THEN Return(c)
        ELSE call' = [call EXCEPT ![c].pc = "start", ![c].seen = status]
     /\ UNCHANGED <<tasks, commands, runs, runner>> /\ Untouched

\* DurableVerificationRunner::start wants a running run; it keeps a handle for
\* cancellation and spawns the task.
StartRunner(c) ==
  LET r == call[c].run
  IN /\ At(c, "start")
     /\ IF call[c].seen = "running"
        THEN /\ runner' = [runner EXCEPT ![r] = [NoRunner EXCEPT !.pc = "root"]]
             /\ Return(c)
        ELSE Goto(c, "abandon") /\ UNCHANGED runner
     /\ UNCHANGED <<tasks, commands, runs>> /\ Untouched

\* The runner has refused: the run is cancelled.
Abandon(c) ==
  /\ At(c, "abandon")
  /\ TryCancel(call[c].run)
  /\ Return(c)
  /\ UNCHANGED <<commands, runner>> /\ Untouched

\* verification.recordResult: a result by hand, whatever the runner does.
RecordResult(c, r, g, status) ==
  /\ Ready(c) /\ MayRecord(r, g)
  /\ WriteGate(r, g, status)
  /\ UNCHANGED <<commands, runner, call>> /\ Untouched

\* verification.finish.
FinishRun(c, r) ==
  /\ Ready(c) /\ MayFinish(r)
  /\ WriteFinish(r)
  /\ UNCHANGED <<commands, runner, call>> /\ Untouched

\* verification.cancel, first the row.
CancelRun(c, r) ==
  /\ Ready(c) /\ MayCancel(r)
  /\ WriteCancel(r)
  /\ call' = [call EXCEPT ![c] = [Idle EXCEPT !.pc = "signal", !.run = r]]
  /\ UNCHANGED <<commands, runner>> /\ Untouched

IsActive(r) == runner[r].pc \notin {"none", "done"}

\* Then the runner, if it is there by now; not if the row has gone meanwhile.
SignalRunner(c) ==
  LET r == call[c].run
  IN /\ At(c, "signal")
     /\ \/ runner' = IF IsActive(r) THEN [runner EXCEPT ![r].cancelled = TRUE] ELSE runner
        \/ runs[r].status = "deleted" /\ UNCHANGED runner
     /\ Return(c)
     /\ UNCHANGED <<tasks, commands, runs>> /\ Untouched

-----------------------------------------------------------------------------
(***************************************************************************)
(* The runner of a run.                                                    *)
(***************************************************************************)

RunnerAt(r, p) == runner[r].pc = p
RunnerTo(r, p) == runner' = [runner EXCEPT ![r].pc = p]

StillCommands == UNCHANGED <<commands, call>> /\ Untouched

\* The gate that is next in the order of gate_order.
Gate(r) == CHOOSE g \in runner[r].left : \A h \in runner[r].left : g <= h

\* project_root finds the directory of the project, or there is none.
FindRoot(r) ==
  /\ RunnerAt(r, "root")
  /\ runner' = [runner EXCEPT ![r].pc = "next",
                  ![r].left = {g \in Commands : runs[r].gates[g] # "none"}]
  /\ UNCHANGED <<tasks, runs>> /\ StillCommands

NoRoot(r) ==
  /\ RunnerAt(r, "root")
  /\ RunnerTo(r, "cancel")
  /\ UNCHANGED <<tasks, runs>> /\ StillCommands

\* The head of the loop: the end of it, or a cancellation.
LeaveLoop(r) ==
  /\ RunnerAt(r, "next")
  /\ \/ runner[r].left = {} /\ RunnerTo(r, "finish")
     \/ runner[r].left # {} /\ runner[r].cancelled /\ RunnerTo(r, "cancel")
  /\ UNCHANGED <<tasks, runs>> /\ StillCommands

\* Otherwise the command of the gate is spawned.
SpawnGate(r) ==
  /\ RunnerAt(r, "next") /\ runner[r].left # {} /\ ~runner[r].cancelled
  /\ runner' = [runner EXCEPT ![r].pc = "execute", ![r].child = TRUE]
  /\ UNCHANGED <<tasks, runs>> /\ StillCommands

\* command_from_gate refuses the command, or it cannot be spawned: the gate fails.
RefuseGate(r) ==
  /\ RunnerAt(r, "next") /\ runner[r].left # {} /\ ~runner[r].cancelled
  /\ runner' = [runner EXCEPT ![r].pc = "record", ![r].result = "failed"]
  /\ UNCHANGED <<tasks, runs>> /\ StillCommands

\* execute: the process exits, or is killed at the timeout or at a cancellation.
\* Of what has happened by then the select takes any.
GateEnds(r, result) ==
  /\ RunnerAt(r, "execute")
  /\ result = "cancelled" => runner[r].cancelled
  /\ runner' = [runner EXCEPT ![r].pc = "capture", ![r].child = FALSE, ![r].result = result]
  /\ UNCHANGED <<tasks, runs>> /\ StillCommands

\* join_capture: both pipes are read to their ends, or an error makes the gate fail.
Captured(r) ==
  /\ RunnerAt(r, "capture")
  /\ \/ RunnerTo(r, IF runner[r].result = "cancelled" THEN "cancel" ELSE "record")
     \/ runner' = [runner EXCEPT ![r].pc = "record", ![r].result = "failed"]
  /\ UNCHANGED <<tasks, runs>> /\ StillCommands

\* What follows a gate that was recorded: after the failure of a required one
\* the others are skipped.
AfterGate(r) ==
  LET rest == runner[r].left \ {Gate(r)}
      stop == runner[r].result # "passed" /\ Gate(r) \in Required
  IN [runner EXCEPT ![r].left = rest,
        ![r].pc = IF ~stop THEN "next" ELSE IF rest = {} THEN "finish" ELSE "skip"]

\* persist_result: the row is written if there is still one.
RecordGate(r) ==
  /\ RunnerAt(r, "record")
  /\ \/ /\ runs[r].status = "deleted"
        /\ UNCHANGED <<tasks, runs>>
        /\ runner' = AfterGate(r)
     \/ /\ MayRecord(r, Gate(r))
        /\ WriteGate(r, Gate(r), runner[r].result)
        /\ runner' = AfterGate(r)
     \/ /\ runs[r].status # "deleted" /\ ~MayRecord(r, Gate(r))
        /\ UNCHANGED <<tasks, runs>>
        /\ RunnerTo(r, "cancel")
  /\ StillCommands

\* The output of the gate cannot be stored, or the row not be written.
RecordFails(r) ==
  /\ RunnerAt(r, "record")
  /\ RunnerTo(r, "cancel")
  /\ UNCHANGED <<tasks, runs>> /\ StillCommands

\* One of the gates that are skipped after a failure.
SkipGate(r) ==
  LET rest == runner[r].left \ {Gate(r)}
      next == [runner EXCEPT ![r].left = rest, ![r].pc = IF rest = {} THEN "finish" ELSE "skip"]
  IN /\ RunnerAt(r, "skip")
     /\ \/ /\ runs[r].status = "deleted"
           /\ UNCHANGED <<tasks, runs>>
           /\ runner' = next
        \/ /\ MayRecord(r, Gate(r))
           /\ WriteGate(r, Gate(r), "skipped")
           /\ runner' = next
        \/ /\ runs[r].status # "deleted" /\ ~MayRecord(r, Gate(r))
           /\ UNCHANGED <<tasks, runs>>
           /\ RunnerTo(r, "cancel")
     /\ StillCommands

\* The end of execute_run.
RunnerFinish(r) ==
  /\ RunnerAt(r, "finish")
  /\ \/ /\ MayFinish(r)
        /\ WriteFinish(r)
        /\ RunnerTo(r, "remove")
     \/ /\ ~MayFinish(r)
        /\ UNCHANGED <<tasks, runs>>
        /\ RunnerTo(r, IF runs[r].status = "deleted" THEN "remove" ELSE "cancel")
  /\ StillCommands

\* Mutation of GiveUp: a run that failed internally is left as it is.
JustLeave(r) ==
  /\ RunnerAt(r, "cancel")
  /\ RunnerTo(r, "remove")
  /\ UNCHANGED <<tasks, runs>> /\ StillCommands

\* A cancellation, or an internal error of execute_run, cancels the run.
GiveUp(r) ==
  /\ RunnerAt(r, "cancel")
  /\ TryCancel(r)
  /\ RunnerTo(r, "remove")
  /\ StillCommands

\* The task ends with the removal of its handle.
RemoveHandle(r) ==
  /\ RunnerAt(r, "remove")
  /\ RunnerTo(r, "done")
  /\ UNCHANGED <<tasks, runs>> /\ StillCommands

-----------------------------------------------------------------------------
(***************************************************************************)
(* The specification.                                                      *)
(***************************************************************************)

\* Runs are deleted with their task; the runner does not notice.
RunsOfTasks ==
  [r \in RunIds |-> IF tasks'[runs[r].task].status = "none"
                    THEN [runs[r] EXCEPT !.status = "deleted"] ELSE runs[r]]

\* The methods of tasks_rpc.rs.
PlanningStep(c) ==
  /\ At(c, "idle")
  /\ Planning(c, [t \in Tasks |-> {UnverifiedGates(t) = {}}])
  /\ runs' = RunsOfTasks
  /\ UNCHANGED <<commands, runner, call, restarts>>

\* What the handler of a connection does next.
HandlerStep(c) ==
  \/ \E found \in Detected : InstallDetected(c, found)
  \/ CreateRun(c) \/ GetDetails(c) \/ StartRunner(c) \/ Abandon(c) \/ SignalRunner(c)

Requests(c) ==
  \/ \E p \in Projects, new \in Configured : ConfigureCommands(c, p, new)
  \/ \E p \in Projects : ListCommands(c, p)
  \/ \E t \in Tasks, kinds \in Selections : VerifyTask(c, t, kinds)
  \/ \E r \in RunIds :
       \/ Rerun(c, r) \/ StartRun(c, r) \/ FinishRun(c, r) \/ CancelRun(c, r)
       \/ \E g \in Commands, status \in Answers : RecordResult(c, r, g, status)

RunnerStep(r) ==
  \/ FindRoot(r) \/ NoRoot(r) \/ LeaveLoop(r) \/ SpawnGate(r) \/ RefuseGate(r) \/ Captured(r)
  \/ \E result \in {"passed", "failed", "error", "cancelled"} : GateEnds(r, result)
  \/ RecordGate(r) \/ RecordFails(r) \/ SkipGate(r) \/ RunnerFinish(r)
  \/ GiveUp(r) \/ RemoveHandle(r)

\* recover_interrupted, as far as verification_runs and verification_gates go.
Recovered ==
  [r \in RunIds |->
     IF runs[r].status = "running"
     THEN [runs[r] EXCEPT !.status = "error",
             !.gates = [g \in Commands |-> IF @[g] = "pending" THEN "error" ELSE @[g]]]
     ELSE runs[r]]

\* The core stops, and with it handlers, runners and the processes of gates
\* (kill_on_drop); it is started again and recovers.
Restart ==
  /\ restarts < MaxRestarts
  /\ restarts' = restarts + 1
  /\ runs' = Recovered
  /\ runner' = [r \in Ids |-> NoRunner]
  /\ call' = [c \in Clients |-> Idle]
  /\ creating' = [c \in Clients |-> NoCreation]
  /\ UNCHANGED <<tasks, deps, plans, criteria, commands>>

Next ==
  \/ \E c \in Clients : PlanningStep(c) \/ HandlerStep(c) \/ Requests(c)
  \/ \E r \in Ids : RunnerStep(r)
  \/ Restart

\* Handlers and runners are tasks that tokio polls; a gate ends by its timeout,
\* and the pipes of a process that has ended are closed.
Fairness ==
  /\ \A c \in Clients : WF_vars(HandlerStep(c))
  /\ \A r \in Ids : WF_vars(RunnerStep(r))

Spec == Init /\ [][Next]_vars /\ Fairness

-----------------------------------------------------------------------------
(***************************************************************************)
(* Properties.                                                             *)
(***************************************************************************)

\* A task that is completed has earned it, by its plan, its criteria and the
\* latest verification, whichever of planning, handlers and runner came last
\* (has_completion_blockers and the calls of reopen_terminal).
CompletionIsEarned ==
  /\ CompletedTasksAreDone
  /\ \A t \in Tasks : tasks[t].status \in Finished => UnverifiedGates(t) = {}

\* A run that has passed has a pass of every required gate, and none that is
\* still to come, although results are recorded by hand beside the runner and
\* either of them may finish the run (record_gate, finish).
PassedRunsPassedTheirGates ==
  \A r \in RunIds : runs[r].status = "passed" => \A g \in RequiredOf(r) : runs[r].gates[g] = "passed"

\* A run that is not going to end has somebody at work on it: the handler that
\* starts it, or its runner (the error path of DurableVerificationRunner::start).
RunningRunsAreAttended ==
  \A r \in RunIds : runs[r].status = "running" =>
    \/ runner[r].pc \notin {"none", "remove", "done"}
    \/ \E c \in Clients : call[c].run = r /\ call[c].pc \in {"get", "start", "abandon"}

IsRunning(r) == r \in RunIds /\ runs[r].status = "running"

\* Every run that was started ends, and no process of a gate goes on for ever,
\* also if storage fails between two gates, or the run is cancelled before its
\* runner could be told.
RunsEnd ==
  \A r \in Ids :
    /\ IsRunning(r) ~> ~IsRunning(r)
    /\ runner[r].child ~> ~runner[r].child

=============================================================================
