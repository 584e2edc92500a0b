---------------------------- MODULE TaskPlanning ----------------------------
(***************************************************************************)
(* Tasks of the Retcon core with their dependencies, parents, plans and    *)
(* acceptance criteria: the transactions of                                *)
(* src/crates/retcon-storage/src/task_planning.rs and repositories.rs, and *)
(* the handlers of retcon-core/src/tasks_rpc.rs that run them.             *)
(*                                                                         *)
(* A transaction is one step.  Only task.create runs several of them.      *)
(* Whether verification lets a task complete is a parameter here; module   *)
(* Verification computes it.                                               *)
(***************************************************************************)
EXTENDS Naturals, Sequences

CONSTANTS
  Clients,     \* RPC connections
  Tasks,       \* identities of tasks, which clients may choose
  Projects,    \* projects
  Sessions,    \* sessions a task may be attached to
  Worktrees,   \* worktrees a task may be attached to
  Nothing,     \* no project, session, worktree, parent or task
  Home,        \* the project of each session and worktree
  Criteria,    \* identities of acceptance criteria
  Drafts,      \* the plans clients send
  Requested,   \* the statuses clients ask for
  Creators     \* bound: the connections that create tasks

ASSUME NothingAssumption ==
  Nothing \notin Tasks \cup Projects \cup Sessions \cup Worktrees
ASSUME HomeAssumption == Home \in [Sessions \cup Worktrees -> Projects]

VARIABLES
  tasks,      \* table tasks
  deps,       \* table task_dependencies: <<task, what it depends on>>
  plans,      \* tables task_steps and task_step_dependencies
  criteria,   \* table acceptance_criteria
  creating    \* how far the task.create of a connection has got

planningVars == <<tasks, deps, plans, criteria, creating>>

-----------------------------------------------------------------------------
(***************************************************************************)
(* State.                                                                  *)
(***************************************************************************)

TaskStatus == {"backlog", "planned", "pending", "ready", "in_progress", "blocked",
               "review", "completed", "done", "failed", "cancelled"}
StepStatus == {"pending", "in_progress", "completed", "skipped", "blocked"}
CriterionStatus == {"pending", "passed", "failed", "overridden"}

ASSUME RequestAssumption == Requested \subseteq TaskStatus

Finished == {"completed", "done"}

\* The status of a row that is not in the table is "none".
TaskRow == [status: TaskStatus \cup {"none"}, project: Projects \cup {Nothing},
            session: Sessions \cup {Nothing}, worktree: Worktrees \cup {Nothing},
            parent: Tasks \cup {Nothing}]
NoTask == [status |-> "none", project |-> Nothing, session |-> Nothing,
           worktree |-> Nothing, parent |-> Nothing]

\* A step and the steps it comes after, by their place in the plan.
Step == [status: StepStatus, after: SUBSET Nat]

ASSUME DraftAssumption == Drafts \subseteq Seq(Step)

Criterion == [task: Tasks \cup {Nothing}, required: BOOLEAN, status: CriterionStatus]
NoCriterion == [task |-> Nothing, required |-> FALSE, status |-> "pending"]

\* A task.create between its transactions.
Creation == [pc: {"idle", "depend", "status"}, task: Tasks \cup {Nothing},
             needs: SUBSET Tasks, status: TaskStatus]
NoCreation == [pc |-> "idle", task |-> Nothing, needs |-> {}, status |-> "backlog"]

PlanningTypeOK ==
  /\ tasks \in [Tasks -> TaskRow]
  /\ deps \subseteq Tasks \X Tasks
  /\ plans \in [Tasks -> Seq(Step)]
  /\ criteria \in [Criteria -> Criterion]
  /\ creating \in [Clients -> Creation]

PlanningInit ==
  /\ tasks = [t \in Tasks |-> NoTask]
  /\ deps = {}
  /\ plans = [t \in Tasks |-> <<>>]
  /\ criteria = [k \in Criteria |-> NoCriterion]
  /\ creating = [c \in Clients |-> NoCreation]

-----------------------------------------------------------------------------
(***************************************************************************)
(* Graphs of tasks.                                                        *)
(***************************************************************************)

Exists(t) == tasks[t].status # "none"

Parents == {<<t, tasks[t].parent>> : t \in {u \in Tasks : tasks[u].parent # Nothing}}

\* Mutation of Reachable: only the next task is looked at.
NextOnly(edges, t) == {u \in Tasks : <<t, u>> \in edges}

\* WITH RECURSIVE ancestors(id): what can be reached from t.
Reachable(edges, t) ==
  {u \in Tasks : \A S \in SUBSET Tasks :
     (\A x \in S \cup {t} : \A y \in Tasks : <<x, y>> \in edges => y \in S) => u \in S}

\* WITH RECURSIVE parents(id): would t become an ancestor of itself?
ParentCycle(t, parent) == t \in Reachable(Parents, parent)

\* The tasks that depend on t, or that t depends on.
Neighbours(t) == {u \in Tasks : <<t, u>> \in deps \/ <<u, t>> \in deps}

\* Mutation of MayRelate: nobody looks at the relatives of the task.
MayRelateAlone(t, project, session, worktree, parent) ==
  /\ parent # t
  /\ session # Nothing => project = Home[session]
  /\ worktree # Nothing => project = Home[worktree]
  /\ parent # Nothing =>
       Exists(parent) /\ project = tasks[parent].project /\ ~ParentCycle(t, parent)

\* validate_task_relationships.
MayRelate(t, project, session, worktree, parent) ==
  /\ parent # t
  /\ session # Nothing => project = Home[session]
  /\ worktree # Nothing => project = Home[worktree]
  /\ parent # Nothing =>
       Exists(parent) /\ project = tasks[parent].project /\ ~ParentCycle(t, parent)
  /\ \A u \in Tasks :
       (Exists(u) /\ tasks[u].parent = t) \/ u \in Neighbours(t) => tasks[u].project = project

-----------------------------------------------------------------------------
(***************************************************************************)
(* What keeps a task from completion.                                      *)
(***************************************************************************)

\* SELECT id FROM task_steps .. of completion_blockers.
IncompleteSteps(t) == {i \in DOMAIN plans[t] : plans[t][i].status \notin {"completed", "skipped"}}

UnmetDependencies(t) == {u \in Tasks : <<t, u>> \in deps /\ tasks[u].status \notin Finished}

UnsatisfiedCriteria(t) ==
  {k \in Criteria : criteria[k].task = t /\ criteria[k].required
                    /\ criteria[k].status \notin {"passed", "overridden"}}

\* reopen_terminal.
Reopened(t) ==
  IF tasks[t].status \in Finished THEN [tasks EXCEPT ![t].status = "review"] ELSE tasks

-----------------------------------------------------------------------------
(***************************************************************************)
(* Tasks.                                                                  *)
(***************************************************************************)

Free(c) == creating[c].pc = "idle"

\* TaskRepository::create: the project, if none is given, is the session's or
\* the worktree's.
ProjectOf(project, session, worktree) ==
  IF project # Nothing THEN project
  ELSE IF session # Nothing THEN Home[session]
  ELSE IF worktree # Nothing THEN Home[worktree] ELSE Nothing

InsertTask(t, project, session, worktree, parent) ==
  LET effective == ProjectOf(project, session, worktree)
  IN /\ ~Exists(t)
     /\ MayRelate(t, effective, session, worktree, parent)
     /\ tasks' = [tasks EXCEPT ![t] = [status |-> "backlog", project |-> effective,
                    session |-> session, worktree |-> worktree, parent |-> parent]]

\* task.create up to its first transaction.
CreateTask(c, t, project, session, worktree, parent) ==
  /\ Free(c) /\ c \in Creators
  /\ InsertTask(t, project, session, worktree, parent)
  /\ \E needs \in SUBSET Tasks, status \in Requested :
       creating' = [creating EXCEPT ![c] =
         [pc |-> "depend", task |-> t, needs |-> needs, status |-> status]]
  /\ UNCHANGED <<deps, plans, criteria>>

\* ON DELETE SET NULL of parent_task_id.
WithoutTask(t) ==
  [u \in Tasks |-> IF u = t THEN NoTask
                   ELSE IF tasks[u].parent = t THEN [tasks[u] EXCEPT !.parent = Nothing]
                   ELSE tasks[u]]

\* delete_task, and what the database deletes with it.
RemoveTask(t) ==
  /\ tasks' = WithoutTask(t)
  /\ deps' = {e \in deps : e[1] # t /\ e[2] # t}
  /\ plans' = [plans EXCEPT ![t] = <<>>]
  /\ criteria' = [k \in Criteria |-> IF criteria[k].task = t THEN NoCriterion ELSE criteria[k]]

\* What replace_dependencies asks for, one dependency after the other.
MayDepend(t, needs) ==
  LET others == {e \in deps : e[1] # t}
  IN /\ t \notin needs
     /\ Exists(t)
     /\ \A u \in needs : /\ Exists(u)
                         /\ tasks[u].project = tasks[t].project
                         /\ t \notin Reachable(others, u)

\* replace_dependencies.
WriteDependencies(t, needs) ==
  /\ deps' = {e \in deps : e[1] # t} \cup ({t} \X needs)
  /\ tasks' = Reopened(t)
  /\ UNCHANGED <<plans, criteria>>

\* The second transaction of task.create; if it fails the task is deleted.
CreateDependencies(c) ==
  LET t == creating[c].task
  IN /\ creating[c].pc = "depend"
     /\ \/ /\ MayDepend(t, creating[c].needs)
           /\ WriteDependencies(t, creating[c].needs)
           /\ creating' = [creating EXCEPT ![c] =
                IF @.status = "backlog" THEN NoCreation ELSE [@ EXCEPT !.pc = "status"]]
        \/ /\ ~MayDepend(t, creating[c].needs)
           /\ RemoveTask(t)
           /\ creating' = [creating EXCEPT ![c] = NoCreation]

\* has_completion_blockers, as far as planning goes.
Completable(t) ==
  IncompleteSteps(t) = {} /\ UnmetDependencies(t) = {} /\ UnsatisfiedCriteria(t) = {}

\* set_task_status asks for the blockers of what is to be finished.
StatusAllowed(t, status, verified) ==
  status \in Finished => Completable(t) /\ verified

WriteStatus(t, status) ==
  /\ tasks' = IF Exists(t) THEN [tasks EXCEPT ![t].status = status] ELSE tasks
  /\ UNCHANGED <<deps, plans, criteria>>

\* The third transaction of task.create.
CreateStatus(c, verified) ==
  LET t == creating[c].task
  IN /\ creating[c].pc = "status"
     /\ \/ StatusAllowed(t, creating[c].status, verified) /\ WriteStatus(t, creating[c].status)
        \/ ~StatusAllowed(t, creating[c].status, verified) /\ RemoveTask(t)
     /\ creating' = [creating EXCEPT ![c] = NoCreation]

\* update_task.
WriteRelations(t, project, session, worktree, parent) ==
  /\ Exists(t)
  /\ MayRelate(t, project, session, worktree, parent)
  /\ tasks' = [tasks EXCEPT ![t].project = project, ![t].session = session,
                            ![t].worktree = worktree, ![t].parent = parent]

\* task.update.  A patch may leave out any field, which is then as it was.
UpdateTask(c, t, project, session, worktree, parent) ==
  /\ Free(c)
  /\ WriteRelations(t, project, session, worktree, parent)
  /\ UNCHANGED <<deps, plans, criteria, creating>>

\* task.delete.
DeleteTask(c, t) ==
  /\ Free(c) /\ Exists(t)
  /\ RemoveTask(t)
  /\ UNCHANGED creating

\* task.status.set.
SetTaskStatus(c, t, status, verified) ==
  /\ Free(c) /\ Exists(t)
  /\ StatusAllowed(t, status, verified)
  /\ WriteStatus(t, status)
  /\ UNCHANGED creating

\* task.dependencies.replace.
ReplaceDependencies(c, t, needs) ==
  /\ Free(c)
  /\ MayDepend(t, needs)
  /\ WriteDependencies(t, needs)
  /\ UNCHANGED creating

-----------------------------------------------------------------------------
(***************************************************************************)
(* Plans.                                                                  *)
(***************************************************************************)

\* validate_plan.
ValidPlan(draft) ==
  \A i \in DOMAIN draft : /\ draft[i].status \in StepStatus
                          /\ draft[i].after \subseteq 1..(i - 1)

\* replace_plan.
WritePlan(t, draft) ==
  /\ plans' = [plans EXCEPT ![t] = draft]
  /\ tasks' = Reopened(t)
  /\ UNCHANGED <<deps, criteria>>

\* task.plan.replace.
ReplacePlan(c, t, draft) ==
  /\ Free(c) /\ Exists(t)
  /\ ValidPlan(draft)
  /\ WritePlan(t, draft)
  /\ UNCHANGED creating

-----------------------------------------------------------------------------
(***************************************************************************)
(* Acceptance criteria.                                                    *)
(***************************************************************************)

HasCriterion(k) == criteria[k].task # Nothing

\* The row is written together with an event, and its task is reopened.
WriteCriterion(k, row, t) ==
  /\ criteria' = [criteria EXCEPT ![k] = row]
  /\ tasks' = Reopened(t)
  /\ UNCHANGED <<deps, plans, creating>>

\* create_criterion; the foreign key wants the task.
InsertCriterion(k, t, required) ==
  /\ ~HasCriterion(k) /\ Exists(t)
  /\ WriteCriterion(k, [task |-> t, required |-> required, status |-> "pending"], t)

\* update_criterion.
EditCriterion(k, required) ==
  WriteCriterion(k, [criteria[k] EXCEPT !.required = required], criteria[k].task)

\* delete_criterion.
RemoveCriterion(k) == WriteCriterion(k, NoCriterion, criteria[k].task)

\* evaluate_criterion.
JudgeCriterion(k, passed) ==
  WriteCriterion(k, [criteria[k] EXCEPT !.status = IF passed THEN "passed" ELSE "failed"],
                 criteria[k].task)

\* override_criterion.
WaiveCriterion(k) ==
  WriteCriterion(k, [criteria[k] EXCEPT !.status = "overridden"], criteria[k].task)

\* add_evidence: what a criterion says does not change.
KeepCriterion(k) == HasCriterion(k) /\ UNCHANGED planningVars

\* task.acceptance.create, update, delete, evaluate, override and evidence.
CreateCriterion(c, k, t, required) == Free(c) /\ InsertCriterion(k, t, required)

UpdateCriterion(c, k, required) == Free(c) /\ HasCriterion(k) /\ EditCriterion(k, required)

DeleteCriterion(c, k) == Free(c) /\ HasCriterion(k) /\ RemoveCriterion(k)

EvaluateCriterion(c, k, passed) == Free(c) /\ HasCriterion(k) /\ JudgeCriterion(k, passed)

OverrideCriterion(c, k) == Free(c) /\ HasCriterion(k) /\ WaiveCriterion(k)

AddEvidence(c, k) == Free(c) /\ KeepCriterion(k)

-----------------------------------------------------------------------------
(***************************************************************************)
(* The specification.                                                      *)
(***************************************************************************)

\* The methods of tasks_rpc.rs that change something.  verdicts is what
\* verification may have to say of each task.
Planning(c, verdicts) ==
  \/ \E t \in Tasks, p \in Projects \cup {Nothing}, s \in Sessions \cup {Nothing},
        w \in Worktrees \cup {Nothing}, parent \in Tasks \cup {Nothing} :
       UpdateTask(c, t, p, s, w, parent) \/ CreateTask(c, t, p, s, w, parent)
  \/ CreateDependencies(c)
  \/ \E t \in Tasks : \E verified \in verdicts[t] :
       \/ creating[c].task = t /\ CreateStatus(c, verified)
       \/ \E status \in Requested : SetTaskStatus(c, t, status, verified)
  \/ \E t \in Tasks :
       \/ DeleteTask(c, t)
       \/ \E needs \in SUBSET Tasks : ReplaceDependencies(c, t, needs)
       \/ \E draft \in Drafts : ReplacePlan(c, t, draft)
  \/ \E k \in Criteria :
       \/ \E t \in Tasks, required \in BOOLEAN : CreateCriterion(c, k, t, required)
       \/ \E flag \in BOOLEAN : UpdateCriterion(c, k, flag) \/ EvaluateCriterion(c, k, flag)
       \/ DeleteCriterion(c, k) \/ OverrideCriterion(c, k) \/ AddEvidence(c, k)

PlanningNext == \E c \in Clients : Planning(c, [t \in Tasks |-> BOOLEAN])

PlanningSpec == PlanningInit /\ [][PlanningNext]_planningVars

-----------------------------------------------------------------------------
(***************************************************************************)
(* Properties.                                                             *)
(***************************************************************************)

\* No set of tasks in which each one points to another one of the set.
Acyclic(edges) ==
  \A S \in SUBSET Tasks : S # {} => \E x \in S : \A y \in S : <<x, y>> \notin edges

\* No task waits for itself or is its own ancestor, whatever edges the updates
\* of several connections add, and neither does a step of a plan
\* (replace_dependencies, validate_task_relationships, validate_plan).
NothingWaitsForItself ==
  /\ Acyclic(deps)
  /\ Acyclic(Parents)
  /\ \A t \in Tasks : \A i \in DOMAIN plans[t] : \A j \in plans[t][i].after : j < i

\* Tasks that are related to each other, or to a session or a worktree, are in
\* one project, although the project of a task may be changed, relatives are
\* added and deleted, and a task that is being created can already be used.
RelativesShareTheirProject ==
  /\ \A e \in deps : Exists(e[1]) /\ Exists(e[2]) /\ tasks[e[1]].project = tasks[e[2]].project
  /\ \A e \in Parents : Exists(e[2]) /\ tasks[e[1]].project = tasks[e[2]].project
  /\ \A t \in Tasks : /\ tasks[t].session # Nothing => tasks[t].project = Home[tasks[t].session]
                      /\ tasks[t].worktree # Nothing => tasks[t].project = Home[tasks[t].worktree]

\* A task that is completed has done all of its plan and satisfied its required
\* criteria: what is added, changed or evaluated later reopens it.  (That the
\* tasks it depends on are finished is looked at when it completes only.)
CompletedTasksAreDone ==
  \A t \in Tasks : tasks[t].status \in Finished => IncompleteSteps(t) = {} /\ UnsatisfiedCriteria(t) = {}

=============================================================================
