------------------------- MODULE Verification_proofs -------------------------
(***************************************************************************)
(* Proofs about TaskPlanning and Verification, for any tasks, clients,     *)
(* commands and bounds: tasks form no cycles and stay in their project,    *)
(* completion is earned, and a run that passed has passed its gates.       *)
(***************************************************************************)
EXTENDS Verification, SequenceTheorems, TLAPS

-----------------------------------------------------------------------------
(***************************************************************************)
(* The transactions of planning.                                           *)
(***************************************************************************)

\* A row that is not there has no relations.
NoRelations == \A t \in Tasks : ~Exists(t) => tasks[t] = NoTask

\* A creation that is under way has its task.
Creating == \A c \in Clients : creating[c].pc # "idle" => creating[c].task \in Tasks

PlanBase == PlanningTypeOK /\ NoRelations

\* What is done to tasks, dependencies, plans and criteria in one transaction.
Transaction(verdicts) ==
  \/ UNCHANGED <<tasks, deps, plans, criteria>>
  \/ \E t \in Tasks, p \in Projects \cup {Nothing}, s \in Sessions \cup {Nothing},
        w \in Worktrees \cup {Nothing}, parent \in Tasks \cup {Nothing} :
       /\ InsertTask(t, p, s, w, parent) \/ WriteRelations(t, p, s, w, parent)
       /\ UNCHANGED <<deps, plans, criteria>>
  \/ \E t \in Tasks : RemoveTask(t)
  \/ \E t \in Tasks, needs \in SUBSET Tasks : MayDepend(t, needs) /\ WriteDependencies(t, needs)
  \/ \E t \in Tasks, status \in TaskStatus : \E verified \in verdicts[t] :
       StatusAllowed(t, status, verified) /\ WriteStatus(t, status)
  \/ \E t \in Tasks, draft \in Drafts : ValidPlan(draft) /\ WritePlan(t, draft)
  \/ \E k \in Criteria, t \in Tasks, row \in Criterion :
       /\ criteria[k].task \in {t, Nothing} /\ row.task \in {t, Nothing}
       /\ WriteCriterion(k, row, t)

\* What a row says of its relations.
Relations(row) == <<row.project, row.session, row.worktree, row.parent>>

\* A transaction that leaves relations alone, and one that writes those of a task.
SameRelations ==
  \A t \in Tasks :
    /\ Relations(tasks'[t]) = Relations(tasks[t])
    /\ tasks'[t].status = "none" <=> tasks[t].status = "none"

\* A task that is reopened keeps its relations, and is finished no more.
LEMMA ReopenedShape ==
  ASSUME PlanBase, NEW t \in Tasks, tasks' = Reopened(t)
  PROVE  /\ tasks' \in [Tasks -> TaskRow] /\ SameRelations
         /\ tasks'[t].status \notin Finished
         /\ \A u \in Tasks : u # t => tasks'[u] = tasks[u]
<1> DEFINE q == [tasks[t] EXCEPT !.status = "review"]
<1>1. tasks \in [Tasks -> TaskRow]
  BY DEF PlanBase, PlanningTypeOK
<1>2. /\ q \in TaskRow /\ q.status = "review" /\ q.project = tasks[t].project
      /\ q.session = tasks[t].session /\ q.worktree = tasks[t].worktree
      /\ q.parent = tasks[t].parent
  BY <1>1 DEF TaskRow, TaskStatus
<1>3. tasks' = IF tasks[t].status \in Finished THEN [tasks EXCEPT ![t] = q] ELSE tasks
  BY DEF Reopened
<1> HIDE DEF q
<1>4. CASE tasks[t].status \in Finished
  <2>1. tasks[t].status # "none"
    BY <1>4 DEF Finished
  <2> QED
    BY <1>1, <1>2, <1>3, <1>4, <2>1 DEF SameRelations, Relations, Finished
<1>5. CASE tasks[t].status \notin Finished
  BY <1>1, <1>3, <1>5 DEF SameRelations
<1> QED
  BY <1>4, <1>5

\* So does one that gets another status.
LEMMA StatusShape ==
  ASSUME PlanBase, NEW t \in Tasks, NEW status \in TaskStatus, WriteStatus(t, status)
  PROVE  /\ tasks' \in [Tasks -> TaskRow] /\ SameRelations
         /\ Exists(t) => tasks'[t].status = status
         /\ ~Exists(t) => tasks' = tasks
         /\ \A u \in Tasks : u # t => tasks'[u] = tasks[u]
<1> DEFINE q == [tasks[t] EXCEPT !.status = status]
<1>1. tasks \in [Tasks -> TaskRow] /\ status # "none"
  BY DEF PlanBase, PlanningTypeOK, TaskStatus
<1>2. /\ q \in TaskRow /\ q.status = status /\ q.project = tasks[t].project
      /\ q.session = tasks[t].session /\ q.worktree = tasks[t].worktree
      /\ q.parent = tasks[t].parent
  BY <1>1 DEF TaskRow, TaskStatus
<1>3. tasks' = IF tasks[t].status # "none" THEN [tasks EXCEPT ![t] = q] ELSE tasks
  BY DEF WriteStatus, Exists
<1> HIDE DEF q
<1>4. CASE tasks[t].status # "none"
  BY <1>1, <1>2, <1>3, <1>4 DEF SameRelations, Relations, Exists
<1>5. CASE tasks[t].status = "none"
  BY <1>1, <1>3, <1>5 DEF SameRelations, Exists
<1> QED
  BY <1>4, <1>5

\* The relations of t are written, in a project where it may have them.
Related(t, project, s, w, parent) ==
  /\ MayRelate(t, project, s, w, parent)
  /\ tasks' \in [Tasks -> TaskRow]
  /\ \A u \in Tasks : u # t => tasks'[u] = tasks[u]
  /\ tasks'[t].status # "none" /\ tasks'[t].project = project
  /\ tasks'[t].session = s /\ tasks'[t].worktree = w /\ tasks'[t].parent = parent
  /\ tasks'[t].status \in Finished => tasks'[t].status = tasks[t].status

\* So they are for a task that is inserted or updated.
LEMMA RelationsShape ==
  ASSUME PlanBase, NEW t \in Tasks, NEW p \in Projects \cup {Nothing},
         NEW s \in Sessions \cup {Nothing}, NEW w \in Worktrees \cup {Nothing},
         NEW parent \in Tasks \cup {Nothing},
         InsertTask(t, p, s, w, parent) \/ WriteRelations(t, p, s, w, parent)
  PROVE  \E project \in Projects \cup {Nothing} : Related(t, project, s, w, parent)
<1>1. tasks \in [Tasks -> TaskRow]
  BY DEF PlanBase, PlanningTypeOK
<1>2. CASE InsertTask(t, p, s, w, parent)
  <2> DEFINE project == ProjectOf(p, s, w)
             q == [status |-> "backlog", project |-> project, session |-> s, worktree |-> w,
                   parent |-> parent]
  <2>1. project \in Projects \cup {Nothing}
    BY HomeAssumption DEF ProjectOf
  <2>2. MayRelate(t, project, s, w, parent) /\ tasks' = [tasks EXCEPT ![t] = q]
    BY <1>2 DEF InsertTask
  <2> HIDE DEF project
  <2>3. /\ q \in TaskRow /\ q.status = "backlog" /\ q.project = project /\ q.session = s
        /\ q.worktree = w /\ q.parent = parent
    BY <2>1 DEF TaskRow, TaskStatus
  <2> HIDE DEF q
  <2> QED
    BY <1>1, <2>1, <2>2, <2>3 DEF Finished, Related
<1>3. CASE WriteRelations(t, p, s, w, parent)
  <2> DEFINE q == [tasks[t] EXCEPT !.project = p, !.session = s, !.worktree = w,
                                   !.parent = parent]
  <2>1. /\ q \in TaskRow /\ q.status = tasks[t].status /\ q.project = p /\ q.session = s
        /\ q.worktree = w /\ q.parent = parent
    BY <1>1 DEF TaskRow
  <2>2. MayRelate(t, p, s, w, parent) /\ tasks[t].status # "none"
    BY <1>3 DEF WriteRelations, Exists
  <2>3. tasks' = [tasks EXCEPT ![t] = q]
    BY <1>3 DEF WriteRelations
  <2> HIDE DEF q
  <2> QED
    BY <1>1, <2>1, <2>2, <2>3 DEF Related
<1> QED
  BY <1>2, <1>3

\* A task that is removed leaves nothing behind.
LEMMA RemoveShape ==
  ASSUME PlanBase, NEW t \in Tasks, RemoveTask(t)
  PROVE  /\ tasks' \in [Tasks -> TaskRow] /\ tasks'[t] = NoTask
         /\ \A u \in Tasks : u # t =>
              /\ tasks'[u].status = tasks[u].status /\ tasks'[u].project = tasks[u].project
              /\ tasks'[u].session = tasks[u].session /\ tasks'[u].worktree = tasks[u].worktree
              /\ tasks'[u].parent = IF tasks[u].parent = t THEN Nothing ELSE tasks[u].parent
         /\ deps' = {e \in deps : e[1] # t /\ e[2] # t}
         /\ plans' = [plans EXCEPT ![t] = <<>>]
         /\ criteria' =
              [k \in Criteria |-> IF criteria[k].task = t THEN NoCriterion ELSE criteria[k]]
<1>1. tasks \in [Tasks -> TaskRow]
  BY DEF PlanBase, PlanningTypeOK
<1>2. NoTask \in TaskRow
  BY DEF NoTask, TaskRow
<1>3. ASSUME NEW u \in Tasks, u # t
      PROVE  /\ tasks'[u] \in TaskRow
             /\ tasks'[u].status = tasks[u].status /\ tasks'[u].project = tasks[u].project
             /\ tasks'[u].session = tasks[u].session /\ tasks'[u].worktree = tasks[u].worktree
             /\ tasks'[u].parent = IF tasks[u].parent = t THEN Nothing ELSE tasks[u].parent
  <2> DEFINE q == [tasks[u] EXCEPT !.parent = Nothing]
  <2>1. /\ q \in TaskRow /\ q.status = tasks[u].status /\ q.project = tasks[u].project
        /\ q.session = tasks[u].session /\ q.worktree = tasks[u].worktree /\ q.parent = Nothing
    BY <1>1 DEF TaskRow
  <2>2. tasks'[u] = IF tasks[u].parent = t THEN q ELSE tasks[u]
    BY <1>3 DEF RemoveTask, WithoutTask
  <2> HIDE DEF q
  <2> QED
    BY <1>1, <2>1, <2>2
<1>4. tasks' = [u \in Tasks |-> tasks'[u]] /\ tasks'[t] = NoTask
  BY DEF RemoveTask, WithoutTask
<1>5. tasks' \in [Tasks -> TaskRow]
  BY <1>2, <1>3, <1>4
<1> QED
  BY <1>3, <1>4, <1>5 DEF RemoveTask

\* The transactions keep the types of the four tables, and rows that are not there.
LEMMA TransactionTypes ==
  ASSUME PlanBase, NEW verdicts, Transaction(verdicts)
  PROVE  /\ tasks' \in [Tasks -> TaskRow] /\ deps' \subseteq Tasks \X Tasks
         /\ plans' \in [Tasks -> Seq(Step)] /\ criteria' \in [Criteria -> Criterion]
         /\ NoRelations'
<1>0. /\ tasks \in [Tasks -> TaskRow] /\ deps \subseteq Tasks \X Tasks
      /\ plans \in [Tasks -> Seq(Step)] /\ criteria \in [Criteria -> Criterion]
      /\ NoRelations
  BY DEF PlanBase, PlanningTypeOK
<1>1. ASSUME SameRelations, tasks' \in [Tasks -> TaskRow],
             \A t \in Tasks : ~Exists(t) => tasks'[t] = tasks[t]
      PROVE  NoRelations'
  BY <1>0, <1>1 DEF SameRelations, NoRelations, Exists
<1>2. ASSUME NEW t \in Tasks, tasks' = Reopened(t)
      PROVE  tasks' \in [Tasks -> TaskRow] /\ NoRelations'
  <2>1. tasks' \in [Tasks -> TaskRow] /\ SameRelations
    BY <1>2, ReopenedShape
  <2>2. \A u \in Tasks : ~Exists(u) => tasks'[u] = tasks[u]
    BY <1>2, ReopenedShape DEF Reopened, Exists, Finished
  <2> QED
    BY <1>1, <2>1, <2>2
<1>3. CASE UNCHANGED <<tasks, deps, plans, criteria>>
  BY <1>0, <1>3 DEF NoRelations, Exists
<1>4. ASSUME NEW t \in Tasks, NEW p \in Projects \cup {Nothing}, NEW s \in Sessions \cup {Nothing},
             NEW w \in Worktrees \cup {Nothing}, NEW parent \in Tasks \cup {Nothing},
             InsertTask(t, p, s, w, parent) \/ WriteRelations(t, p, s, w, parent)
      PROVE  tasks' \in [Tasks -> TaskRow] /\ NoRelations'
  BY <1>0, <1>4, RelationsShape DEF NoRelations, Exists, Related
<1>5. ASSUME NEW t \in Tasks, RemoveTask(t)
      PROVE  /\ tasks' \in [Tasks -> TaskRow] /\ deps' \subseteq Tasks \X Tasks
             /\ plans' \in [Tasks -> Seq(Step)] /\ criteria' \in [Criteria -> Criterion]
             /\ NoRelations'
  <2>1. NoCriterion \in Criterion /\ <<>> \in Seq(Step)
    BY EmptySeq DEF NoCriterion, Criterion, CriterionStatus
  <2>2. /\ deps' \subseteq Tasks \X Tasks
        /\ plans' \in [Tasks -> Seq(Step)] /\ criteria' \in [Criteria -> Criterion]
    <3>1. deps' \subseteq deps /\ plans' = [plans EXCEPT ![t] = <<>>]
      BY <1>5, RemoveShape
    <3>2. criteria' = [k \in Criteria |->
            IF criteria[k].task = t THEN NoCriterion ELSE criteria[k]]
      BY <1>5, RemoveShape
    <3>3. criteria' \in [Criteria -> Criterion]
      BY <1>0, <2>1, <3>2
    <3> QED
      BY <1>0, <2>1, <3>1, <3>3
  <2>3. ASSUME NEW u \in Tasks, tasks'[u].status = "none"
        PROVE  tasks'[u] = NoTask
    <3>1. CASE u = t
      BY <1>5, <3>1, RemoveShape
    <3>2. CASE u # t
      <4>1. tasks[u] = NoTask
        BY <1>0, <1>5, <2>3, <3>2, RemoveShape DEF NoRelations, Exists
      <4>2. tasks'[u] = tasks[u]
        BY <1>5, <3>2, <4>1, NothingAssumption DEF RemoveTask, WithoutTask, NoTask
      <4> QED
        BY <4>1, <4>2
    <3> QED
      BY <3>1, <3>2
  <2>4. NoRelations'
    BY <2>3 DEF NoRelations, Exists
  <2> QED
    BY <1>5, <2>2, <2>4, RemoveShape
<1>6. ASSUME NEW t \in Tasks, NEW needs \in SUBSET Tasks, WriteDependencies(t, needs)
      PROVE  /\ tasks' \in [Tasks -> TaskRow] /\ deps' \subseteq Tasks \X Tasks
             /\ plans' \in [Tasks -> Seq(Step)] /\ criteria' \in [Criteria -> Criterion]
             /\ NoRelations'
  <2>1. tasks' \in [Tasks -> TaskRow] /\ NoRelations'
    BY <1>2, <1>6 DEF WriteDependencies
  <2>2. /\ deps' \subseteq Tasks \X Tasks /\ plans' = plans /\ criteria' = criteria
    BY <1>0, <1>6 DEF WriteDependencies
  <2> QED
    BY <1>0, <2>1, <2>2
<1>7. ASSUME NEW t \in Tasks, NEW status \in TaskStatus, WriteStatus(t, status)
      PROVE  tasks' \in [Tasks -> TaskRow] /\ NoRelations'
  BY <1>0, <1>1, <1>7, StatusShape
<1>8. ASSUME NEW t \in Tasks, NEW draft \in Drafts, WritePlan(t, draft)
      PROVE  /\ tasks' \in [Tasks -> TaskRow] /\ NoRelations'
             /\ plans' \in [Tasks -> Seq(Step)]
  <2>1. tasks' \in [Tasks -> TaskRow] /\ NoRelations'
    BY <1>2, <1>8 DEF WritePlan
  <2>2. plans' = [plans EXCEPT ![t] = draft] /\ draft \in Seq(Step)
    BY <1>8, DraftAssumption DEF WritePlan
  <2> QED
    BY <1>0, <2>1, <2>2
<1>9. ASSUME NEW k \in Criteria, NEW t \in Tasks, NEW row \in Criterion, WriteCriterion(k, row, t)
      PROVE  /\ tasks' \in [Tasks -> TaskRow] /\ NoRelations'
             /\ criteria' \in [Criteria -> Criterion]
  <2>1. tasks' \in [Tasks -> TaskRow] /\ NoRelations'
    BY <1>2, <1>9 DEF WriteCriterion
  <2> QED
    BY <1>0, <1>9, <2>1 DEF WriteCriterion
<1>10. CASE \E t \in Tasks, p \in Projects \cup {Nothing}, s \in Sessions \cup {Nothing},
               w \in Worktrees \cup {Nothing}, parent \in Tasks \cup {Nothing} :
              /\ InsertTask(t, p, s, w, parent) \/ WriteRelations(t, p, s, w, parent)
              /\ UNCHANGED <<deps, plans, criteria>>
  <2>1. tasks' \in [Tasks -> TaskRow] /\ NoRelations' /\ UNCHANGED <<deps, plans, criteria>>
    BY <1>4, <1>10
  <2> QED
    BY <1>0, <2>1
<1>11. CASE \E t \in Tasks, status \in TaskStatus : \E verified \in verdicts[t] :
              StatusAllowed(t, status, verified) /\ WriteStatus(t, status)
  <2>1. tasks' \in [Tasks -> TaskRow] /\ NoRelations' /\ UNCHANGED <<deps, plans, criteria>>
    BY <1>7, <1>11 DEF WriteStatus
  <2> QED
    BY <1>0, <2>1
<1>12. CASE \E t \in Tasks, draft \in Drafts : ValidPlan(draft) /\ WritePlan(t, draft)
  <2>1. /\ tasks' \in [Tasks -> TaskRow] /\ NoRelations' /\ plans' \in [Tasks -> Seq(Step)]
        /\ UNCHANGED <<deps, criteria>>
    BY <1>8, <1>12 DEF WritePlan
  <2> QED
    BY <1>0, <2>1
<1>13. CASE \E k \in Criteria, t \in Tasks, row \in Criterion :
              /\ criteria[k].task \in {t, Nothing} /\ row.task \in {t, Nothing}
              /\ WriteCriterion(k, row, t)
  <2>1. /\ tasks' \in [Tasks -> TaskRow] /\ NoRelations'
        /\ criteria' \in [Criteria -> Criterion] /\ UNCHANGED <<deps, plans>>
    BY <1>9, <1>13 DEF WriteCriterion
  <2> QED
    BY <1>0, <2>1
<1> QED
  BY <1>3, <1>5, <1>6, <1>10, <1>11, <1>12, <1>13 DEF Transaction

-----------------------------------------------------------------------------
(***************************************************************************)
(* Cycles.                                                                 *)
(***************************************************************************)

\* New edges of one task close no cycle, if it cannot be reached from where they lead.
LEMMA NewEdges ==
  ASSUME NEW t \in Tasks, NEW base, NEW edges, NEW needs \in SUBSET Tasks, t \notin needs,
         Acyclic(base), \A u \in needs : t \notin Reachable(base, u),
         \A x, y \in Tasks : <<x, y>> \in edges =>
           \/ x # t /\ <<x, y>> \in base
           \/ x = t /\ y \in needs
  PROVE  Acyclic(edges)
<1> SUFFICES ASSUME NEW S \in SUBSET Tasks, S # {}, \A x \in S : \E y \in S : <<x, y>> \in edges
             PROVE  FALSE
  BY DEF Acyclic
<1>1. CASE t \notin S
  <2>1. \A x \in S : \E y \in S : <<x, y>> \in base
    BY <1>1
  <2> QED
    BY <2>1 DEF Acyclic
<1>2. CASE t \in S
  <2>1. PICK u \in S : u \in needs
    BY <1>2
  <2>2. PICK C \in SUBSET Tasks :
          /\ \A x \in C \cup {u} : \A y \in Tasks : <<x, y>> \in base => y \in C
          /\ t \notin C
    BY <2>1 DEF Reachable
  <2> DEFINE D == (C \cup {u}) \cap S
  <2>3. D \in SUBSET Tasks /\ D # {} /\ t \notin D
    BY <2>1, <2>2
  <2>4. ASSUME NEW x \in D
        PROVE  \E y \in D : <<x, y>> \in base
    <3>1. PICK y \in S : <<x, y>> \in edges
      OBVIOUS
    <3>2. x # t /\ x \in Tasks /\ y \in Tasks
      BY <2>3
    <3>3. <<x, y>> \in base
      BY <3>1, <3>2
    <3>4. y \in D
      BY <2>2, <3>2, <3>3
    <3> QED
      BY <3>3, <3>4
  <2> HIDE DEF D
  <2> QED
    BY <2>3, <2>4 DEF Acyclic
<1> QED
  BY <1>1, <1>2

\* Fewer edges have no more cycles.
LEMMA FewerEdges ==
  ASSUME NEW base, NEW edges, Acyclic(base), \A x, y \in Tasks : <<x, y>> \in edges => <<x, y>> \in base
  PROVE  Acyclic(edges)
<1> SUFFICES ASSUME NEW S \in SUBSET Tasks, S # {}
             PROVE  \E x \in S : \A y \in S : <<x, y>> \notin edges
  BY DEF Acyclic
<1>1. PICK x \in S : \A y \in S : <<x, y>> \notin base
  BY DEF Acyclic
<1> QED
  BY <1>1

\* The edges to parents are what the rows say.
LEMMA ParentEdges ==
  ASSUME NEW x \in Tasks, NEW y \in Tasks
  PROVE  <<x, y>> \in Parents <=> tasks[x].parent = y
  BY NothingAssumption DEF Parents

\* The same after a step.
LEMMA ParentEdgesNext ==
  ASSUME NEW x \in Tasks, NEW y \in Tasks
  PROVE  <<x, y>> \in Parents' <=> tasks'[x].parent = y
  BY NothingAssumption DEF Parents

\* A transaction that keeps relations adds no parent.
LEMMA SameParents ==
  ASSUME SameRelations, Acyclic(Parents)
  PROVE  Acyclic(Parents')
<1>1. \A x, y \in Tasks : <<x, y>> \in Parents' => <<x, y>> \in Parents
  BY ParentEdges, ParentEdgesNext DEF SameRelations, Relations
<1> QED
  BY <1>1, FewerEdges

OrderedPlans == \A t \in Tasks : \A i \in DOMAIN plans[t] : \A j \in plans[t][i].after : j < i

\* No transaction closes a cycle.
LEMMA TransactionCycles ==
  ASSUME PlanBase, NothingWaitsForItself, NEW verdicts, Transaction(verdicts)
  PROVE  NothingWaitsForItself'
<1>0. /\ Acyclic(deps) /\ Acyclic(Parents) /\ OrderedPlans
      /\ tasks \in [Tasks -> TaskRow] /\ deps \subseteq Tasks \X Tasks
      /\ plans \in [Tasks -> Seq(Step)]
  BY DEF NothingWaitsForItself, OrderedPlans, PlanBase, PlanningTypeOK
<1>1. Acyclic(deps')
  <2>1. CASE deps' \subseteq deps
    BY <1>0, <2>1, FewerEdges
  <2>2. ASSUME NEW t \in Tasks, NEW needs \in SUBSET Tasks, MayDepend(t, needs),
               WriteDependencies(t, needs)
        PROVE  Acyclic(deps')
    <3> DEFINE others == {e \in deps : e[1] # t}
    <3>1. Acyclic(others)
      BY <1>0, FewerEdges
    <3>2. t \notin needs /\ \A u \in needs : t \notin Reachable(others, u)
      BY <2>2 DEF MayDepend
    <3>3. \A x, y \in Tasks : <<x, y>> \in deps' =>
            \/ x # t /\ <<x, y>> \in others
            \/ x = t /\ y \in needs
      BY <2>2 DEF WriteDependencies
    <3> HIDE DEF others
    <3> QED
      BY <3>1, <3>2, <3>3, NewEdges
  <2>3. \/ deps' \subseteq deps
        \/ \E t \in Tasks, needs \in SUBSET Tasks : MayDepend(t, needs) /\ WriteDependencies(t, needs)
    BY DEF Transaction, RemoveTask, WriteStatus, WritePlan, WriteCriterion
  <2> QED
    BY <2>1, <2>2, <2>3
<1>2. Acyclic(Parents')
  <2>1. CASE SameRelations
    BY <1>0, <2>1, SameParents
  <2>2. ASSUME NEW t \in Tasks, NEW p \in Projects \cup {Nothing},
               NEW s \in Sessions \cup {Nothing}, NEW w \in Worktrees \cup {Nothing},
               NEW parent \in Tasks \cup {Nothing},
               InsertTask(t, p, s, w, parent) \/ WriteRelations(t, p, s, w, parent)
        PROVE  Acyclic(Parents')
    <3>0. PICK project \in Projects \cup {Nothing} : Related(t, project, s, w, parent)
      BY <2>2, RelationsShape DEF Related
    <3>1. /\ MayRelate(t, project, s, w, parent)
          /\ tasks' \in [Tasks -> TaskRow]
          /\ \A u \in Tasks : u # t => tasks'[u] = tasks[u]
          /\ tasks'[t].parent = parent
      BY <3>0 DEF Related
    <3> DEFINE needs == {parent} \ {Nothing}
    <3>2. needs \in SUBSET Tasks /\ t \notin needs
      BY <3>1 DEF MayRelate
    <3>3. \A u \in needs : t \notin Reachable(Parents, u)
      BY <3>1 DEF MayRelate, ParentCycle
    <3>4. \A x, y \in Tasks : <<x, y>> \in Parents' =>
            \/ x # t /\ <<x, y>> \in Parents
            \/ x = t /\ y \in needs
      BY <3>1, ParentEdges, ParentEdgesNext, NothingAssumption
    <3> HIDE DEF needs
    <3> QED
      BY <1>0, <3>2, <3>3, <3>4, NewEdges
  <2>3. ASSUME NEW t \in Tasks, RemoveTask(t)
        PROVE  Acyclic(Parents')
    <3>1. \A x, y \in Tasks : tasks'[x].parent = y => tasks[x].parent = y
      BY <2>3, RemoveShape, NothingAssumption DEF NoTask
    <3>2. \A x, y \in Tasks : <<x, y>> \in Parents' => <<x, y>> \in Parents
      BY <3>1, ParentEdges, ParentEdgesNext
    <3> QED
      BY <1>0, <3>2, FewerEdges
  <2>4. CASE UNCHANGED tasks
    BY <2>1, <2>4 DEF SameRelations
  <2>5. ASSUME NEW t \in Tasks, tasks' = Reopened(t)
        PROVE  Acyclic(Parents')
    BY <2>1, <2>5, ReopenedShape
  <2>6. ASSUME NEW t \in Tasks, NEW status \in TaskStatus, WriteStatus(t, status)
        PROVE  Acyclic(Parents')
    BY <2>1, <2>6, StatusShape
  <2> QED
    BY <2>2, <2>3, <2>4, <2>5, <2>6
       DEF Transaction, WriteDependencies, WritePlan, WriteCriterion
<1>3. OrderedPlans'
  <2>1. CASE UNCHANGED plans
    BY <1>0, <2>1 DEF OrderedPlans
  <2>2. ASSUME NEW t \in Tasks, plans' = [plans EXCEPT ![t] = <<>>]
        PROVE  OrderedPlans'
    <3>1. DOMAIN <<>> = {}
      OBVIOUS
    <3> QED
      BY <1>0, <2>2, <3>1 DEF OrderedPlans
  <2>3. ASSUME NEW t \in Tasks, NEW draft \in Drafts, ValidPlan(draft), WritePlan(t, draft)
        PROVE  OrderedPlans'
    <3>1. ASSUME NEW i \in DOMAIN draft, NEW j \in draft[i].after
          PROVE  j < i
      <4>1. draft \in Seq(Step) /\ j \in 1..(i - 1)
        BY <2>3, DraftAssumption DEF ValidPlan
      <4> QED
        BY <4>1
    <3>2. plans' = [plans EXCEPT ![t] = draft]
      BY <2>3 DEF WritePlan
    <3> QED
      BY <1>0, <3>1, <3>2 DEF OrderedPlans
  <2> QED
    BY <2>1, <2>2, <2>3
       DEF Transaction, RemoveTask, WriteDependencies, WriteStatus, WriteCriterion
<1> QED
  BY <1>1, <1>2, <1>3 DEF NothingWaitsForItself, OrderedPlans

-----------------------------------------------------------------------------
(***************************************************************************)
(* Projects.                                                               *)
(***************************************************************************)

\* The relatives of a task, row by row.
InProject(t) ==
  /\ tasks[t].session # Nothing => tasks[t].project = Home[tasks[t].session]
  /\ tasks[t].worktree # Nothing => tasks[t].project = Home[tasks[t].worktree]
  /\ \A u \in Tasks : <<t, u>> \in deps \/ tasks[t].parent = u =>
       Exists(t) /\ Exists(u) /\ tasks[t].project = tasks[u].project

\* What holds row by row.
LEMMA RowByRow ==
  ASSUME PlanBase, RelativesShareTheirProject, NEW t \in Tasks
  PROVE  InProject(t)
<1>1. \A u \in Tasks : tasks[t].parent = u => Exists(t)
  BY NothingAssumption DEF PlanBase, NoRelations, NoTask
<1>2. ASSUME NEW u \in Tasks, <<t, u>> \in deps
      PROVE  Exists(t) /\ Exists(u) /\ tasks[t].project = tasks[u].project
  BY <1>2 DEF RelativesShareTheirProject
<1>3. ASSUME NEW u \in Tasks, tasks[t].parent = u
      PROVE  Exists(u) /\ tasks[t].project = tasks[u].project
  <2>1. <<t, u>> \in Parents
    BY <1>3, ParentEdges
  <2> QED
    BY <2>1 DEF RelativesShareTheirProject
<1> QED
  BY <1>1, <1>2, <1>3 DEF RelativesShareTheirProject, InProject

\* And back, after a transaction.
LEMMA RowsTogether ==
  ASSUME tasks' \in [Tasks -> TaskRow], deps' \subseteq Tasks \X Tasks,
         \A t \in Tasks : InProject(t)'
  PROVE  RelativesShareTheirProject'
<1>1. ASSUME NEW e \in deps'
      PROVE  /\ Exists(e[1])' /\ Exists(e[2])'
             /\ tasks'[e[1]].project = tasks'[e[2]].project
  <2>1. PICK t \in Tasks, u \in Tasks : e = <<t, u>>
    OBVIOUS
  <2> QED
    BY <2>1 DEF InProject, Exists
<1>2. ASSUME NEW e \in Parents'
      PROVE  Exists(e[2])' /\ tasks'[e[1]].project = tasks'[e[2]].project
  <2>1. PICK t \in Tasks : e = <<t, tasks'[t].parent>> /\ tasks'[t].parent # Nothing
    BY DEF Parents
  <2>2. tasks'[t].parent \in Tasks
    BY <2>1 DEF TaskRow
  <2> QED
    BY <2>1, <2>2 DEF InProject, Exists
<1> QED
  BY <1>1, <1>2 DEF RelativesShareTheirProject, InProject, Exists

\* No transaction separates relatives.
LEMMA TransactionProjects ==
  ASSUME PlanBase, RelativesShareTheirProject, NEW verdicts, Transaction(verdicts)
  PROVE  RelativesShareTheirProject'
<1>0. (\A x \in Tasks : InProject(x)) /\ tasks \in [Tasks -> TaskRow]
  BY RowByRow DEF PlanBase, PlanningTypeOK
<1> SUFFICES ASSUME NEW y \in Tasks
             PROVE  InProject(y)'
  BY TransactionTypes, RowsTogether
<1>1. ASSUME SameRelations, deps' \subseteq deps, NEW x \in Tasks
      PROVE  InProject(x)'
  <2>1. /\ tasks'[x].project = tasks[x].project /\ tasks'[x].session = tasks[x].session
        /\ tasks'[x].worktree = tasks[x].worktree /\ tasks'[x].parent = tasks[x].parent
    BY <1>1 DEF SameRelations, Relations
  <2>2. \A u \in Tasks : /\ tasks'[u].project = tasks[u].project
                         /\ tasks'[u].status = "none" <=> tasks[u].status = "none"
    BY <1>1 DEF SameRelations, Relations
  <2> QED
    BY <1>0, <1>1, <2>1, <2>2 DEF InProject, Exists
<1>2. ASSUME NEW t \in Tasks, NEW needs \in SUBSET Tasks, MayDepend(t, needs),
             WriteDependencies(t, needs), NEW x \in Tasks
      PROVE  InProject(x)'
  <2>1. SameRelations
    BY <1>2, ReopenedShape DEF WriteDependencies
  <2>2. /\ tasks'[x].project = tasks[x].project /\ tasks'[x].session = tasks[x].session
        /\ tasks'[x].worktree = tasks[x].worktree /\ tasks'[x].parent = tasks[x].parent
    BY <2>1 DEF SameRelations, Relations
  <2>3. \A u \in Tasks : /\ tasks'[u].project = tasks[u].project
                         /\ tasks'[u].status = "none" <=> tasks[u].status = "none"
    BY <2>1 DEF SameRelations, Relations
  <2>4. ASSUME NEW u \in Tasks, <<x, u>> \in deps'
        PROVE  Exists(x) /\ Exists(u) /\ tasks[x].project = tasks[u].project
    <3>1. CASE <<x, u>> \in deps
      BY <1>0, <3>1 DEF InProject
    <3>2. CASE x = t /\ u \in needs
      BY <1>2, <3>2 DEF MayDepend
    <3> QED
      BY <1>2, <2>4, <3>1, <3>2 DEF WriteDependencies
  <2> QED
    BY <1>0, <2>2, <2>3, <2>4 DEF InProject, Exists
<1>3. ASSUME NEW t \in Tasks, NEW p \in Projects \cup {Nothing}, NEW s \in Sessions \cup {Nothing},
             NEW w \in Worktrees \cup {Nothing}, NEW parent \in Tasks \cup {Nothing},
             InsertTask(t, p, s, w, parent) \/ WriteRelations(t, p, s, w, parent),
             deps' = deps, NEW x \in Tasks
      PROVE  InProject(x)'
  <2>0. PICK project \in Projects \cup {Nothing} : Related(t, project, s, w, parent)
    BY <1>3, RelationsShape DEF Related
  <2>1. /\ MayRelate(t, project, s, w, parent)
        /\ \A u \in Tasks : u # t => tasks'[u] = tasks[u]
        /\ tasks'[t].status # "none" /\ tasks'[t].project = project
        /\ tasks'[t].session = s /\ tasks'[t].worktree = w /\ tasks'[t].parent = parent
    BY <2>0 DEF Related
  <2>2. CASE x = t
    <3>1. ASSUME NEW u \in Tasks, <<t, u>> \in deps \/ parent = u, u # t
          PROVE  Exists(u) /\ tasks[u].project = project
      <4>1. CASE <<t, u>> \in deps
        <5>1. Exists(u)
          BY <1>0, <4>1 DEF InProject
        <5>2. u \in Neighbours(t)
          BY <4>1 DEF Neighbours
        <5> QED
          BY <2>1, <5>1, <5>2 DEF MayRelate
      <4>2. CASE parent = u
        BY <2>1, <4>2, NothingAssumption DEF MayRelate
      <4> QED
        BY <3>1, <4>1, <4>2
    <3>2. /\ s # Nothing => project = Home[s]
          /\ w # Nothing => project = Home[w]
      BY <2>1 DEF MayRelate
    <3> QED
      BY <1>3, <2>1, <2>2, <3>1, <3>2 DEF InProject, Exists
  <2>3. CASE x # t
    <3>1. tasks'[x] = tasks[x] /\ InProject(x)
      BY <1>0, <2>1, <2>3
    <3>2. <<x, t>> \in deps \/ tasks[x].parent = t => tasks[x].project = project
      BY <2>1, <3>1 DEF InProject, MayRelate, Neighbours
    <3>3. ASSUME NEW u \in Tasks, <<x, u>> \in deps \/ tasks[x].parent = u
          PROVE  /\ tasks'[x].status # "none" /\ tasks'[u].status # "none"
                 /\ tasks'[x].project = tasks'[u].project
      BY <2>1, <3>1, <3>2, <3>3 DEF InProject, Exists
    <3> QED
      BY <1>3, <3>1, <3>3 DEF InProject, Exists
  <2> QED
    BY <2>2, <2>3
<1>4. ASSUME NEW t \in Tasks, RemoveTask(t), NEW x \in Tasks
      PROVE  InProject(x)'
  <2>1. CASE x = t
    <3>1. tasks'[x] = NoTask /\ \A u \in Tasks : <<x, u>> \notin deps'
      BY <1>4, <2>1, RemoveShape
    <3> QED
      BY <3>1, NothingAssumption DEF InProject, NoTask
  <2>2. CASE x # t
    <3>1. /\ tasks'[x].project = tasks[x].project /\ tasks'[x].session = tasks[x].session
          /\ tasks'[x].worktree = tasks[x].worktree /\ tasks'[x].status = tasks[x].status
      BY <1>4, <2>2, RemoveShape
    <3>2. ASSUME NEW u \in Tasks, <<x, u>> \in deps' \/ tasks'[x].parent = u
          PROVE  /\ <<x, u>> \in deps \/ tasks[x].parent = u
                 /\ tasks'[u].project = tasks[u].project /\ tasks'[u].status = tasks[u].status
      <4>1. (<<x, u>> \in deps \/ tasks[x].parent = u) /\ u # t
        BY <1>4, <2>2, <3>2, RemoveShape, NothingAssumption
      <4> QED
        BY <1>4, <4>1, RemoveShape
    <3> QED
      BY <1>0, <3>1, <3>2 DEF InProject, Exists
  <2> QED
    BY <2>1, <2>2
<1>5. CASE UNCHANGED tasks /\ deps' = deps
  BY <1>1, <1>5 DEF SameRelations
<1>6. ASSUME NEW t \in Tasks, tasks' = Reopened(t), deps' = deps, NEW x \in Tasks
      PROVE  InProject(x)'
  BY <1>1, <1>6, ReopenedShape
<1>7. ASSUME NEW t \in Tasks, NEW status \in TaskStatus, WriteStatus(t, status), NEW x \in Tasks
      PROVE  InProject(x)'
  <2>1. SameRelations /\ deps' \subseteq deps
    BY <1>7, StatusShape DEF WriteStatus
  <2> QED
    BY <1>1, <2>1
<1> QED
  BY <1>2, <1>3, <1>4, <1>5, <1>6, <1>7 DEF Transaction, WritePlan, WriteCriterion

-----------------------------------------------------------------------------
(***************************************************************************)
(* Completion.                                                             *)
(***************************************************************************)

Done(t) == tasks[t].status \in Finished => IncompleteSteps(t) = {} /\ UnsatisfiedCriteria(t) = {}

\* No transaction leaves a task completed whose plan or criteria it changes.
LEMMA TransactionDone ==
  ASSUME PlanBase, CompletedTasksAreDone, NEW verdicts, Transaction(verdicts)
  PROVE  CompletedTasksAreDone'
<1>0. /\ \A x \in Tasks : Done(x)
      /\ tasks \in [Tasks -> TaskRow] /\ plans \in [Tasks -> Seq(Step)]
      /\ criteria \in [Criteria -> Criterion]
  BY DEF CompletedTasksAreDone, Done, PlanBase, PlanningTypeOK
<1> SUFFICES ASSUME NEW x \in Tasks
             PROVE  Done(x)'
  BY DEF CompletedTasksAreDone, Done
<1>1. ASSUME tasks'[x].status \in Finished => tasks'[x].status = tasks[x].status,
             plans'[x] = plans[x],
             \A k \in Criteria : criteria'[k].task = x => criteria'[k] = criteria[k]
      PROVE  Done(x)'
  <2> SUFFICES ASSUME tasks'[x].status \in Finished
               PROVE  IncompleteSteps(x)' = {} /\ UnsatisfiedCriteria(x)' = {}
    BY DEF Done
  <2>1. IncompleteSteps(x) = {} /\ UnsatisfiedCriteria(x) = {}
    BY <1>0, <1>1 DEF Done
  <2>2. IncompleteSteps(x)' = {}
    BY <1>1, <2>1 DEF IncompleteSteps
  <2>3. UnsatisfiedCriteria(x)' = {}
    BY <1>1, <2>1 DEF UnsatisfiedCriteria
  <2> QED
    BY <2>2, <2>3
<1>2. ASSUME NEW t \in Tasks, tasks' = Reopened(t),
             x # t => /\ plans'[x] = plans[x]
                      /\ \A k \in Criteria : criteria'[k].task = x => criteria'[k] = criteria[k]
      PROVE  Done(x)'
  <2>1. CASE x = t
    <3>1. tasks'[x].status \notin Finished
      BY <1>2, <2>1, ReopenedShape
    <3> QED
      BY <3>1 DEF Done
  <2>2. CASE x # t
    <3>1. tasks'[x] = tasks[x]
      BY <1>2, <2>2, ReopenedShape
    <3> QED
      BY <1>1, <1>2, <2>2, <3>1
  <2> QED
    BY <2>1, <2>2
<1>3. CASE UNCHANGED <<tasks, deps, plans, criteria>>
  BY <1>1, <1>3
<1>4. ASSUME NEW t \in Tasks, NEW p \in Projects \cup {Nothing}, NEW s \in Sessions \cup {Nothing},
             NEW w \in Worktrees \cup {Nothing}, NEW parent \in Tasks \cup {Nothing},
             InsertTask(t, p, s, w, parent) \/ WriteRelations(t, p, s, w, parent),
             UNCHANGED <<deps, plans, criteria>>
      PROVE  Done(x)'
  <2>1. tasks'[x].status \in Finished => tasks'[x].status = tasks[x].status
    <3>1. CASE x = t
      BY <1>4, <3>1, RelationsShape DEF Related
    <3>2. CASE x # t
      <4>1. tasks'[x] = tasks[x]
        BY <1>4, <3>2, RelationsShape DEF Related
      <4> QED
        BY <4>1
    <3> QED
      BY <3>1, <3>2
  <2> QED
    BY <1>1, <1>4, <2>1
<1>5. ASSUME NEW t \in Tasks, RemoveTask(t)
      PROVE  Done(x)'
  <2>1. tasks'[x].status \in Finished => x # t
    BY <1>5, RemoveShape DEF NoTask, Finished
  <2>2. tasks'[x].status \in Finished => tasks'[x].status = tasks[x].status
    BY <1>5, <2>1, RemoveShape
  <2>3. \A k \in Criteria : criteria'[k].task = x => criteria'[k] = criteria[k]
    BY <1>5, RemoveShape, NothingAssumption DEF NoCriterion
  <2>4. x # t => plans'[x] = plans[x]
    BY <1>0, <1>5, RemoveShape
  <2>5. CASE tasks'[x].status \in Finished
    BY <1>1, <2>1, <2>2, <2>3, <2>4, <2>5
  <2> QED
    BY <2>5 DEF Done
<1>6. ASSUME NEW t \in Tasks, NEW needs \in SUBSET Tasks, WriteDependencies(t, needs)
      PROVE  Done(x)'
  BY <1>2, <1>6 DEF WriteDependencies
<1>7. ASSUME NEW t \in Tasks, NEW status \in TaskStatus, NEW verified,
             StatusAllowed(t, status, verified), WriteStatus(t, status)
      PROVE  Done(x)'
  <2>1. UNCHANGED <<plans, criteria>>
    BY <1>7 DEF WriteStatus
  <2>2. CASE x = t /\ Exists(t)
    <3>1. tasks'[x].status = status
      BY <1>7, <2>2, StatusShape
    <3>2. status \in Finished => IncompleteSteps(x) = {} /\ UnsatisfiedCriteria(x) = {}
      BY <1>7, <2>2 DEF StatusAllowed, Completable
    <3>3. status \in Finished => IncompleteSteps(x)' = {} /\ UnsatisfiedCriteria(x)' = {}
      BY <2>1, <3>2 DEF IncompleteSteps, UnsatisfiedCriteria
    <3> QED
      BY <3>1, <3>3 DEF Done
  <2>3. CASE x # t \/ ~Exists(t)
    <3>1. tasks'[x] = tasks[x]
      BY <1>7, <2>3, StatusShape
    <3> QED
      BY <1>1, <2>1, <3>1
  <2> QED
    BY <2>2, <2>3
<1>8. ASSUME NEW t \in Tasks, NEW draft \in Drafts, WritePlan(t, draft)
      PROVE  Done(x)'
  <2>1. x # t => plans'[x] = plans[x]
    BY <1>0, <1>8 DEF WritePlan
  <2> QED
    BY <1>2, <1>8, <2>1 DEF WritePlan
<1>9. ASSUME NEW k \in Criteria, NEW t \in Tasks, NEW row \in Criterion,
             criteria[k].task \in {t, Nothing}, row.task \in {t, Nothing}, WriteCriterion(k, row, t)
      PROVE  Done(x)'
  <2>1. criteria' = [criteria EXCEPT ![k] = row] /\ tasks' = Reopened(t) /\ plans' = plans
    BY <1>9 DEF WriteCriterion
  <2>2. x # t => \A j \in Criteria : criteria'[j].task = x => criteria'[j] = criteria[j]
    BY <1>0, <1>9, <2>1, NothingAssumption
  <2> QED
    BY <1>2, <2>1, <2>2
<1> QED
  BY <1>3, <1>4, <1>5, <1>6, <1>7, <1>8, <1>9 DEF Transaction

-----------------------------------------------------------------------------
(***************************************************************************)
(* Planning by itself.                                                     *)
(***************************************************************************)

\* The tables of planning, and the creations that are under way.
PlanInv ==
  /\ PlanBase /\ Creating
  /\ NothingWaitsForItself /\ RelativesShareTheirProject /\ CompletedTasksAreDone

\* Every method is one transaction.
LEMMA PlanningTransaction ==
  ASSUME PlanBase, Creating, NEW verdicts, NEW c \in Clients, Planning(c, verdicts)
  PROVE  Transaction(verdicts) /\ creating' \in [Clients -> Creation] /\ Creating'
<1>0. /\ creating \in [Clients -> Creation] /\ tasks \in [Tasks -> TaskRow]
      /\ criteria \in [Criteria -> Criterion]
  BY DEF PlanBase, PlanningTypeOK
<1>1. ASSUME UNCHANGED creating
      PROVE  creating' \in [Clients -> Creation] /\ Creating'
  BY <1>0, <1>1 DEF Creating
<1>2. ASSUME creating' = [creating EXCEPT ![c] = NoCreation]
      PROVE  creating' \in [Clients -> Creation] /\ Creating'
  <2>1. NoCreation \in Creation /\ NoCreation.pc = "idle"
    BY DEF NoCreation, Creation, TaskStatus
  <2> QED
    BY <1>0, <1>2, <2>1 DEF Creating
<1>3. ASSUME NEW t \in Tasks, NEW p \in Projects \cup {Nothing}, NEW s \in Sessions \cup {Nothing},
             NEW w \in Worktrees \cup {Nothing}, NEW parent \in Tasks \cup {Nothing},
             UpdateTask(c, t, p, s, w, parent)
      PROVE  Transaction(verdicts) /\ creating' \in [Clients -> Creation] /\ Creating'
  BY <1>1, <1>3 DEF UpdateTask, Transaction
<1>4. ASSUME NEW t \in Tasks, NEW p \in Projects \cup {Nothing}, NEW s \in Sessions \cup {Nothing},
             NEW w \in Worktrees \cup {Nothing}, NEW parent \in Tasks \cup {Nothing},
             CreateTask(c, t, p, s, w, parent)
      PROVE  Transaction(verdicts) /\ creating' \in [Clients -> Creation] /\ Creating'
  <2>1. PICK needs \in SUBSET Tasks, status \in Requested :
          creating' = [creating EXCEPT ![c] =
            [pc |-> "depend", task |-> t, needs |-> needs, status |-> status]]
    BY <1>4 DEF CreateTask
  <2> DEFINE q == [pc |-> "depend", task |-> t, needs |-> needs, status |-> status]
  <2>2. q \in Creation /\ q.task = t
    BY RequestAssumption DEF Creation
  <2>3. creating' = [creating EXCEPT ![c] = q]
    BY <2>1
  <2> HIDE DEF q
  <2>4. creating' \in [Clients -> Creation] /\ Creating'
    BY <1>0, <2>2, <2>3 DEF Creating
  <2>5. Transaction(verdicts)
    BY <1>4 DEF CreateTask, Transaction
  <2> QED
    BY <2>4, <2>5
<1>5. ASSUME CreateDependencies(c)
      PROVE  Transaction(verdicts) /\ creating' \in [Clients -> Creation] /\ Creating'
  <2> DEFINE t == creating[c].task
             q == [creating[c] EXCEPT !.pc = "status"]
  <2>1. t \in Tasks /\ creating[c].needs \in SUBSET Tasks
    BY <1>0, <1>5 DEF CreateDependencies, Creating, Creation
  <2>2. Transaction(verdicts)
    BY <1>5, <2>1 DEF CreateDependencies, Transaction
  <2>3. q \in Creation /\ q.task = t
    BY <1>0 DEF Creation
  <2>4. creating' = [creating EXCEPT ![c] = NoCreation] \/ creating' = [creating EXCEPT ![c] = q]
    BY <1>0, <1>5 DEF CreateDependencies
  <2> HIDE DEF q
  <2>5. CASE creating' = [creating EXCEPT ![c] = q]
    BY <1>0, <2>1, <2>2, <2>3, <2>5 DEF Creating
  <2> QED
    BY <1>2, <2>2, <2>4, <2>5
<1>6. ASSUME NEW t \in Tasks, NEW verified \in verdicts[t], creating[c].task = t,
             CreateStatus(c, verified)
      PROVE  Transaction(verdicts) /\ creating' \in [Clients -> Creation] /\ Creating'
  <2>1. creating[c].status \in TaskStatus
    BY <1>0 DEF Creation
  <2>2. Transaction(verdicts)
    BY <1>6, <2>1 DEF CreateStatus, Transaction
  <2> QED
    BY <1>2, <1>6, <2>2 DEF CreateStatus
<1>7. ASSUME NEW t \in Tasks, NEW verified \in verdicts[t], NEW status \in Requested,
             SetTaskStatus(c, t, status, verified)
      PROVE  Transaction(verdicts) /\ creating' \in [Clients -> Creation] /\ Creating'
  <2>1. status \in TaskStatus
    BY RequestAssumption
  <2> QED
    BY <1>1, <1>7, <2>1 DEF SetTaskStatus, Transaction
<1>8. ASSUME NEW t \in Tasks,
             \/ DeleteTask(c, t)
             \/ \E needs \in SUBSET Tasks : ReplaceDependencies(c, t, needs)
             \/ \E draft \in Drafts : ReplacePlan(c, t, draft)
      PROVE  Transaction(verdicts) /\ creating' \in [Clients -> Creation] /\ Creating'
  BY <1>1, <1>8 DEF DeleteTask, ReplaceDependencies, ReplacePlan, Transaction
<1>9. ASSUME NEW k \in Criteria, NEW t \in Tasks, NEW row \in Criterion,
             criteria[k].task \in {t, Nothing}, row.task \in {t, Nothing}, WriteCriterion(k, row, t)
      PROVE  Transaction(verdicts) /\ creating' \in [Clients -> Creation] /\ Creating'
  BY <1>1, <1>9 DEF WriteCriterion, Transaction
<1>10. ASSUME NEW k \in Criteria, NEW t \in Tasks, NEW required \in BOOLEAN,
              CreateCriterion(c, k, t, required)
       PROVE  Transaction(verdicts) /\ creating' \in [Clients -> Creation] /\ Creating'
  <2> DEFINE row == [task |-> t, required |-> required, status |-> "pending"]
  <2>1. row \in Criterion /\ row.task = t
    BY DEF Criterion, CriterionStatus
  <2>2. criteria[k].task = Nothing /\ WriteCriterion(k, row, t)
    BY <1>10 DEF CreateCriterion, InsertCriterion, HasCriterion
  <2> HIDE DEF row
  <2> QED
    BY <1>9, <2>1, <2>2
<1>11. ASSUME NEW k \in Criteria, HasCriterion(k)
       PROVE  criteria[k] \in Criterion /\ criteria[k].task \in Tasks
  BY <1>0, <1>11 DEF HasCriterion, Criterion
<1>12. ASSUME NEW k \in Criteria, NEW flag \in BOOLEAN,
              UpdateCriterion(c, k, flag) \/ EvaluateCriterion(c, k, flag)
       PROVE  Transaction(verdicts) /\ creating' \in [Clients -> Creation] /\ Creating'
  <2> DEFINE one == [criteria[k] EXCEPT !.required = flag]
             other == [criteria[k] EXCEPT !.status = IF flag THEN "passed" ELSE "failed"]
  <2>1. criteria[k] \in Criterion /\ criteria[k].task \in Tasks
    BY <1>11, <1>12 DEF UpdateCriterion, EvaluateCriterion
  <2>2. /\ one \in Criterion /\ one.task = criteria[k].task
        /\ other \in Criterion /\ other.task = criteria[k].task
    BY <2>1 DEF Criterion, CriterionStatus
  <2>3. \E row \in {one, other} : WriteCriterion(k, row, criteria[k].task)
    BY <1>12 DEF UpdateCriterion, EvaluateCriterion, EditCriterion, JudgeCriterion
  <2> HIDE DEF one, other
  <2> QED
    BY <1>9, <2>1, <2>2, <2>3
<1>13. ASSUME NEW k \in Criteria, DeleteCriterion(c, k) \/ OverrideCriterion(c, k)
       PROVE  Transaction(verdicts) /\ creating' \in [Clients -> Creation] /\ Creating'
  <2> DEFINE q == [criteria[k] EXCEPT !.status = "overridden"]
  <2>1. criteria[k] \in Criterion /\ criteria[k].task \in Tasks
    BY <1>11, <1>13 DEF DeleteCriterion, OverrideCriterion
  <2>2. /\ q \in Criterion /\ q.task = criteria[k].task
        /\ NoCriterion \in Criterion /\ NoCriterion.task = Nothing
    BY <2>1 DEF Criterion, CriterionStatus, NoCriterion
  <2>3. \E row \in {q, NoCriterion} : WriteCriterion(k, row, criteria[k].task)
    BY <1>13 DEF DeleteCriterion, OverrideCriterion, RemoveCriterion, WaiveCriterion
  <2> HIDE DEF q
  <2> QED
    BY <1>9, <2>1, <2>2, <2>3
<1>14. ASSUME NEW k \in Criteria, AddEvidence(c, k)
       PROVE  Transaction(verdicts) /\ creating' \in [Clients -> Creation] /\ Creating'
  BY <1>1, <1>14 DEF AddEvidence, KeepCriterion, planningVars, Transaction
<1> QED
  BY <1>3, <1>4, <1>5, <1>6, <1>7, <1>8, <1>10, <1>12, <1>13, <1>14 DEF Planning

\* The methods keep what is claimed of the tables, whatever verification says.
LEMMA PlanningKeeps ==
  ASSUME PlanInv, NEW verdicts, NEW c \in Clients, Planning(c, verdicts)
  PROVE  PlanInv'
<1>1. Transaction(verdicts) /\ creating' \in [Clients -> Creation] /\ Creating'
  BY PlanningTransaction DEF PlanInv
<1>2. PlanBase'
  BY <1>1, TransactionTypes DEF PlanInv, PlanBase, PlanningTypeOK
<1>3. NothingWaitsForItself' /\ RelativesShareTheirProject' /\ CompletedTasksAreDone'
  BY <1>1, TransactionCycles, TransactionProjects, TransactionDone DEF PlanInv
<1> QED
  BY <1>1, <1>2, <1>3 DEF PlanInv

\* The empty tables.
LEMMA PlanningStart ==
  ASSUME PlanningInit
  PROVE  PlanInv
<1>1. /\ tasks = [t \in Tasks |-> NoTask] /\ deps = {} /\ plans = [t \in Tasks |-> <<>>]
      /\ criteria = [k \in Criteria |-> NoCriterion] /\ creating = [c \in Clients |-> NoCreation]
  BY DEF PlanningInit
<1>2. /\ NoTask \in TaskRow /\ NoCriterion \in Criterion /\ NoCreation \in Creation
      /\ <<>> \in Seq(Step) /\ NoTask.parent = Nothing /\ NoTask.status = "none"
      /\ NoTask.session = Nothing /\ NoTask.worktree = Nothing /\ NoCreation.pc = "idle"
  BY EmptySeq DEF NoTask, TaskRow, NoCriterion, Criterion, CriterionStatus, NoCreation,
     Creation, TaskStatus
<1>3. PlanBase /\ Creating
  BY <1>1, <1>2 DEF PlanBase, PlanningTypeOK, NoRelations, Creating
<1>4. Parents = {}
  BY <1>1, <1>2 DEF Parents
<1>5. NothingWaitsForItself
  <2>1. DOMAIN <<>> = {}
    OBVIOUS
  <2>2. Acyclic({})
    BY DEF Acyclic
  <2> QED
    BY <1>1, <1>4, <2>1, <2>2 DEF NothingWaitsForItself
<1>6. RelativesShareTheirProject
  BY <1>1, <1>2, <1>4 DEF RelativesShareTheirProject
<1>7. CompletedTasksAreDone
  BY <1>1, <1>2 DEF CompletedTasksAreDone, Finished
<1> QED
  BY <1>3, <1>5, <1>6, <1>7 DEF PlanInv

\* PlanInv is inductive.
LEMMA PlanInvariance == PlanningSpec => []PlanInv
<1>1. PlanningInit => PlanInv
  BY PlanningStart
<1>2. PlanInv /\ [PlanningNext]_planningVars => PlanInv'
  <2> SUFFICES ASSUME PlanInv, [PlanningNext]_planningVars
               PROVE  PlanInv'
    OBVIOUS
  <2>1. CASE PlanningNext
    BY <2>1, PlanningKeeps DEF PlanningNext
  <2>2. CASE UNCHANGED planningVars
    <3>1. PlanBase' /\ Creating'
      BY <2>2 DEF planningVars, PlanInv, PlanBase, PlanningTypeOK, NoRelations, Exists, Creating
    <3>2. NothingWaitsForItself' /\ RelativesShareTheirProject'
      BY <2>2 DEF planningVars, PlanInv, NothingWaitsForItself, RelativesShareTheirProject,
         Parents, Exists
    <3>3. CompletedTasksAreDone'
      BY <2>2 DEF planningVars, PlanInv, CompletedTasksAreDone, IncompleteSteps,
         UnsatisfiedCriteria
    <3> QED
      BY <3>1, <3>2, <3>3 DEF PlanInv
  <2> QED
    BY <2>1, <2>2
<1> QED
  BY <1>1, <1>2, PTL DEF PlanningSpec

\* The types of the tables of planning.
THEOREM PlanningTypes == PlanningSpec => []PlanningTypeOK
<1>1. PlanInv => PlanningTypeOK
  BY DEF PlanInv, PlanBase
<1> QED
  BY <1>1, PlanInvariance, PTL

\* No task waits for itself or is its own ancestor, and no step comes before what it
\* depends on, whoever changes dependencies, parents and plans beside each other.
THEOREM NoCycles == PlanningSpec => []NothingWaitsForItself
<1>1. PlanInv => NothingWaitsForItself
  BY DEF PlanInv
<1> QED
  BY <1>1, PlanInvariance, PTL

\* Tasks that depend on each other, a parent and its children, and what a task is
\* attached to are in one project, whichever of them is changed, moved or deleted.
THEOREM OneProject == PlanningSpec => []RelativesShareTheirProject
<1>1. PlanInv => RelativesShareTheirProject
  BY DEF PlanInv
<1> QED
  BY <1>1, PlanInvariance, PTL

-----------------------------------------------------------------------------
(***************************************************************************)
(* The rows of runs.                                                       *)
(***************************************************************************)

\* A run that says it has passed has passes of its required gates.
Passing(run) == run.status = "passed" => \A g \in Required : run.gates[g] \in {"none", "passed"}

\* What may become of a row: it keeps its task and its gates, and it does not
\* change once it has passed, except that it is deleted.
Advanced(old, new) ==
  /\ new \in Run /\ new.task = old.task
  /\ \A g \in Commands : new.gates[g] = "none" <=> old.gates[g] = "none"
  /\ Passing(old) => Passing(new)
  /\ new = old \/ old.status \notin {"passed", "deleted"} \/ new.status = "deleted"
  /\ new.status = "running" => old.status \in {"queued", "running"}

RunTypes == runs \in Seq(Run) /\ Len(runs) <= MaxRuns

\* No run is added, and each one has advanced.
RunsKept ==
  /\ runs' \in Seq(Run) /\ Len(runs') = Len(runs)
  /\ \A r \in RunIds : Advanced(runs[r], runs'[r])

\* Of the runs only r has changed, and of the tasks at most one was reopened.
OnlyRun(r) == RunsKept /\ \A x \in RunIds : x # r => runs'[x] = runs[x]
TasksKept == tasks' = tasks \/ \E t \in Tasks : tasks' = Reopened(t)

\* What stays as it is has advanced.
LEMMA StayAdvanced ==
  ASSUME NEW run \in Run
  PROVE  Advanced(run, run)
BY DEF Advanced

\* Runs are numbered.
LEMMA RunNumbers ==
  ASSUME RunTypes
  PROVE  /\ RunIds = 1..Len(runs) /\ RunIds \subseteq Ids /\ Len(runs) \in Nat
         /\ \A r \in RunIds : runs[r] \in Run
<1>1. runs \in Seq(Run) /\ Len(runs) \in Nat /\ MaxRuns \in Nat /\ Len(runs) <= MaxRuns
  BY LenProperties, RunBoundAssumption DEF RunTypes
<1>2. DOMAIN runs = 1..Len(runs)
  BY <1>1, LenProperties
<1>3. \A r \in 1..Len(runs) : runs[r] \in Run
  BY <1>1, ElementOfSeq
<1> QED
  BY <1>1, <1>2, <1>3 DEF RunIds, Ids

\* Nothing happens to the runs.
LEMMA RunsStay ==
  ASSUME RunTypes, runs' = runs
  PROVE  RunsKept
BY RunNumbers, StayAdvanced DEF RunsKept, RunTypes

\* One row is written.
LEMMA WriteRun ==
  ASSUME RunTypes, NEW r \in RunIds, NEW new \in Run, Advanced(runs[r], new),
         runs' = [runs EXCEPT ![r] = new]
  PROVE  OnlyRun(r) /\ runs'[r] = new
<1>1. runs \in Seq(Run) /\ RunIds = 1..Len(runs) /\ Len(runs) \in Nat
  BY RunNumbers DEF RunTypes
<1>2. /\ runs' \in Seq(Run) /\ Len(runs') = Len(runs) /\ runs'[r] = new
      /\ \A x \in RunIds : x # r => runs'[x] = runs[x]
  BY <1>1, ExceptSeq
<1>3. \A x \in RunIds : Advanced(runs[x], runs'[x])
  <2> TAKE x \in RunIds
  <2>1. CASE x = r
    BY <1>2, <2>1
  <2>2. CASE x # r
    <3>1. runs'[x] = runs[x] /\ runs[x] \in Run
      BY <1>2, <2>2, RunNumbers
    <3> QED
      BY <3>1, StayAdvanced
  <2> QED
    BY <2>1, <2>2
<1> QED
  BY <1>2, <1>3 DEF OnlyRun, RunsKept

\* start.
LEMMA StartShape ==
  ASSUME RunTypes, NEW r \in RunIds, WriteStart(r)
  PROVE  OnlyRun(r)
<1> DEFINE q == [runs[r] EXCEPT !.status = "running"]
<1>1. runs[r] \in Run /\ runs[r].status = "queued"
  BY RunNumbers DEF WriteStart
<1>2. /\ q \in Run /\ q.status = "running" /\ q.task = runs[r].task /\ q.gates = runs[r].gates
  BY <1>1 DEF Run, RunStatus, EndedStatus
<1>3. runs' = [runs EXCEPT ![r] = q]
  BY DEF WriteStart
<1> HIDE DEF q
<1>4. Advanced(runs[r], q)
  BY <1>1, <1>2 DEF Advanced, Passing
<1> QED
  BY <1>2, <1>3, <1>4, WriteRun

\* The task of a run may be reopened.
LEMMA ReopenedByShape ==
  ASSUME NEW t \in Tasks, NEW gates, tasks' = ReopenedBy(t, gates)
  PROVE  TasksKept
BY DEF ReopenedBy, TasksKept

\* record_gate.
LEMMA GateShape ==
  ASSUME RunTypes, NEW r \in RunIds, NEW g, NEW status \in GateStatus \ {"none"},
         MayRecord(r, g), WriteGate(r, g, status)
  PROVE  OnlyRun(r) /\ TasksKept /\ runs'[r].status = "running"
<1> DEFINE gates == [runs[r].gates EXCEPT ![g] = status]
           q == [runs[r] EXCEPT !.gates = gates]
<1>1. /\ runs[r] \in Run /\ runs[r].task \in Tasks /\ runs[r].gates \in [Commands -> GateStatus]
      /\ runs[r].status = "running" /\ runs[r].gates[g] # "none"
  BY RunNumbers DEF MayRecord, Run
<1>2. /\ gates \in [Commands -> GateStatus]
      /\ \A h \in Commands : gates[h] = "none" <=> runs[r].gates[h] = "none"
  BY <1>1
<1> HIDE DEF gates
<1>3. /\ q \in Run /\ q.status = "running" /\ q.task = runs[r].task /\ q.gates = gates
  BY <1>1, <1>2 DEF Run
<1>4. runs' = [runs EXCEPT ![r] = q]
  BY <1>1 DEF WriteGate, gates
<1> HIDE DEF q
<1>5. Advanced(runs[r], q)
  BY <1>1, <1>2, <1>3 DEF Advanced, Passing
<1>6. OnlyRun(r) /\ runs'[r] = q
  BY <1>3, <1>4, <1>5, WriteRun
<1>7. TasksKept
  BY <1>1, ReopenedByShape DEF WriteGate
<1> QED
  BY <1>3, <1>6, <1>7

\* finish.
LEMMA FinishShape ==
  ASSUME RunTypes, NEW r \in RunIds, MayFinish(r), WriteFinish(r)
  PROVE  OnlyRun(r) /\ TasksKept /\ runs'[r].status # "running"
<1> DEFINE status == IF FailedGates(r) = {} THEN "passed" ELSE "failed"
           q == [runs[r] EXCEPT !.status = status]
<1>1. /\ runs[r] \in Run /\ runs[r].task \in Tasks /\ runs[r].status = "running"
  BY RunNumbers DEF MayFinish, Run
<1>2. /\ status \in {"passed", "failed"}
      /\ status = "passed" => \A g \in Required : runs[r].gates[g] \in {"none", "passed"}
  BY DEF FailedGates, RequiredOf
<1> HIDE DEF status
<1>3. /\ q \in Run /\ q.status = status /\ q.task = runs[r].task /\ q.gates = runs[r].gates
  BY <1>1, <1>2 DEF Run, RunStatus, EndedStatus
<1>4. runs' = [runs EXCEPT ![r] = q]
  BY <1>1 DEF WriteFinish, status
<1> HIDE DEF q
<1>5. Advanced(runs[r], q)
  BY <1>1, <1>2, <1>3 DEF Advanced, Passing
<1>6. OnlyRun(r) /\ runs'[r] = q
  BY <1>3, <1>4, <1>5, WriteRun
<1>7. TasksKept
  BY <1>1, ReopenedByShape DEF WriteFinish
<1> QED
  BY <1>2, <1>3, <1>6, <1>7

\* cancel.
LEMMA CancelShape ==
  ASSUME RunTypes, NEW r \in RunIds, MayCancel(r), WriteCancel(r)
  PROVE  OnlyRun(r) /\ TasksKept /\ runs'[r].status = "cancelled"
<1> DEFINE gates == [g \in Commands |->
             IF runs[r].gates[g] = "pending" THEN "cancelled" ELSE runs[r].gates[g]]
           q == [runs[r] EXCEPT !.status = "cancelled", !.gates = gates]
<1>1. /\ runs[r] \in Run /\ runs[r].task \in Tasks /\ runs[r].gates \in [Commands -> GateStatus]
      /\ runs[r].status \in {"queued", "running"}
  BY RunNumbers DEF MayCancel, Run
<1>2. /\ gates \in [Commands -> GateStatus]
      /\ \A h \in Commands : gates[h] = "none" <=> runs[r].gates[h] = "none"
  BY <1>1 DEF GateStatus
<1>3. runs' = [runs EXCEPT ![r] = q]
  BY <1>1 DEF WriteCancel
<1> HIDE DEF gates
<1>4. /\ q \in Run /\ q.status = "cancelled" /\ q.task = runs[r].task /\ q.gates = gates
  BY <1>1, <1>2 DEF Run, RunStatus, EndedStatus
<1> HIDE DEF q
<1>5. Advanced(runs[r], q)
  BY <1>1, <1>2, <1>4 DEF Advanced, Passing
<1>6. OnlyRun(r) /\ runs'[r] = q
  BY <1>3, <1>4, <1>5, WriteRun
<1>7. TasksKept
  BY <1>1, ReopenedByShape DEF WriteCancel
<1> QED
  BY <1>4, <1>6, <1>7

\* A cancel that is tried leaves no run that is running.
LEMMA TryCancelShape ==
  ASSUME RunTypes, NEW r \in RunIds, TryCancel(r)
  PROVE  OnlyRun(r) /\ TasksKept /\ runs'[r].status # "running"
<1>1. CASE MayCancel(r)
  BY <1>1, CancelShape DEF TryCancel
<1>2. CASE ~MayCancel(r)
  BY <1>2, RunsStay DEF TryCancel, OnlyRun, TasksKept, MayCancel
<1> QED
  BY <1>1, <1>2

\* Runs that are deleted with their tasks.
LEMMA DeletedShape ==
  ASSUME RunTypes, runs' = RunsOfTasks
  PROVE  /\ RunsKept
         /\ \A r \in RunIds :
              tasks'[runs[r].task].status # "none" => runs'[r] = runs[r]
<1>1. RunIds = 1..Len(runs) /\ Len(runs) \in Nat /\ \A r \in RunIds : runs[r] \in Run
  BY RunNumbers
<1>2. ASSUME NEW r \in RunIds
      PROVE  /\ runs'[r] \in Run /\ Advanced(runs[r], runs'[r])
             /\ tasks'[runs[r].task].status # "none" => runs'[r] = runs[r]
  <2> DEFINE q == [runs[r] EXCEPT !.status = "deleted"]
  <2>1. /\ q \in Run /\ q.status = "deleted" /\ q.task = runs[r].task /\ q.gates = runs[r].gates
    BY <1>1 DEF Run, RunStatus, EndedStatus
  <2>2. runs'[r] = IF tasks'[runs[r].task].status = "none" THEN q ELSE runs[r]
    BY DEF RunsOfTasks
  <2> HIDE DEF q
  <2>3. Advanced(runs[r], q) /\ Advanced(runs[r], runs[r])
    BY <1>1, <2>1, StayAdvanced DEF Advanced, Passing
  <2> QED
    BY <1>1, <2>1, <2>2, <2>3
<1>3. runs' = [r \in 1..Len(runs) |-> runs'[r]]
  BY <1>1 DEF RunsOfTasks
<1>4. runs' \in Seq(Run) /\ Len(runs') = Len(runs)
  BY <1>1, <1>2, <1>3, SeqDef, LenProperties
<1> QED
  BY <1>2, <1>4 DEF RunsKept

\* recover_interrupted.
LEMMA RecoveredShape ==
  ASSUME RunTypes, runs' = Recovered
  PROVE  RunsKept /\ \A r \in RunIds : runs'[r].status # "running"
<1>1. RunIds = 1..Len(runs) /\ Len(runs) \in Nat /\ \A r \in RunIds : runs[r] \in Run
  BY RunNumbers
<1>2. ASSUME NEW r \in RunIds
      PROVE  runs'[r] \in Run /\ Advanced(runs[r], runs'[r]) /\ runs'[r].status # "running"
  <2> DEFINE gates == [g \in Commands |->
               IF runs[r].gates[g] = "pending" THEN "error" ELSE runs[r].gates[g]]
             q == [runs[r] EXCEPT !.status = "error", !.gates = gates]
  <2>1. runs[r].gates \in [Commands -> GateStatus]
    BY <1>1 DEF Run
  <2>2. /\ gates \in [Commands -> GateStatus]
        /\ \A h \in Commands : gates[h] = "none" <=> runs[r].gates[h] = "none"
    BY <2>1 DEF GateStatus, GateResults
  <2>3. runs'[r] = IF runs[r].status = "running" THEN q ELSE runs[r]
    BY <1>1 DEF Recovered
  <2> HIDE DEF gates
  <2>4. /\ q \in Run /\ q.status = "error" /\ q.task = runs[r].task /\ q.gates = gates
    BY <1>1, <2>2 DEF Run, RunStatus, EndedStatus
  <2> HIDE DEF q
  <2>5. runs[r].status = "running" => Advanced(runs[r], q)
    BY <2>2, <2>4 DEF Advanced, Passing
  <2> QED
    BY <1>1, <2>3, <2>4, <2>5, StayAdvanced
<1>3. runs' = [r \in 1..Len(runs) |-> runs'[r]]
  BY <1>1 DEF Recovered
<1>4. runs' \in Seq(Run) /\ Len(runs') = Len(runs)
  BY <1>1, <1>2, <1>3, SeqDef, LenProperties
<1> QED
  BY <1>2, <1>4 DEF RunsKept

-----------------------------------------------------------------------------
(***************************************************************************)
(* Handlers and runners.                                                   *)
(***************************************************************************)

\* What a handler knows when it goes on.
CallKnows(q, ids) ==
  /\ q.pc = "create" => q.task \in Tasks
  /\ q.pc \in {"get", "start", "abandon", "signal"} => q.run \in ids

HandlerTypes == call \in [Clients -> Call] /\ \A c \in Clients : CallKnows(call[c], RunIds)
RunnerTypes == runner \in [Ids -> Runner] /\ \A r \in Ids : runner[r].pc # "none" => r \in RunIds

\* The types, with what the tables of planning promise and handlers and runners know.
Base ==
  /\ PlanInv /\ RunTypes /\ HandlerTypes /\ RunnerTypes
  /\ commands \in [Projects -> SUBSET Commands]
  /\ restarts \in 0..MaxRestarts

Tables == <<tasks, deps, plans, criteria, creating>>

\* What a step of a handler or a runner does to the tables: a new run for a task
\* that is there, or at most one row advances, and a task may be reopened.
NewRun(t, kinds) == Exists(t) /\ InsertRun(t, kinds)
RunsWritten ==
  \/ RunsKept /\ TasksKept
  \/ \E t \in Tasks, kinds \in SUBSET Commands : NewRun(t, kinds)

\* Runs are only added.
LEMMA RunsGrow ==
  ASSUME RunTypes, RunsWritten
  PROVE  RunTypes' /\ RunIds \subseteq RunIds'
<1>1. /\ RunIds = 1..Len(runs) /\ Len(runs) \in Nat /\ MaxRuns \in Nat
      /\ runs \in Seq(Run) /\ Len(runs) <= MaxRuns
  BY RunNumbers, RunBoundAssumption DEF RunTypes
<1>2. CASE RunsKept /\ TasksKept
  <2>1. RunTypes'
    BY <1>1, <1>2 DEF RunTypes, RunsKept
  <2>2. RunIds' = 1..Len(runs')
    BY <1>2, LenProperties DEF RunsKept, RunIds
  <2> QED
    BY <1>1, <1>2, <2>1, <2>2 DEF RunsKept
<1>3. ASSUME NEW t \in Tasks, NEW kinds \in SUBSET Commands, NewRun(t, kinds)
      PROVE  RunTypes' /\ RunIds \subseteq RunIds'
  <2> DEFINE gates == Selected(tasks[t].project, kinds)
             q == [task |-> t, status |-> "queued",
                   gates |-> [g \in Commands |-> IF g \in gates THEN "pending" ELSE "none"]]
  <2>1. runs' = Append(runs, q) /\ Len(runs) < MaxRuns
    BY <1>3 DEF NewRun, InsertRun
  <2>2. q \in Run
    BY DEF Run, RunStatus, GateStatus
  <2> HIDE DEF q
  <2>3. runs' \in Seq(Run) /\ Len(runs') = Len(runs) + 1
    BY <1>1, <2>1, <2>2, AppendProperties
  <2>4. RunIds' = 1..Len(runs')
    BY <2>3, LenProperties DEF RunIds
  <2> QED
    BY <1>1, <2>1, <2>3, <2>4 DEF RunTypes
<1> QED
  BY <1>2, <1>3 DEF RunsWritten

\* A handler that goes on.
LEMMA CallStep ==
  ASSUME HandlerTypes, RunIds \subseteq RunIds', NEW c \in Clients, NEW q \in Call,
         CallKnows(q, RunIds), call' = [call EXCEPT ![c] = q]
  PROVE  HandlerTypes'
BY DEF HandlerTypes, CallKnows

\* A handler that ends.
LEMMA ReturnStep ==
  ASSUME HandlerTypes, RunIds \subseteq RunIds', NEW c \in Clients, Return(c)
  PROVE  HandlerTypes'
<1>1. Idle \in Call /\ CallKnows(Idle, RunIds)
  BY DEF Idle, Call, RunStatus, EndedStatus, CallKnows
<1> QED
  BY <1>1, CallStep DEF Return

\* A runner that goes on.
LEMMA RunnerMoves ==
  ASSUME RunnerTypes, RunIds \subseteq RunIds', NEW r \in Ids, NEW q \in Runner,
         r \in RunIds, runner' = [runner EXCEPT ![r] = q]
  PROVE  RunnerTypes'
BY DEF RunnerTypes

\* Nothing moves.
LEMMA RunnersStay ==
  ASSUME RunnerTypes, RunIds \subseteq RunIds', runner' = runner
  PROVE  RunnerTypes'
BY DEF RunnerTypes

\* Nor does a handler.
LEMMA CallsStay ==
  ASSUME HandlerTypes, RunIds \subseteq RunIds', call' = call
  PROVE  HandlerTypes'
BY DEF HandlerTypes, CallKnows

\* A row that is written is one of a run.
RunWork == RunsWritten /\ HandlerTypes' /\ RunnerTypes' /\ Untouched

\* A handler that leaves the runs alone.
LEMMA OnlyHandler ==
  ASSUME Base, UNCHANGED <<tasks, runs, runner>>, HandlerTypes', Untouched
  PROVE  RunWork
<1>1. RunTypes /\ RunnerTypes
  BY DEF Base
<1>2. RunsWritten
  BY <1>1, RunsStay DEF RunsWritten, TasksKept
<1>3. RunnerTypes'
  BY <1>1, <1>2, RunsGrow, RunnersStay
<1> QED
  BY <1>2, <1>3 DEF RunWork

\* A handler that ends with a write to the row of a run.
LEMMA RowOfHandler ==
  ASSUME Base, RunsKept, TasksKept, runner' = runner, Untouched,
         NEW c \in Clients, call' = call \/ Return(c)
  PROVE  RunWork
<1>1. RunTypes /\ RunnerTypes /\ HandlerTypes
  BY DEF Base
<1>2. RunsWritten
  BY DEF RunsWritten
<1>3. RunIds \subseteq RunIds'
  BY <1>1, <1>2, RunsGrow
<1> QED
  BY <1>1, <1>2, <1>3, RunnersStay, CallsStay, ReturnStep DEF RunWork

\* Nothing is done to the runs by a call that only reads: it knows what it has read.
LEMMA Reading ==
  ASSUME Base, UNCHANGED <<tasks, runs, runner>>, Untouched, NEW c \in Clients,
         NEW q \in Call, CallKnows(q, RunIds), call' = [call EXCEPT ![c] = q]
  PROVE  RunWork
<1>1. HandlerTypes /\ RunIds' = RunIds
  BY DEF Base, RunIds
<1>2. HandlerTypes'
  BY <1>1, CallStep
<1> QED
  BY <1>2, OnlyHandler

\* Every step that a handler takes by itself.
LEMMA HandlerWork ==
  ASSUME Base, NEW c \in Clients, HandlerStep(c)
  PROVE  RunWork /\ (commands' \in [Projects -> SUBSET Commands])
<1>0. /\ RunTypes /\ HandlerTypes /\ RunnerTypes /\ call[c] \in Call
      /\ commands \in [Projects -> SUBSET Commands] /\ CallKnows(call[c], RunIds)
  BY DEF Base, HandlerTypes
<1>1. ASSUME NEW found \in Detected, InstallDetected(c, found)
      PROVE  RunWork /\ (commands' \in [Projects -> SUBSET Commands])
  <2>1. found \in SUBSET Commands
    BY CommandAssumption
  <2>2. commands' \in [Projects -> SUBSET Commands]
    BY <1>0, <1>1, <2>1 DEF InstallDetected, ReplaceCommands
  <2>3. UNCHANGED <<tasks, runs, runner>> /\ Untouched /\ RunIds' = RunIds
    BY <1>1 DEF InstallDetected, RunIds
  <2>4. CASE Return(c)
    <3>1. HandlerTypes'
      BY <1>0, <2>3, <2>4, ReturnStep
    <3> QED
      BY <2>2, <2>3, <3>1, OnlyHandler
  <2>5. CASE call[c].task # Nothing /\ Goto(c, "create")
    <3> DEFINE q == [call[c] EXCEPT !.pc = "create"]
    <3>1. /\ q \in Call /\ q.pc = "create" /\ q.task = call[c].task /\ q.task \in Tasks
      BY <1>0, <2>5 DEF Call
    <3>2. call' = [call EXCEPT ![c] = q]
      BY <2>5 DEF Goto
    <3> HIDE DEF q
    <3>3. CallKnows(q, RunIds)
      BY <3>1 DEF CallKnows
    <3> QED
      BY <2>2, <2>3, <3>1, <3>2, <3>3, Reading
  <2> QED
    BY <1>1, <2>4, <2>5 DEF InstallDetected
<1>2. ASSUME CreateRun(c)
      PROVE  RunWork /\ (commands' \in [Projects -> SUBSET Commands])
  <2>1. call[c].task \in Tasks /\ call[c].kinds \in SUBSET Commands
    BY <1>0, <1>2 DEF CreateRun, At, CallKnows, Call
  <2>2. RunsWritten
    <3>1. CASE UNCHANGED <<runs, tasks>>
      BY <1>0, <3>1, RunsStay DEF RunsWritten, TasksKept
    <3> QED
      BY <1>2, <2>1, <3>1 DEF CreateRun, RunsWritten, NewRun
  <2>3. RunIds \subseteq RunIds'
    BY <1>0, <2>2, RunsGrow
  <2>4. Return(c) /\ UNCHANGED <<commands, runner>> /\ Untouched
    BY <1>2 DEF CreateRun
  <2>5. HandlerTypes' /\ RunnerTypes'
    BY <1>0, <2>3, <2>4, ReturnStep, RunnersStay
  <2> QED
    BY <1>0, <2>2, <2>4, <2>5 DEF RunWork
<1>3. ASSUME GetDetails(c)
      PROVE  RunWork /\ (commands' \in [Projects -> SUBSET Commands])
  <2>1. /\ UNCHANGED <<tasks, runs, runner>> /\ Untouched /\ RunIds' = RunIds
        /\ commands' = commands /\ call[c].run \in RunIds
    BY <1>0, <1>3 DEF GetDetails, RunIds, At, CallKnows
  <2>2. CASE Return(c)
    <3>1. HandlerTypes'
      BY <1>0, <2>1, <2>2, ReturnStep
    <3> QED
      BY <1>0, <2>1, <3>1, OnlyHandler
  <2>3. CASE call' = [call EXCEPT ![c].pc = "start", ![c].seen = runs[call[c].run].status]
    <3> DEFINE status == runs[call[c].run].status
               q == [call[c] EXCEPT !.pc = "start", !.seen = status]
    <3>1. status \in RunStatus
      BY <1>0, <2>1, RunNumbers DEF Run
    <3>2. call' = [call EXCEPT ![c] = q]
      BY <2>3
    <3> HIDE DEF status
    <3>3. q \in Call /\ q.pc = "start" /\ q.run = call[c].run
      BY <1>0, <3>1 DEF Call
    <3> HIDE DEF q
    <3>4. CallKnows(q, RunIds)
      BY <2>1, <3>3 DEF CallKnows
    <3> QED
      BY <1>0, <2>1, <3>2, <3>3, <3>4, Reading
  <2> QED
    BY <1>3, <2>2, <2>3 DEF GetDetails
<1>4. ASSUME StartRunner(c)
      PROVE  RunWork /\ (commands' \in [Projects -> SUBSET Commands])
  <2> DEFINE r == call[c].run
  <2>1. /\ UNCHANGED <<tasks, runs>> /\ Untouched /\ RunIds' = RunIds
        /\ commands' = commands /\ r \in RunIds /\ r \in Ids
    BY <1>0, <1>4, RunNumbers DEF StartRunner, RunIds, At, CallKnows
  <2>2. CASE Return(c) /\ runner' = [runner EXCEPT ![r] = [NoRunner EXCEPT !.pc = "root"]]
    <3> DEFINE q == [NoRunner EXCEPT !.pc = "root"]
    <3>1. q \in Runner
      BY DEF NoRunner, Runner
    <3> HIDE DEF q
    <3>2. RunnerTypes'
      BY <1>0, <2>1, <2>2, <3>1, RunnerMoves DEF q
    <3>3. HandlerTypes'
      BY <1>0, <2>1, <2>2, ReturnStep
    <3>4. RunsWritten
      BY <1>0, <2>1, RunsStay DEF RunsWritten, TasksKept
    <3> QED
      BY <1>0, <2>1, <3>2, <3>3, <3>4 DEF RunWork
  <2>3. CASE Goto(c, "abandon") /\ UNCHANGED runner
    <3> DEFINE q == [call[c] EXCEPT !.pc = "abandon"]
    <3>1. q \in Call /\ q.pc = "abandon" /\ q.run = call[c].run
      BY <1>0 DEF Call
    <3>2. call' = [call EXCEPT ![c] = q]
      BY <2>3 DEF Goto
    <3> HIDE DEF q
    <3>3. CallKnows(q, RunIds)
      BY <2>1, <3>1 DEF CallKnows
    <3> QED
      BY <1>0, <2>1, <2>3, <3>1, <3>2, <3>3, Reading
  <2> QED
    BY <1>4, <2>2, <2>3 DEF StartRunner
<1>5. ASSUME Abandon(c)
      PROVE  RunWork /\ (commands' \in [Projects -> SUBSET Commands])
  <2>1. /\ TryCancel(call[c].run) /\ Return(c) /\ UNCHANGED <<commands, runner>> /\ Untouched
        /\ call[c].run \in RunIds
    BY <1>0, <1>5 DEF Abandon, At, CallKnows
  <2>2. RunsKept /\ TasksKept
    BY <1>0, <2>1, TryCancelShape DEF OnlyRun
  <2> QED
    BY <1>0, <2>1, <2>2, RowOfHandler
<1>6. ASSUME SignalRunner(c)
      PROVE  RunWork /\ (commands' \in [Projects -> SUBSET Commands])
  <2> DEFINE r == call[c].run
             q == [runner[r] EXCEPT !.cancelled = TRUE]
  <2>1. /\ UNCHANGED <<tasks, runs>> /\ Untouched /\ RunIds' = RunIds /\ Return(c)
        /\ commands' = commands /\ r \in RunIds /\ r \in Ids
    BY <1>0, <1>6, RunNumbers DEF SignalRunner, RunIds, At, CallKnows
  <2>2. q \in Runner
    BY <1>0, <2>1 DEF RunnerTypes, Runner
  <2>3. runner' = runner \/ runner' = [runner EXCEPT ![r] = q]
    BY <1>6 DEF SignalRunner
  <2> HIDE DEF q
  <2>4. RunnerTypes'
    BY <1>0, <2>1, <2>2, <2>3, RunnerMoves, RunnersStay
  <2>5. HandlerTypes' /\ RunsWritten
    BY <1>0, <2>1, ReturnStep, RunsStay DEF RunsWritten, TasksKept
  <2> QED
    BY <1>0, <2>1, <2>4, <2>5 DEF RunWork
<1> QED
  BY <1>1, <1>2, <1>3, <1>4, <1>5, <1>6 DEF HandlerStep

\* Every request.
LEMMA RequestWork ==
  ASSUME Base, NEW c \in Clients, Requests(c)
  PROVE  RunWork /\ (commands' \in [Projects -> SUBSET Commands])
<1>0. /\ RunTypes /\ HandlerTypes /\ RunnerTypes /\ tasks \in [Tasks -> TaskRow]
      /\ commands \in [Projects -> SUBSET Commands]
      /\ Idle \in Call /\ \A r \in RunIds : r \in Ids /\ runs[r] \in Run
  <2>1. Idle \in Call
    BY DEF Idle, Call, RunStatus, EndedStatus
  <2> QED
    BY <2>1, RunNumbers DEF Base, PlanInv, PlanBase, PlanningTypeOK
<1>1. ASSUME NEW p \in Projects, NEW new \in Configured, ConfigureCommands(c, p, new)
      PROVE  RunWork /\ (commands' \in [Projects -> SUBSET Commands])
  <2>1. new \in SUBSET Commands
    BY CommandAssumption
  <2>2. commands' \in [Projects -> SUBSET Commands]
    BY <1>0, <1>1, <2>1 DEF ConfigureCommands, ReplaceCommands
  <2>3. UNCHANGED <<tasks, runs, runner, call>> /\ Untouched
    BY <1>1 DEF ConfigureCommands
  <2>4. HandlerTypes'
    BY <1>0, <2>3, CallsStay DEF RunIds
  <2> QED
    BY <2>2, <2>3, <2>4, OnlyHandler
<1>2. ASSUME NEW p \in Projects, ListCommands(c, p)
      PROVE  RunWork /\ (commands' \in [Projects -> SUBSET Commands])
  <2> DEFINE q == [Idle EXCEPT !.pc = "detect", !.project = p]
  <2>1. q \in Call /\ q.pc = "detect"
    BY <1>0 DEF Call, Idle
  <2>2. /\ call' = [call EXCEPT ![c] = q] /\ UNCHANGED <<tasks, runs, runner>> /\ Untouched
        /\ commands' = commands
    BY <1>2 DEF ListCommands
  <2> HIDE DEF q
  <2>3. CallKnows(q, RunIds)
    BY <2>1 DEF CallKnows
  <2> QED
    BY <1>0, <2>1, <2>2, <2>3, Reading
<1>3. ASSUME NEW t \in Tasks, NEW kinds \in Selections, VerifyTask(c, t, kinds)
      PROVE  RunWork /\ (commands' \in [Projects -> SUBSET Commands])
  <2> DEFINE p == tasks[t].project
             pc == IF commands[p] = {} THEN "detect" ELSE "create"
             q == [Idle EXCEPT !.task = t, !.project = p, !.kinds = kinds, !.pc = pc]
  <2>1. /\ call' = [call EXCEPT ![c] = q] /\ UNCHANGED <<tasks, runs, runner>> /\ Untouched
        /\ commands' = commands
    BY <1>3 DEF VerifyTask
  <2>2. kinds \in SUBSET Commands /\ p \in Projects \cup {Nothing} /\ pc \in {"detect", "create"}
    BY <1>0, CommandAssumption DEF TaskRow
  <2> HIDE DEF p, pc
  <2>3. q \in Call /\ q.pc = pc /\ q.task = t
    BY <1>0, <2>2 DEF Call, Idle
  <2> HIDE DEF q
  <2>4. CallKnows(q, RunIds)
    BY <2>2, <2>3 DEF CallKnows
  <2> QED
    BY <1>0, <2>1, <2>3, <2>4, Reading
<1>4. ASSUME NEW r \in RunIds, Rerun(c, r)
      PROVE  RunWork /\ (commands' \in [Projects -> SUBSET Commands])
  <2> DEFINE t == runs[r].task
             q == [Idle EXCEPT !.pc = "create", !.run = r, !.task = t]
  <2>1. /\ call' = [call EXCEPT ![c] = q] /\ UNCHANGED <<tasks, runs, runner>> /\ Untouched
        /\ commands' = commands
    BY <1>4 DEF Rerun
  <2>2. t \in Tasks
    BY <1>0 DEF Run
  <2> HIDE DEF t
  <2>3. q \in Call /\ q.pc = "create" /\ q.task = t
    BY <1>0, <2>2 DEF Call, Idle
  <2> HIDE DEF q
  <2>4. CallKnows(q, RunIds)
    BY <2>2, <2>3 DEF CallKnows
  <2> QED
    BY <1>0, <2>1, <2>3, <2>4, Reading
<1>5. ASSUME NEW r \in RunIds, NEW pc \in {"get", "signal"}, RunsKept, TasksKept, Untouched,
             UNCHANGED <<commands, runner>>,
             call' = [call EXCEPT ![c] = [Idle EXCEPT !.pc = pc, !.run = r]]
      PROVE  RunWork /\ (commands' \in [Projects -> SUBSET Commands])
  <2> DEFINE q == [Idle EXCEPT !.pc = pc, !.run = r]
  <2>1. q \in Call /\ q.pc = pc /\ q.run = r
    BY <1>0 DEF Call, Idle
  <2>2. RunsWritten
    BY <1>5 DEF RunsWritten
  <2>3. call' = [call EXCEPT ![c] = q]
    BY <1>5
  <2> HIDE DEF q
  <2>4. CallKnows(q, RunIds)
    BY <2>1 DEF CallKnows
  <2>5. RunIds \subseteq RunIds'
    BY <1>0, <2>2, RunsGrow
  <2>6. HandlerTypes'
    BY <1>0, <2>1, <2>3, <2>4, <2>5, CallStep
  <2>7. RunnerTypes'
    BY <1>0, <1>5, <2>5, RunnersStay
  <2> QED
    BY <1>0, <1>5, <2>2, <2>6, <2>7 DEF RunWork
<1>6. ASSUME NEW r \in RunIds, StartRun(c, r)
      PROVE  RunWork /\ (commands' \in [Projects -> SUBSET Commands])
  <2>1. /\ WriteStart(r) /\ UNCHANGED <<tasks, commands, runner>> /\ Untouched
        /\ call' = [call EXCEPT ![c] = [Idle EXCEPT !.pc = "get", !.run = r]]
    BY <1>6 DEF StartRun
  <2>2. RunsKept /\ TasksKept
    BY <1>0, <2>1, StartShape DEF OnlyRun, TasksKept
  <2> QED
    BY <1>5, <2>1, <2>2
<1>7. ASSUME NEW r \in RunIds, CancelRun(c, r)
      PROVE  RunWork /\ (commands' \in [Projects -> SUBSET Commands])
  <2>1. /\ MayCancel(r) /\ WriteCancel(r) /\ UNCHANGED <<commands, runner>> /\ Untouched
        /\ call' = [call EXCEPT ![c] = [Idle EXCEPT !.pc = "signal", !.run = r]]
    BY <1>7 DEF CancelRun
  <2>2. RunsKept /\ TasksKept
    BY <1>0, <2>1, CancelShape DEF OnlyRun
  <2> QED
    BY <1>5, <2>1, <2>2
<1>8. ASSUME NEW r \in RunIds, FinishRun(c, r)
      PROVE  RunWork /\ (commands' \in [Projects -> SUBSET Commands])
  <2>1. /\ MayFinish(r) /\ WriteFinish(r) /\ UNCHANGED <<commands, runner, call>> /\ Untouched
    BY <1>8 DEF FinishRun
  <2>2. RunsKept /\ TasksKept
    BY <1>0, <2>1, FinishShape DEF OnlyRun
  <2> QED
    BY <1>0, <2>1, <2>2, RowOfHandler
<1>9. ASSUME NEW r \in RunIds, NEW g \in Commands, NEW status \in Answers,
             RecordResult(c, r, g, status)
      PROVE  RunWork /\ (commands' \in [Projects -> SUBSET Commands])
  <2>1. /\ MayRecord(r, g) /\ WriteGate(r, g, status)
        /\ UNCHANGED <<commands, runner, call>> /\ Untouched
    BY <1>9 DEF RecordResult
  <2>2. status \in GateStatus \ {"none"}
    BY AnswerAssumption DEF GateStatus, GateResults
  <2>3. RunsKept /\ TasksKept
    BY <1>0, <2>1, <2>2, GateShape DEF OnlyRun
  <2> QED
    BY <1>0, <2>1, <2>3, RowOfHandler
<1> QED
  BY <1>1, <1>2, <1>3, <1>4, <1>6, <1>7, <1>8, <1>9 DEF Requests

\* A runner writes to the row of its run, or to none, and goes on.
LEMMA RowOfRunner ==
  ASSUME Base, RunsKept, TasksKept, StillCommands, NEW r \in RunIds, NEW q \in Runner,
         runner' = [runner EXCEPT ![r] = q]
  PROVE  RunWork
<1>1. RunTypes /\ RunnerTypes /\ HandlerTypes /\ r \in Ids
  BY RunNumbers DEF Base
<1>2. RunsWritten
  BY DEF RunsWritten
<1>3. RunIds \subseteq RunIds'
  BY <1>1, <1>2, RunsGrow
<1> QED
  BY <1>1, <1>2, <1>3, RunnerMoves, CallsStay DEF RunWork, StillCommands

\* The places of a runner.
Places == {"none", "root", "next", "execute", "capture", "record", "skip",
           "finish", "cancel", "remove", "done"}

\* A runner goes on to another place.
LEMMA RunnerGoes ==
  ASSUME Base, RunsKept, TasksKept, StillCommands, NEW r \in RunIds, NEW pc \in Places,
         RunnerTo(r, pc)
  PROVE  RunWork
<1> DEFINE q == [runner[r] EXCEPT !.pc = pc]
<1>1. r \in Ids /\ runner \in [Ids -> Runner]
  BY RunNumbers DEF Base, RunnerTypes
<1>2. q \in Runner
  BY <1>1 DEF Runner, Places
<1>3. runner' = [runner EXCEPT ![r] = q]
  BY DEF RunnerTo
<1> HIDE DEF q
<1> QED
  BY <1>2, <1>3, RowOfRunner

\* Every step of a runner.
LEMMA RunnerWork ==
  ASSUME Base, NEW r \in Ids, RunnerStep(r)
  PROVE  RunWork /\ (commands' \in [Projects -> SUBSET Commands])
<1>0. /\ RunTypes /\ HandlerTypes /\ runner \in [Ids -> Runner] /\ runner[r] \in Runner
      /\ commands \in [Projects -> SUBSET Commands]
  BY DEF Base, RunnerTypes
<1>1. r \in RunIds /\ StillCommands
  <2>1. runner[r].pc # "none"
    BY DEF RunnerStep, FindRoot, NoRoot, LeaveLoop, SpawnGate, RefuseGate, Captured, GateEnds,
       RecordGate, RecordFails, SkipGate, RunnerFinish, GiveUp, RemoveHandle, RunnerAt
  <2>2. StillCommands
    BY DEF RunnerStep, FindRoot, NoRoot, LeaveLoop, SpawnGate, RefuseGate, Captured, GateEnds,
       RecordGate, RecordFails, SkipGate, RunnerFinish, GiveUp, RemoveHandle
  <2> QED
    BY <2>1, <2>2 DEF Base, RunnerTypes
<1>2. commands' \in [Projects -> SUBSET Commands]
  BY <1>0, <1>1 DEF StillCommands
<1>3. ASSUME UNCHANGED <<tasks, runs>>
      PROVE  RunsKept /\ TasksKept
  BY <1>0, <1>3, RunsStay DEF TasksKept
<1>4. ASSUME FindRoot(r)
      PROVE  RunWork
  <2> DEFINE left == {g \in Commands : runs[r].gates[g] # "none"}
             q == [runner[r] EXCEPT !.pc = "next", !.left = left]
  <2>1. q \in Runner
    BY <1>0 DEF Runner
  <2>2. runner' = [runner EXCEPT ![r] = q] /\ UNCHANGED <<tasks, runs>>
    BY <1>4 DEF FindRoot
  <2> HIDE DEF q
  <2> QED
    BY <1>1, <1>3, <2>1, <2>2, RowOfRunner
<1>5. ASSUME NoRoot(r) \/ LeaveLoop(r) \/ RecordFails(r) \/ RemoveHandle(r)
      PROVE  RunWork
  <2>1. UNCHANGED <<tasks, runs>> /\ \E pc \in Places : RunnerTo(r, pc)
    BY <1>5 DEF NoRoot, LeaveLoop, RecordFails, RemoveHandle, Places
  <2> QED
    BY <1>1, <1>3, <2>1, RunnerGoes
<1>6. ASSUME SpawnGate(r)
      PROVE  RunWork
  <2> DEFINE q == [runner[r] EXCEPT !.pc = "execute", !.child = TRUE]
  <2>1. q \in Runner
    BY <1>0 DEF Runner
  <2>2. runner' = [runner EXCEPT ![r] = q] /\ UNCHANGED <<tasks, runs>>
    BY <1>6 DEF SpawnGate
  <2> HIDE DEF q
  <2> QED
    BY <1>1, <1>3, <2>1, <2>2, RowOfRunner
<1>7. ASSUME UNCHANGED <<tasks, runs>>,
             runner' = [runner EXCEPT ![r].pc = "record", ![r].result = "failed"]
      PROVE  RunWork
  <2> DEFINE q == [runner[r] EXCEPT !.pc = "record", !.result = "failed"]
  <2>1. q \in Runner
    BY <1>0 DEF Runner
  <2>2. runner' = [runner EXCEPT ![r] = q]
    BY <1>7
  <2> HIDE DEF q
  <2> QED
    BY <1>1, <1>3, <1>7, <2>1, <2>2, RowOfRunner
<1>8. ASSUME NEW result \in {"passed", "failed", "error", "cancelled"}, GateEnds(r, result)
      PROVE  RunWork
  <2> DEFINE q == [runner[r] EXCEPT !.pc = "capture", !.child = FALSE, !.result = result]
  <2>1. q \in Runner
    BY <1>0 DEF Runner
  <2>2. runner' = [runner EXCEPT ![r] = q] /\ UNCHANGED <<tasks, runs>>
    BY <1>8 DEF GateEnds
  <2> HIDE DEF q
  <2> QED
    BY <1>1, <1>3, <2>1, <2>2, RowOfRunner
<1>9. ASSUME Captured(r)
      PROVE  RunWork
  <2>1. CASE \E pc \in Places : RunnerTo(r, pc)
    BY <1>1, <1>3, <1>9, <2>1, RunnerGoes DEF Captured
  <2>2. CASE runner' = [runner EXCEPT ![r].pc = "record", ![r].result = "failed"]
    BY <1>7, <1>9, <2>2 DEF Captured
  <2> QED
    BY <1>9, <2>1, <2>2 DEF Captured, Places
<1>10. ASSUME RunsKept, TasksKept, NEW rest \in SUBSET Commands, NEW pc \in Places,
              runner' = [runner EXCEPT ![r].left = rest, ![r].pc = pc]
       PROVE  RunWork
  <2> DEFINE q == [runner[r] EXCEPT !.left = rest, !.pc = pc]
  <2>1. q \in Runner
    BY <1>0 DEF Runner, Places
  <2>2. runner' = [runner EXCEPT ![r] = q]
    BY <1>10
  <2> HIDE DEF q
  <2> QED
    BY <1>1, <1>10, <2>1, <2>2, RowOfRunner
<1>11. ASSUME RunsKept, TasksKept, runner' = AfterGate(r)
       PROVE  RunWork
  <2> DEFINE rest == runner[r].left \ {Gate(r)}
             pc == IF ~(runner[r].result # "passed" /\ Gate(r) \in Required) THEN "next"
                   ELSE IF rest = {} THEN "finish" ELSE "skip"
  <2>1. rest \in SUBSET Commands /\ pc \in Places
    BY <1>0 DEF Runner, Places
  <2>2. runner' = [runner EXCEPT ![r].left = rest, ![r].pc = pc]
    BY <1>11 DEF AfterGate
  <2> HIDE DEF rest, pc
  <2> QED
    BY <1>10, <1>11, <2>1, <2>2
<1>12. ASSUME RecordGate(r)
       PROVE  RunWork
  <2>1. CASE UNCHANGED <<tasks, runs>> /\ runner' = AfterGate(r)
    BY <1>3, <1>11, <2>1
  <2>2. CASE MayRecord(r, Gate(r)) /\ WriteGate(r, Gate(r), runner[r].result) /\ runner' = AfterGate(r)
    <3>1. runner[r].result \in GateStatus \ {"none"}
      BY <1>0 DEF Runner, GateStatus, GateResults
    <3>2. RunsKept /\ TasksKept
      BY <1>0, <1>1, <2>2, <3>1, GateShape DEF OnlyRun
    <3> QED
      BY <1>11, <2>2, <3>2
  <2>3. CASE UNCHANGED <<tasks, runs>> /\ RunnerTo(r, "cancel")
    BY <1>1, <1>3, <2>3, RunnerGoes DEF Places
  <2> QED
    BY <1>12, <2>1, <2>2, <2>3 DEF RecordGate
<1>13. ASSUME SkipGate(r)
       PROVE  RunWork
  <2> DEFINE rest == runner[r].left \ {Gate(r)}
             pc == IF rest = {} THEN "finish" ELSE "skip"
             next == [runner EXCEPT ![r].left = rest, ![r].pc = pc]
  <2>1. rest \in SUBSET Commands /\ pc \in Places
    BY <1>0 DEF Runner, Places
  <2>2. \/ UNCHANGED <<tasks, runs>> /\ runner' = next
        \/ MayRecord(r, Gate(r)) /\ WriteGate(r, Gate(r), "skipped") /\ runner' = next
        \/ UNCHANGED <<tasks, runs>> /\ RunnerTo(r, "cancel")
    BY <1>13 DEF SkipGate
  <2> HIDE DEF rest, pc
  <2>3. CASE UNCHANGED <<tasks, runs>> /\ runner' = next
    BY <1>3, <1>10, <2>1, <2>3
  <2>4. CASE MayRecord(r, Gate(r)) /\ WriteGate(r, Gate(r), "skipped") /\ runner' = next
    <3>1. RunsKept /\ TasksKept
      BY <1>0, <1>1, <2>4, GateShape DEF OnlyRun, GateStatus, GateResults
    <3> QED
      BY <1>10, <2>1, <2>4, <3>1
  <2>5. CASE UNCHANGED <<tasks, runs>> /\ RunnerTo(r, "cancel")
    BY <1>1, <1>3, <2>5, RunnerGoes DEF Places
  <2> QED
    BY <2>2, <2>3, <2>4, <2>5
<1>14. ASSUME RunnerFinish(r)
       PROVE  RunWork
  <2>1. CASE MayFinish(r) /\ WriteFinish(r) /\ RunnerTo(r, "remove")
    <3>1. RunsKept /\ TasksKept
      BY <1>0, <1>1, <2>1, FinishShape DEF OnlyRun
    <3> QED
      BY <1>1, <2>1, <3>1, RunnerGoes DEF Places
  <2>2. CASE UNCHANGED <<tasks, runs>> /\ \E pc \in Places : RunnerTo(r, pc)
    BY <1>1, <1>3, <2>2, RunnerGoes
  <2> QED
    BY <1>14, <2>1, <2>2 DEF RunnerFinish, Places
<1>15. ASSUME GiveUp(r)
       PROVE  RunWork
  <2>1. TryCancel(r) /\ RunnerTo(r, "remove")
    BY <1>15 DEF GiveUp
  <2>2. RunsKept /\ TasksKept
    BY <1>0, <1>1, <2>1, TryCancelShape DEF OnlyRun
  <2> QED
    BY <1>1, <2>1, <2>2, RunnerGoes DEF Places
<1>16. ASSUME RefuseGate(r)
       PROVE  RunWork
  BY <1>7, <1>16 DEF RefuseGate
<1> QED
  BY <1>2, <1>4, <1>5, <1>6, <1>8, <1>9, <1>12, <1>13, <1>14, <1>15, <1>16 DEF RunnerStep

-----------------------------------------------------------------------------
(***************************************************************************)
(* The types.                                                              *)
(***************************************************************************)

\* Reopening a task keeps what is claimed of the tables of planning.
LEMMA ReopenedKeeps ==
  ASSUME PlanInv, TasksKept, UNCHANGED <<deps, plans, criteria, creating>>
  PROVE  PlanInv'
<1> DEFINE none == [t \in Tasks |-> BOOLEAN]
<1>1. CASE tasks' = tasks
  <2>1. Transaction(none)
    BY <1>1 DEF Transaction
  <2> HIDE DEF none
  <2>2. PlanBase'
    BY <2>1, TransactionTypes DEF PlanInv, PlanBase, PlanningTypeOK
  <2> QED
    BY <2>1, <2>2, TransactionCycles, TransactionProjects, TransactionDone
       DEF PlanInv, Creating
<1>2. ASSUME NEW t \in Tasks, tasks' = Reopened(t)
      PROVE  PlanInv'
  <2>1. /\ PlanBase /\ NothingWaitsForItself /\ RelativesShareTheirProject /\ CompletedTasksAreDone
        /\ Creating
    BY DEF PlanInv
  <2>2. CASE tasks[t].status \in Finished
    <3>1. StatusAllowed(t, "review", TRUE) /\ WriteStatus(t, "review") /\ "review" \in TaskStatus
      BY <1>2, <2>2 DEF StatusAllowed, Finished, WriteStatus, Reopened, Exists, TaskStatus
    <3>2. Transaction(none)
      BY <3>1 DEF Transaction
    <3> HIDE DEF none
    <3>3. PlanBase'
      BY <2>1, <3>2, TransactionTypes DEF PlanBase, PlanningTypeOK
    <3> QED
      BY <2>1, <3>2, <3>3, TransactionCycles, TransactionProjects, TransactionDone
         DEF PlanInv, Creating
  <2>3. CASE tasks[t].status \notin Finished
    BY <1>1, <1>2, <2>3 DEF Reopened
  <2> QED
    BY <2>2, <2>3
<1> QED
  BY <1>1, <1>2 DEF TasksKept

\* A new run reopens its task, or leaves it.
LEMMA WrittenTasks ==
  ASSUME RunsWritten
  PROVE  TasksKept
BY ReopenedByShape DEF RunsWritten, NewRun, InsertRun

\* Work on runs keeps Base.
LEMMA WorkKeeps ==
  ASSUME Base, RunWork, commands' \in [Projects -> SUBSET Commands]
  PROVE  Base'
<1>1. TasksKept /\ RunTypes' /\ UNCHANGED <<deps, plans, criteria, creating, restarts>>
  BY WrittenTasks, RunsGrow DEF Base, RunWork, Untouched
<1>2. PlanInv'
  BY <1>1, ReopenedKeeps DEF Base
<1> QED
  BY <1>1, <1>2 DEF Base, RunWork

\* So do the methods of planning.
LEMMA PlanningStepKeeps ==
  ASSUME Base, NEW c \in Clients, PlanningStep(c)
  PROVE  Base' /\ RunsKept
<1>0. RunTypes /\ HandlerTypes /\ RunnerTypes /\ PlanInv
  BY DEF Base
<1>1. /\ runs' = RunsOfTasks /\ UNCHANGED <<commands, runner, call, restarts>>
      /\ Planning(c, [t \in Tasks |-> {UnverifiedGates(t) = {}}])
  BY DEF PlanningStep
<1>2. PlanInv'
  BY <1>0, <1>1, PlanningKeeps
<1>3. RunsKept
  BY <1>0, <1>1, DeletedShape
<1>4. RunTypes' /\ RunIds \subseteq RunIds'
  <2>1. RunTypes'
    BY <1>0, <1>3 DEF RunTypes, RunsKept
  <2>2. RunIds' = 1..Len(runs') /\ RunIds = 1..Len(runs)
    BY <1>0, <1>3, RunNumbers, LenProperties DEF RunsKept, RunIds
  <2> QED
    BY <1>3, <2>1, <2>2 DEF RunsKept
<1>5. HandlerTypes' /\ RunnerTypes'
  BY <1>0, <1>1, <1>4, CallsStay, RunnersStay
<1> QED
  BY <1>1, <1>2, <1>3, <1>4, <1>5 DEF Base

\* And a restart.
LEMMA RestartKeeps ==
  ASSUME Base, Restart
  PROVE  Base' /\ RunsKept
<1>0. RunTypes /\ PlanInv /\ restarts \in 0..MaxRestarts /\ MaxRestarts \in Nat
  BY RunBoundAssumption DEF Base
<1>1. RunsKept
  BY <1>0, RecoveredShape DEF Restart
<1>2. RunTypes'
  BY <1>0, <1>1 DEF RunTypes, RunsKept
<1>3. /\ runner' = [r \in Ids |-> NoRunner] /\ call' = [c \in Clients |-> Idle]
      /\ creating' = [c \in Clients |-> NoCreation]
      /\ UNCHANGED <<tasks, deps, plans, criteria, commands>>
      /\ restarts' \in 0..MaxRestarts
  BY <1>0 DEF Restart
<1>4. /\ NoRunner \in Runner /\ NoRunner.pc = "none"
      /\ Idle \in Call /\ \A ids : CallKnows(Idle, ids)
      /\ NoCreation \in Creation /\ NoCreation.pc = "idle"
  BY DEF NoRunner, Runner, Idle, Call, RunStatus, EndedStatus, CallKnows, NoCreation, Creation,
     TaskStatus
<1>5. HandlerTypes' /\ RunnerTypes'
  BY <1>3, <1>4 DEF HandlerTypes, RunnerTypes
<1>6. PlanInv'
  <2>1. PlanBase' /\ Creating'
    BY <1>0, <1>3, <1>4 DEF PlanInv, PlanBase, PlanningTypeOK, NoRelations, Exists, Creating
  <2>2. NothingWaitsForItself' /\ RelativesShareTheirProject' /\ CompletedTasksAreDone'
    BY <1>0, <1>3 DEF PlanInv, NothingWaitsForItself, RelativesShareTheirProject, Parents,
       Exists, CompletedTasksAreDone, IncompleteSteps, UnsatisfiedCriteria
  <2> QED
    BY <2>1, <2>2 DEF PlanInv
<1> QED
  BY <1>1, <1>2, <1>3, <1>5, <1>6 DEF Base

\* The start.
LEMMA Starts ==
  ASSUME Init
  PROVE  Base
<1>1. PlanInv
  BY PlanningStart DEF Init
<1>2. /\ runs = <<>> /\ runner = [r \in Ids |-> NoRunner] /\ call = [c \in Clients |-> Idle]
      /\ commands = [p \in Projects |-> {}] /\ restarts = 0
  BY DEF Init
<1>3. RunTypes
  BY <1>2, EmptySeq, RunBoundAssumption DEF RunTypes
<1>4. /\ NoRunner \in Runner /\ NoRunner.pc = "none"
      /\ Idle \in Call /\ \A ids : CallKnows(Idle, ids)
  BY DEF NoRunner, Runner, Idle, Call, RunStatus, EndedStatus, CallKnows
<1>5. HandlerTypes /\ RunnerTypes
  BY <1>2, <1>4 DEF HandlerTypes, RunnerTypes
<1> QED
  BY <1>1, <1>2, <1>3, <1>5, RunBoundAssumption DEF Base

\* Nothing happens.
LEMMA StutterKeeps ==
  ASSUME Base, UNCHANGED vars
  PROVE  Base' /\ RunsKept /\ TasksKept
<1>1. UNCHANGED <<tasks, runs, runner, call>> /\ Untouched /\ commands' = commands
  BY DEF vars, planningVars, verificationVars, Untouched
<1>2. HandlerTypes'
  BY <1>1, CallsStay DEF Base, RunIds
<1>3. RunWork
  BY <1>1, <1>2, OnlyHandler
<1>4. Base'
  BY <1>1, <1>3, WorkKeeps DEF Base
<1>5. RunsKept /\ TasksKept
  BY <1>1, RunsStay DEF Base, TasksKept
<1> QED
  BY <1>4, <1>5

\* Base is inductive.
LEMMA BaseInvariance == Spec => []Base
<1>1. Init => Base
  BY Starts
<1>2. Base /\ [Next]_vars => Base'
  BY HandlerWork, RequestWork, RunnerWork, WorkKeeps, PlanningStepKeeps, RestartKeeps,
     StutterKeeps DEF Next
<1> QED
  BY <1>1, <1>2, PTL DEF Spec

\* The types of all variables.
THEOREM Types == Spec => []TypeOK
<1>1. Base => TypeOK
  BY DEF Base, TypeOK, PlanInv, PlanBase, RunTypes, HandlerTypes, RunnerTypes
<1> QED
  BY <1>1, BaseInvariance, PTL

\* What planning promises holds beside verification as well: cycles and projects are
\* not touched by the tasks that runs reopen.
THEOREM PlanningStands == Spec => [](NothingWaitsForItself /\ RelativesShareTheirProject)
<1>1. Base => NothingWaitsForItself /\ RelativesShareTheirProject
  BY DEF Base, PlanInv
<1> QED
  BY <1>1, BaseInvariance, PTL

-----------------------------------------------------------------------------
(***************************************************************************)
(* Runs that pass.                                                         *)
(***************************************************************************)

\* A new run is queued behind the others; its task is reopened, or none of its
\* gates is required.
LEMMA NewRunShape ==
  ASSUME RunTypes, NEW t \in Tasks, NEW kinds \in SUBSET Commands, NewRun(t, kinds)
  PROVE  \E new \in Ids :
           /\ RunIds' = RunIds \cup {new} /\ \A r \in RunIds : r < new /\ runs'[r] = runs[r]
           /\ runs'[new].task = t /\ runs'[new].status = "queued"
           /\ \/ tasks' = Reopened(t)
              \/ tasks' = tasks /\ \A g \in Required : runs'[new].gates[g] = "none"
<1> DEFINE gates == Selected(tasks[t].project, kinds)
           kept == [g \in Commands |-> IF g \in gates THEN "pending" ELSE "none"]
           q == [task |-> t, status |-> "queued", gates |-> kept]
           new == Len(runs) + 1
<1>1. /\ RunIds = 1..Len(runs) /\ Len(runs) \in Nat /\ MaxRuns \in Nat /\ runs \in Seq(Run)
  BY RunNumbers, RunBoundAssumption DEF RunTypes
<1>2. runs' = Append(runs, q) /\ Len(runs) < MaxRuns
  BY DEF NewRun, InsertRun
<1>3. q \in Run
  BY DEF Run, RunStatus, GateStatus
<1>4. tasks' = ReopenedBy(t, gates \cap Required)
  BY DEF NewRun, InsertRun
<1>5. gates \cap Required = {} => \A g \in Required : kept[g] = "none"
  BY CommandAssumption
<1>6. q.task = t /\ q.status = "queued" /\ q.gates = kept
  OBVIOUS
<1> HIDE DEF q, kept
<1>7. /\ runs' \in Seq(Run) /\ Len(runs') = Len(runs) + 1 /\ runs'[new] = q
      /\ \A r \in 1..Len(runs) : runs'[r] = runs[r]
  BY <1>1, <1>2, <1>3, AppendProperties
<1>8. RunIds' = 1..new
  BY <1>7, LenProperties DEF RunIds
<1>9. RunIds' = RunIds \cup {new} /\ new \in Ids /\ \A r \in RunIds : r < new
  BY <1>1, <1>2, <1>8 DEF Ids
<1>10. \/ tasks' = Reopened(t)
       \/ tasks' = tasks /\ \A g \in Required : q.gates[g] = "none"
  BY <1>4, <1>5, <1>6 DEF ReopenedBy
<1> HIDE DEF new
<1> QED
  BY <1>1, <1>6, <1>7, <1>9, <1>10

\* Runs that are kept keep their numbers.
LEMMA KeptNumbers ==
  ASSUME RunTypes, RunsKept
  PROVE  RunIds' = RunIds
BY RunNumbers, LenProperties DEF RunsKept, RunIds

Honest == \A r \in RunIds : Passing(runs[r])

\* What handlers and runners write is honest.
LEMMA HonestWork ==
  ASSUME RunTypes, Honest, RunsWritten
  PROVE  Honest'
<1>1. CASE RunsKept
  BY <1>1, KeptNumbers DEF RunsKept, Honest, Advanced
<1>2. ASSUME NEW t \in Tasks, NEW kinds \in SUBSET Commands, NewRun(t, kinds)
      PROVE  Honest'
  <2>1. PICK new \in Ids :
          /\ RunIds' = RunIds \cup {new} /\ \A r \in RunIds : r < new /\ runs'[r] = runs[r]
          /\ runs'[new].task = t /\ runs'[new].status = "queued"
          /\ \/ tasks' = Reopened(t)
             \/ tasks' = tasks /\ \A g \in Required : runs'[new].gates[g] = "none"
    BY <1>2, NewRunShape
  <2> QED
    BY <2>1 DEF Honest, Passing
<1> QED
  BY <1>1, <1>2 DEF RunsWritten

\* A run that has passed has a pass of every required gate, whether its results come
\* from the runner or by hand, and whoever finishes it.
THEOREM PassesAreHonest == Spec => []PassedRunsPassedTheirGates
<1>1. Init => Honest
  BY DEF Init, Honest, RunIds
<1>2. Base /\ Honest /\ [Next]_vars => Honest'
  <2> SUFFICES ASSUME Base, Honest, [Next]_vars
               PROVE  Honest'
    OBVIOUS
  <2>1. RunTypes
    BY DEF Base
  <2>2. CASE RunsWritten
    BY <2>1, <2>2, HonestWork
  <2>3. CASE RunsKept
    BY <2>1, <2>3, KeptNumbers DEF RunsKept, Honest, Advanced
  <2> QED
    BY <2>2, <2>3, HandlerWork, RequestWork, RunnerWork, PlanningStepKeeps, RestartKeeps,
       StutterKeeps DEF Next, RunWork
<1>3. Honest => PassedRunsPassedTheirGates
  BY DEF Honest, Passing, PassedRunsPassedTheirGates, RequiredOf
<1> QED
  BY <1>1, <1>2, <1>3, BaseInvariance, PTL DEF Spec

-----------------------------------------------------------------------------
(***************************************************************************)
(* Completion.                                                             *)
(***************************************************************************)

\* A run that keeps no task from completion.
Clean(run) ==
  \/ run.status = "deleted"
  \/ \A g \in Required :
       \/ run.gates[g] = "none"
       \/ run.status = "passed" /\ run.gates[g] = "passed"

\* The latest run of a task says whether it is verified.
LEMMA CleanRuns ==
  ASSUME NEW t \in Tasks
  PROVE  UnverifiedGates(t) = {} <=> \A r \in Latest(t) : Clean(runs[r])
<1>1. ASSUME NEW r \in Latest(t)
      PROVE  Clean(runs[r]) <=> \A g \in Required :
               ~ /\ runs[r].gates[g] # "none" /\ runs[r].status # "deleted"
                 /\ runs[r].status # "passed" \/ runs[r].gates[g] # "passed"
  BY DEF Clean
<1>2. UnverifiedGates(t) = {} <=> \A g \in Required : \A r \in Latest(t) :
               ~ /\ runs[r].gates[g] # "none" /\ runs[r].status # "deleted"
                 /\ runs[r].status # "passed" \/ runs[r].gates[g] # "passed"
  BY DEF UnverifiedGates
<1> QED
  BY <1>1, <1>2

\* What is verified stays so while runs advance.
LEMMA StaysVerified ==
  ASSUME RunTypes, RunsKept, NEW t \in Tasks, UnverifiedGates(t) = {}
  PROVE  UnverifiedGates(t)' = {}
<1>1. RunIds' = RunIds /\ \A r \in RunIds : Advanced(runs[r], runs'[r])
  BY KeptNumbers DEF RunsKept
<1>2. Latest(t)' = Latest(t)
  BY <1>1 DEF Latest, Advanced
<1>3. ASSUME NEW r \in Latest(t)
      PROVE  Clean(runs'[r])
  <2>1. Clean(runs[r]) /\ Advanced(runs[r], runs'[r])
    BY <1>1, CleanRuns DEF Latest
  <2> QED
    BY <2>1, CommandAssumption DEF Clean, Advanced
<1> QED
  BY <1>2, <1>3 DEF UnverifiedGates, Clean

\* The transaction that finishes a task has asked verification.
LEMMA AskedVerification ==
  ASSUME PlanBase, Transaction([t \in Tasks |-> {UnverifiedGates(t) = {}}]), NEW x \in Tasks,
         tasks'[x].status \in Finished, tasks[x].status \notin Finished
  PROVE  UnverifiedGates(x) = {}
<1> DEFINE verdicts == [t \in Tasks |-> {UnverifiedGates(t) = {}}]
<1>0. tasks \in [Tasks -> TaskRow] /\ tasks' # tasks
  BY DEF PlanBase, PlanningTypeOK
<1>1. ASSUME NEW t \in Tasks, NEW p \in Projects \cup {Nothing}, NEW s \in Sessions \cup {Nothing},
             NEW w \in Worktrees \cup {Nothing}, NEW parent \in Tasks \cup {Nothing},
             InsertTask(t, p, s, w, parent) \/ WriteRelations(t, p, s, w, parent)
      PROVE  FALSE
  <2>1. CASE x = t
    BY <1>1, <2>1, RelationsShape DEF Related
  <2>2. CASE x # t
    <3>1. tasks'[x] = tasks[x]
      BY <1>1, <2>2, RelationsShape DEF Related
    <3> QED
      BY <3>1
  <2> QED
    BY <2>1, <2>2
<1>2. ASSUME NEW t \in Tasks, RemoveTask(t)
      PROVE  FALSE
  BY <1>2, RemoveShape DEF NoTask, Finished
<1>3. ASSUME NEW t \in Tasks, tasks' = Reopened(t)
      PROVE  FALSE
  <2>1. tasks'[x].status \notin Finished
    <3>1. x # t => tasks'[x] = tasks[x]
      BY <1>3, ReopenedShape
    <3>2. tasks'[t].status \notin Finished
      BY <1>3, ReopenedShape
    <3> QED
      BY <3>1, <3>2
  <2> QED
    BY <2>1
<1>4. ASSUME NEW t \in Tasks, NEW status \in TaskStatus, NEW verified \in verdicts[t],
             StatusAllowed(t, status, verified), WriteStatus(t, status)
      PROVE  UnverifiedGates(x) = {}
  <2>1. x = t /\ Exists(t)
    <3>1. x # t \/ ~Exists(t) => tasks'[x] = tasks[x]
      BY <1>4, StatusShape
    <3> QED
      BY <3>1
  <2>2. status \in Finished
    BY <1>4, <2>1, StatusShape
  <2>3. verified
    BY <1>4, <2>2 DEF StatusAllowed
  <2>4. verified = (UnverifiedGates(t) = {})
    BY <1>4
  <2> QED
    BY <2>1, <2>3, <2>4
<1> QED
  BY <1>0, <1>1, <1>2, <1>3, <1>4
     DEF Transaction, WriteDependencies, WritePlan, WriteCriterion

Earned == \A t \in Tasks : tasks[t].status \in Finished => UnverifiedGates(t) = {}

\* Nothing that a handler or a runner does leaves a task completed without verification.
LEMMA EarnedWork ==
  ASSUME Base, Earned, RunsWritten
  PROVE  Earned'
<1>0. RunTypes /\ PlanBase
  BY DEF Base, PlanInv
<1>1. ASSUME NEW x \in Tasks, TasksKept, tasks'[x].status \in Finished
      PROVE  tasks'[x] = tasks[x] /\ UnverifiedGates(x) = {}
  <2>1. tasks'[x] = tasks[x]
    BY <1>0, <1>1, ReopenedShape DEF TasksKept
  <2> QED
    BY <1>1, <2>1 DEF Earned
<1>2. CASE RunsKept /\ TasksKept
  BY <1>0, <1>1, <1>2, StaysVerified DEF Earned
<1>3. ASSUME NEW t \in Tasks, NEW kinds \in SUBSET Commands, NewRun(t, kinds),
             NEW x \in Tasks, tasks'[x].status \in Finished
      PROVE  UnverifiedGates(x)' = {}
  <2>1. PICK new \in Ids :
          /\ RunIds' = RunIds \cup {new} /\ \A r \in RunIds : r < new /\ runs'[r] = runs[r]
          /\ runs'[new].task = t /\ runs'[new].status = "queued"
          /\ \/ tasks' = Reopened(t)
             \/ tasks' = tasks /\ \A g \in Required : runs'[new].gates[g] = "none"
    BY <1>0, <1>3, NewRunShape
  <2>2. TasksKept
    BY <2>1 DEF TasksKept
  <2>3. tasks'[x] = tasks[x] /\ \A r \in Latest(x) : Clean(runs[r])
    BY <1>1, <1>3, <2>2, CleanRuns
  <2>4. RunIds \subseteq Nat /\ new \in Nat
    BY <1>0, <2>1, RunNumbers DEF Ids
  <2>5. CASE x = t
    <3>1. tasks' # Reopened(t)
      BY <1>0, <1>3, <2>5, ReopenedShape
    <3>2. \A g \in Required : runs'[new].gates[g] = "none"
      BY <2>1, <3>1
    <3>3. Latest(x)' = {new}
      <4>1. \A q \in RunIds' : q \in Nat /\ q <= new
        BY <2>1, <2>4
      <4>2. \A r \in RunIds' : new <= r => r = new
        BY <2>4, <4>1
      <4>3. new \in RunIds' /\ runs'[new].task = x
        BY <2>1, <2>5
      <4> QED
        BY <4>1, <4>2, <4>3 DEF Latest
    <3> QED
      BY <3>2, <3>3 DEF UnverifiedGates
  <2>6. CASE x # t
    <3>1. Latest(x)' = Latest(x) /\ Latest(x) \subseteq RunIds
      BY <2>1, <2>6 DEF Latest
    <3>2. \A r \in Latest(x) : Clean(runs'[r])
      BY <2>1, <2>3, <3>1
    <3> QED
      BY <3>1, <3>2 DEF UnverifiedGates, Clean
  <2> QED
    BY <2>5, <2>6
<1> QED
  BY <1>2, <1>3 DEF RunsWritten, Earned

\* A completed task has earned it: its plan is done, its required criteria are satisfied,
\* and its latest run, if it has required gates, has passed.
THEOREM CompletionEarned == Spec => []CompletionIsEarned
<1>1. Init => Earned
  BY DEF Init, PlanningInit, NoTask, Finished, Earned
<1>2. Base /\ Earned /\ [Next]_vars => Earned'
  <2> SUFFICES ASSUME Base, Earned, [Next]_vars
               PROVE  Earned'
    OBVIOUS
  <2>1. RunTypes /\ PlanBase /\ Creating
    BY DEF Base, PlanInv
  <2>2. CASE RunsWritten
    BY <2>2, EarnedWork
  <2>3. CASE RunsKept /\ TasksKept
    BY <2>2, <2>3 DEF RunsWritten
  <2>4. ASSUME NEW c \in Clients, PlanningStep(c)
        PROVE  Earned'
    <3>1. RunsKept
      BY <2>4, PlanningStepKeeps
    <3>2. Transaction([t \in Tasks |-> {UnverifiedGates(t) = {}}])
      BY <2>1, <2>4, PlanningTransaction DEF PlanningStep
    <3>3. ASSUME NEW x \in Tasks, tasks'[x].status \in Finished
          PROVE  UnverifiedGates(x)' = {}
      <4>1. UnverifiedGates(x) = {}
        BY <2>1, <3>2, <3>3, AskedVerification DEF Earned
      <4> QED
        BY <2>1, <3>1, <4>1, StaysVerified
    <3> QED
      BY <3>3 DEF Earned
  <2>5. CASE Restart
    BY <2>3, <2>5, RestartKeeps DEF Restart, TasksKept
  <2> QED
    BY <2>2, <2>3, <2>4, <2>5, HandlerWork, RequestWork, RunnerWork, StutterKeeps
       DEF Next, RunWork
<1>3. Base /\ Earned => CompletionIsEarned
  BY DEF Base, PlanInv, Earned, CompletionIsEarned
<1> QED
  BY <1>1, <1>2, <1>3, BaseInvariance, PTL DEF Spec

-----------------------------------------------------------------------------
(***************************************************************************)
(* Who attends to a run.                                                   *)
(***************************************************************************)

\* The runner of r is at work on it; the handler of c is about to start its runner.
Works(r) == runner[r].pc \notin {"none", "remove", "done"}
Watches(c, r) == call[c].run = r /\ call[c].pc \in {"get", "start", "abandon"}

\* No run begins to run.
NoneStarted ==
  \A r \in RunIds' : runs'[r].status = "running" => r \in RunIds /\ runs[r].status = "running"

\* A write to the row of r that does not start it.
LEMMA OneUnstarted ==
  ASSUME RunTypes, NEW r \in RunIds, OnlyRun(r),
         runs'[r].status = "running" => runs[r].status = "running"
  PROVE  NoneStarted
BY KeptNumbers DEF OnlyRun, NoneStarted

\* No write.
LEMMA RowsUnstarted ==
  ASSUME runs' = runs
  PROVE  NoneStarted
BY DEF NoneStarted, RunIds

\* Rows that are deleted are not started.
LEMMA DeletedUnstarted ==
  ASSUME RunTypes, runs' = RunsOfTasks
  PROVE  NoneStarted
<1>1. RunIds' = RunIds
  BY DeletedShape, KeptNumbers
<1>2. ASSUME NEW r \in RunIds, runs'[r].status = "running"
      PROVE  runs[r].status = "running"
  <2> DEFINE q == [runs[r] EXCEPT !.status = "deleted"]
  <2>1. q.status = "deleted"
    BY RunNumbers DEF Run
  <2>2. runs'[r] = IF tasks'[runs[r].task].status = "none" THEN q ELSE runs[r]
    BY DEF RunsOfTasks
  <2> HIDE DEF q
  <2> QED
    BY <1>2, <2>1, <2>2
<1> QED
  BY <1>1, <1>2 DEF NoneStarted

\* Attention is kept if nobody at work leaves a run that goes on running.
LEMMA AttentionKept ==
  ASSUME RunningRunsAreAttended, NoneStarted,
         \A r \in RunIds : runs'[r].status = "running" /\ Works(r) => Works(r)',
         \A r \in RunIds, c \in Clients : runs'[r].status = "running" /\ Watches(c, r) =>
           Works(r)' \/ Watches(c, r)'
  PROVE  RunningRunsAreAttended'
<1> SUFFICES ASSUME NEW r \in RunIds', runs'[r].status = "running"
             PROVE  Works(r)' \/ \E c \in Clients : Watches(c, r)'
  BY DEF RunningRunsAreAttended, Works, Watches
<1>1. r \in RunIds /\ runs[r].status = "running"
  BY DEF NoneStarted
<1>2. Works(r) \/ \E c \in Clients : Watches(c, r)
  BY <1>1 DEF RunningRunsAreAttended, Works, Watches
<1> QED
  BY <1>1, <1>2

\* A handler that starts no runner.
LEMMA Bystander ==
  ASSUME RunningRunsAreAttended, NoneStarted, NEW c \in Clients, ~\E r \in RunIds : Watches(c, r),
         \A d \in Clients : d # c => call'[d] = call[d],
         \A r \in RunIds : Works(r) => Works(r)'
  PROVE  RunningRunsAreAttended'
BY AttentionKept DEF Watches

\* What becomes of the calls.
LEMMA OneCall ==
  ASSUME Base, NEW c \in Clients, NEW q,
         call' = [call EXCEPT ![c] = q] \/ call' = call \/ Return(c)
  PROVE  \A d \in Clients : d # c => call'[d] = call[d]
BY DEF Base, HandlerTypes, Return

\* A handler keeps the attention that runs have.
LEMMA HandlerAttends ==
  ASSUME Base, RunningRunsAreAttended, NEW c \in Clients, HandlerStep(c)
  PROVE  RunningRunsAreAttended'
<1>0. /\ RunTypes /\ call \in [Clients -> Call] /\ CallKnows(call[c], RunIds)
      /\ runner \in [Ids -> Runner]
  BY DEF Base, HandlerTypes, RunnerTypes
<1>1. ASSUME NEW found \in Detected, InstallDetected(c, found)
      PROVE  RunningRunsAreAttended'
  <2>1. ~\E r \in RunIds : Watches(c, r)
    BY <1>1 DEF InstallDetected, At, Watches
  <2>2. \A d \in Clients : d # c => call'[d] = call[d]
    BY <1>0, <1>1 DEF InstallDetected, Return, Goto
  <2>3. NoneStarted /\ runner' = runner
    BY <1>1, RowsUnstarted DEF InstallDetected
  <2> QED
    BY <2>1, <2>2, <2>3, Bystander DEF Works
<1>2. ASSUME CreateRun(c)
      PROVE  RunningRunsAreAttended'
  <2>1. /\ ~\E r \in RunIds : Watches(c, r)
        /\ call[c].task \in Tasks /\ call[c].kinds \in SUBSET Commands
    BY <1>0, <1>2 DEF CreateRun, At, Watches, CallKnows, Call
  <2>2. (\A d \in Clients : d # c => call'[d] = call[d]) /\ runner' = runner
    BY <1>2, OneCall DEF CreateRun
  <2>3. CASE runs' = runs
    BY <2>1, <2>2, <2>3, RowsUnstarted, Bystander DEF Works
  <2>4. CASE NewRun(call[c].task, call[c].kinds)
    <3>1. NoneStarted
      BY <1>0, <2>1, <2>4, NewRunShape DEF NoneStarted
    <3> QED
      BY <2>1, <2>2, <3>1, Bystander DEF Works
  <2> QED
    BY <1>2, <2>3, <2>4 DEF CreateRun, NewRun
<1>3. ASSUME GetDetails(c)
      PROVE  RunningRunsAreAttended'
  <2> DEFINE r == call[c].run
  <2>1. NoneStarted /\ runner' = runner /\ runs' = runs /\ r \in RunIds
    BY <1>0, <1>3, RowsUnstarted DEF GetDetails, At, CallKnows
  <2>2. CASE Return(c) /\ runs[r].status = "deleted"
    <3>1. \A d \in Clients : d # c => call'[d] = call[d]
      BY <1>0, <2>2 DEF Return
    <3>2. \A x \in RunIds : runs'[x].status = "running" => ~Watches(c, x)
      BY <2>1, <2>2 DEF Watches
    <3>3. \A x \in RunIds, d \in Clients : runs'[x].status = "running" /\ Watches(d, x) =>
             Watches(d, x)'
      BY <3>1, <3>2 DEF Watches
    <3> QED
      BY <2>1, <3>3, AttentionKept DEF Works
  <2>3. CASE call' = [call EXCEPT ![c].pc = "start", ![c].seen = runs[call[c].run].status]
    <3> DEFINE q == [call[c] EXCEPT !.pc = "start", !.seen = runs[call[c].run].status]
    <3>1. q.pc = "start" /\ q.run = r
      BY <1>0 DEF Call
    <3>2. call' = [call EXCEPT ![c] = q]
      BY <2>3
    <3> HIDE DEF q
    <3>3. \A x \in RunIds, d \in Clients : Watches(d, x) => Watches(d, x)'
      BY <1>0, <3>1, <3>2 DEF Watches
    <3> QED
      BY <2>1, <3>3, AttentionKept DEF Works
  <2> QED
    BY <1>3, <2>2, <2>3 DEF GetDetails
<1>4. ASSUME StartRunner(c)
      PROVE  RunningRunsAreAttended'
  <2> DEFINE r == call[c].run
  <2>1. NoneStarted /\ r \in RunIds /\ r \in Ids
    BY <1>0, <1>4, RowsUnstarted, RunNumbers DEF StartRunner, At, CallKnows
  <2>2. CASE Return(c) /\ runner' = [runner EXCEPT ![r] = [NoRunner EXCEPT !.pc = "root"]]
    <3>1. runner'[r].pc = "root" /\ \A x \in Ids : x # r => runner'[x] = runner[x]
      BY <1>0, <2>1, <2>2 DEF NoRunner
    <3>2. \A d \in Clients : d # c => call'[d] = call[d]
      BY <1>0, <2>2 DEF Return
    <3>3. \A x \in RunIds : Works(x) => Works(x)'
      BY <1>0, <3>1, RunNumbers DEF Works
    <3>4. \A x \in RunIds, d \in Clients : Watches(d, x) => Works(x)' \/ Watches(d, x)'
      BY <3>1, <3>2 DEF Watches, Works
    <3> QED
      BY <2>1, <3>3, <3>4, AttentionKept
  <2>3. CASE Goto(c, "abandon") /\ UNCHANGED runner
    <3> DEFINE q == [call[c] EXCEPT !.pc = "abandon"]
    <3>1. q.pc = "abandon" /\ q.run = r
      BY <1>0 DEF Call
    <3>2. call' = [call EXCEPT ![c] = q]
      BY <2>3 DEF Goto
    <3> HIDE DEF q
    <3>3. \A x \in RunIds, d \in Clients : Watches(d, x) => Watches(d, x)'
      BY <1>0, <3>1, <3>2 DEF Watches
    <3> QED
      BY <2>1, <2>3, <3>3, AttentionKept DEF Works
  <2> QED
    BY <1>4, <2>2, <2>3 DEF StartRunner
<1>5. ASSUME Abandon(c)
      PROVE  RunningRunsAreAttended'
  <2> DEFINE r == call[c].run
  <2>1. TryCancel(r) /\ Return(c) /\ runner' = runner /\ r \in RunIds
    BY <1>0, <1>5 DEF Abandon, At, CallKnows
  <2>2. OnlyRun(r) /\ runs'[r].status # "running"
    BY <1>0, <2>1, TryCancelShape
  <2>3. NoneStarted
    BY <1>0, <2>1, <2>2, OneUnstarted
  <2>4. \A d \in Clients : d # c => call'[d] = call[d]
    BY <1>0, <2>1 DEF Return
  <2>5. \A x \in RunIds, d \in Clients : runs'[x].status = "running" /\ Watches(d, x) =>
           Watches(d, x)'
    BY <2>2, <2>4 DEF Watches
  <2> QED
    BY <2>1, <2>3, <2>5, AttentionKept DEF Works
<1>6. ASSUME SignalRunner(c)
      PROVE  RunningRunsAreAttended'
  <2> DEFINE r == call[c].run
             q == [runner[r] EXCEPT !.cancelled = TRUE]
  <2>1. /\ ~\E x \in RunIds : Watches(c, x)
        /\ NoneStarted /\ Return(c) /\ r \in RunIds /\ r \in Ids
    BY <1>0, <1>6, RowsUnstarted, RunNumbers DEF SignalRunner, At, Watches, CallKnows
  <2>2. q.pc = runner[r].pc
    BY <1>0, <2>1 DEF Runner
  <2>3. runner' = [runner EXCEPT ![r] = q] \/ runner' = runner
    BY <1>6 DEF SignalRunner
  <2> HIDE DEF q
  <2>4. \A x \in RunIds : Works(x) => Works(x)'
    BY <1>0, <2>1, <2>2, <2>3, RunNumbers DEF Works
  <2>5. \A d \in Clients : d # c => call'[d] = call[d]
    BY <1>0, <2>1 DEF Return
  <2> QED
    BY <2>1, <2>4, <2>5, Bystander
<1> QED
  BY <1>1, <1>2, <1>3, <1>4, <1>5, <1>6 DEF HandlerStep

\* So does a request: one that starts a run attends to it.
LEMMA RequestAttends ==
  ASSUME Base, RunningRunsAreAttended, NEW c \in Clients, Requests(c)
  PROVE  RunningRunsAreAttended'
<1>0. /\ RunTypes /\ call \in [Clients -> Call] /\ runner \in [Ids -> Runner]
  BY DEF Base, HandlerTypes, RunnerTypes
<1>1. (~\E r \in RunIds : Watches(c, r)) /\ runner' = runner
  BY DEF Requests, ConfigureCommands, ListCommands, VerifyTask, Rerun, StartRun, FinishRun,
     CancelRun, RecordResult, Ready, At, Watches
<1>2. \A d \in Clients : d # c => call'[d] = call[d]
  BY <1>0 DEF Requests, ConfigureCommands, ListCommands, VerifyTask, Rerun, StartRun, FinishRun,
     CancelRun, RecordResult
<1>3. ASSUME NEW r \in RunIds, StartRun(c, r)
      PROVE  RunningRunsAreAttended'
  <2> DEFINE q == [Idle EXCEPT !.pc = "get", !.run = r]
  <2>1. q.pc = "get" /\ q.run = r
    BY DEF Idle
  <2>2. call' = [call EXCEPT ![c] = q] /\ OnlyRun(r)
    BY <1>0, <1>3, StartShape DEF StartRun
  <2> HIDE DEF q
  <2>3. Watches(c, r)'
    BY <1>0, <2>1, <2>2 DEF Watches
  <2> SUFFICES ASSUME NEW x \in RunIds', runs'[x].status = "running"
               PROVE  Works(x)' \/ \E d \in Clients : Watches(d, x)'
    BY DEF RunningRunsAreAttended, Works, Watches
  <2>4. CASE x = r
    BY <2>3, <2>4
  <2>5. CASE x # r
    <3>1. x \in RunIds /\ runs[x].status = "running"
      BY <1>0, <2>2, <2>5, KeptNumbers DEF OnlyRun
    <3>2. Works(x) \/ \E d \in Clients : Watches(d, x)
      BY <3>1 DEF RunningRunsAreAttended, Works, Watches
    <3> QED
      BY <1>1, <1>2, <3>1, <3>2 DEF Works, Watches
  <2> QED
    BY <2>4, <2>5
<1>4. ASSUME NEW r \in RunIds, FinishRun(c, r)
      PROVE  NoneStarted
  BY <1>0, <1>4, FinishShape, OneUnstarted DEF FinishRun
<1>5. ASSUME NEW r \in RunIds, CancelRun(c, r)
      PROVE  NoneStarted
  BY <1>0, <1>5, CancelShape, OneUnstarted DEF CancelRun
<1>6. ASSUME NEW r \in RunIds, NEW g \in Commands, NEW status \in Answers,
             RecordResult(c, r, g, status)
      PROVE  NoneStarted
  <2>1. status \in GateStatus \ {"none"}
    BY AnswerAssumption DEF GateStatus, GateResults
  <2>2. MayRecord(r, g) /\ WriteGate(r, g, status)
    BY <1>6 DEF RecordResult
  <2> QED
    BY <1>0, <2>1, <2>2, GateShape, OneUnstarted DEF MayRecord
<1>7. runs' = runs => NoneStarted
  BY RowsUnstarted
<1>8. ASSUME NoneStarted
      PROVE  RunningRunsAreAttended'
  BY <1>1, <1>2, <1>8, Bystander DEF Works
<1> QED
  BY <1>3, <1>4, <1>5, <1>6, <1>7, <1>8
     DEF Requests, ConfigureCommands, ListCommands, VerifyTask, Rerun

\* A runner leaves its run only when it has ended.
LEMMA RunnerAttends ==
  ASSUME Base, RunningRunsAreAttended, NEW r \in Ids, RunnerStep(r)
  PROVE  RunningRunsAreAttended'
<1>0. /\ RunTypes /\ runner \in [Ids -> Runner] /\ runner[r] \in Runner
      /\ call' = call /\ \A x \in RunIds : x \in Ids
  BY RunNumbers DEF Base, RunnerTypes, RunnerStep, FindRoot, NoRoot, LeaveLoop, SpawnGate,
     RefuseGate, Captured, GateEnds, RecordGate, RecordFails, SkipGate, RunnerFinish, GiveUp,
     RemoveHandle, StillCommands
<1>1. r \in RunIds
  <2>1. runner[r].pc # "none"
    BY DEF RunnerStep, FindRoot, NoRoot, LeaveLoop, SpawnGate, RefuseGate, Captured, GateEnds,
       RecordGate, RecordFails, SkipGate, RunnerFinish, GiveUp, RemoveHandle, RunnerAt
  <2> QED
    BY <2>1 DEF Base, RunnerTypes
<1>2. ASSUME NoneStarted, NEW q, runner' = [runner EXCEPT ![r] = q],
             runs'[r].status = "running" /\ Works(r) => q.pc \notin {"none", "remove", "done"}
      PROVE  RunningRunsAreAttended'
  <2>1. \A x \in RunIds : runs'[x].status = "running" /\ Works(x) => Works(x)'
    BY <1>0, <1>2 DEF Works
  <2>2. \A x \in RunIds, c \in Clients : Watches(c, x) => Watches(c, x)'
    BY <1>0 DEF Watches
  <2> QED
    BY <1>2, <2>1, <2>2, AttentionKept
<1>3. ASSUME NoneStarted, NEW pc, RunnerTo(r, pc),
             runs'[r].status = "running" /\ Works(r) => pc \notin {"none", "remove", "done"}
      PROVE  RunningRunsAreAttended'
  <2> DEFINE q == [runner[r] EXCEPT !.pc = pc]
  <2>1. q.pc = pc
    BY <1>0 DEF Runner
  <2>2. runner' = [runner EXCEPT ![r] = q]
    BY <1>3 DEF RunnerTo
  <2> HIDE DEF q
  <2> QED
    BY <1>2, <1>3, <2>1, <2>2
<1>4. ASSUME NoneStarted, NEW rest, NEW pc \in Places \ {"none", "remove", "done"},
             runner' = [runner EXCEPT ![r].left = rest, ![r].pc = pc]
      PROVE  RunningRunsAreAttended'
  <2> DEFINE q == [runner[r] EXCEPT !.left = rest, !.pc = pc]
  <2>1. q.pc = pc
    BY <1>0 DEF Runner
  <2>2. runner' = [runner EXCEPT ![r] = q]
    BY <1>4
  <2> HIDE DEF q
  <2> QED
    BY <1>2, <1>4, <2>1, <2>2
<1>5. ASSUME runs' = runs
      PROVE  NoneStarted
  BY <1>5, RowsUnstarted
<1>6. ASSUME NEW g, NEW status \in GateStatus \ {"none"}, MayRecord(r, g), WriteGate(r, g, status)
      PROVE  NoneStarted
  BY <1>0, <1>1, <1>6, GateShape, OneUnstarted DEF MayRecord
<1>7. ASSUME FindRoot(r)
      PROVE  RunningRunsAreAttended'
  <2> DEFINE left == {g \in Commands : runs[r].gates[g] # "none"}
             q == [runner[r] EXCEPT !.pc = "next", !.left = left]
  <2>1. q.pc = "next"
    BY <1>0 DEF Runner
  <2>2. runner' = [runner EXCEPT ![r] = q] /\ runs' = runs
    BY <1>7 DEF FindRoot
  <2> HIDE DEF q
  <2> QED
    BY <1>2, <1>5, <2>1, <2>2
<1>8. ASSUME NoRoot(r) \/ LeaveLoop(r) \/ RecordFails(r)
      PROVE  RunningRunsAreAttended'
  <2>1. runs' = runs /\ \E pc \in {"cancel", "finish"} : RunnerTo(r, pc)
    BY <1>8 DEF NoRoot, LeaveLoop, RecordFails
  <2> QED
    BY <1>3, <1>5, <2>1
<1>9. ASSUME RemoveHandle(r)
      PROVE  RunningRunsAreAttended'
  <2>1. runs' = runs /\ RunnerTo(r, "done") /\ ~Works(r)
    BY <1>9 DEF RemoveHandle, RunnerAt, Works
  <2> QED
    BY <1>3, <1>5, <2>1
<1>10. ASSUME SpawnGate(r)
       PROVE  RunningRunsAreAttended'
  <2> DEFINE q == [runner[r] EXCEPT !.pc = "execute", !.child = TRUE]
  <2>1. q.pc = "execute"
    BY <1>0 DEF Runner
  <2>2. runner' = [runner EXCEPT ![r] = q] /\ runs' = runs
    BY <1>10 DEF SpawnGate
  <2> HIDE DEF q
  <2> QED
    BY <1>2, <1>5, <2>1, <2>2
<1>11. ASSUME runs' = runs,
              runner' = [runner EXCEPT ![r].pc = "record", ![r].result = "failed"]
       PROVE  RunningRunsAreAttended'
  <2> DEFINE q == [runner[r] EXCEPT !.pc = "record", !.result = "failed"]
  <2>1. q.pc = "record"
    BY <1>0 DEF Runner
  <2>2. runner' = [runner EXCEPT ![r] = q]
    BY <1>11
  <2> HIDE DEF q
  <2> QED
    BY <1>2, <1>5, <1>11, <2>1, <2>2
<1>12. ASSUME NEW result, GateEnds(r, result)
       PROVE  RunningRunsAreAttended'
  <2> DEFINE q == [runner[r] EXCEPT !.pc = "capture", !.child = FALSE, !.result = result]
  <2>1. q.pc = "capture"
    BY <1>0 DEF Runner
  <2>2. runner' = [runner EXCEPT ![r] = q] /\ runs' = runs
    BY <1>12 DEF GateEnds
  <2> HIDE DEF q
  <2> QED
    BY <1>2, <1>5, <2>1, <2>2
<1>13. ASSUME Captured(r)
       PROVE  RunningRunsAreAttended'
  <2>1. runs' = runs
    BY <1>13 DEF Captured
  <2>2. CASE \E pc \in {"cancel", "record"} : RunnerTo(r, pc)
    BY <1>3, <1>5, <2>1, <2>2
  <2> QED
    BY <1>11, <1>13, <2>1, <2>2 DEF Captured
<1>14. ASSUME NoneStarted, runner' = AfterGate(r)
       PROVE  RunningRunsAreAttended'
  <2> DEFINE rest == runner[r].left \ {Gate(r)}
             pc == IF ~(runner[r].result # "passed" /\ Gate(r) \in Required) THEN "next"
                   ELSE IF rest = {} THEN "finish" ELSE "skip"
  <2>1. pc \in Places \ {"none", "remove", "done"}
    BY DEF Places
  <2>2. runner' = [runner EXCEPT ![r].left = rest, ![r].pc = pc]
    BY <1>14 DEF AfterGate
  <2> HIDE DEF rest, pc
  <2> QED
    BY <1>4, <1>14, <2>1, <2>2
<1>15. ASSUME RecordGate(r)
       PROVE  RunningRunsAreAttended'
  <2>1. CASE runs' = runs /\ runner' = AfterGate(r)
    BY <1>5, <1>14, <2>1
  <2>2. CASE MayRecord(r, Gate(r)) /\ WriteGate(r, Gate(r), runner[r].result)
             /\ runner' = AfterGate(r)
    <3>1. runner[r].result \in GateStatus \ {"none"}
      BY <1>0 DEF Runner, GateStatus, GateResults
    <3> QED
      BY <1>6, <1>14, <2>2, <3>1
  <2>3. CASE runs' = runs /\ RunnerTo(r, "cancel")
    BY <1>3, <1>5, <2>3
  <2> QED
    BY <1>15, <2>1, <2>2, <2>3 DEF RecordGate
<1>16. ASSUME SkipGate(r)
       PROVE  RunningRunsAreAttended'
  <2> DEFINE rest == runner[r].left \ {Gate(r)}
             pc == IF rest = {} THEN "finish" ELSE "skip"
             next == [runner EXCEPT ![r].left = rest, ![r].pc = pc]
  <2>1. pc \in Places \ {"none", "remove", "done"}
    BY DEF Places
  <2>2. \/ runs' = runs /\ runner' = next
        \/ MayRecord(r, Gate(r)) /\ WriteGate(r, Gate(r), "skipped") /\ runner' = next
        \/ runs' = runs /\ RunnerTo(r, "cancel")
    BY <1>16 DEF SkipGate
  <2> HIDE DEF rest, pc
  <2>3. CASE NoneStarted /\ runner' = next
    BY <1>4, <2>1, <2>3
  <2>4. CASE MayRecord(r, Gate(r)) /\ WriteGate(r, Gate(r), "skipped") /\ runner' = next
    BY <1>6, <2>3, <2>4 DEF GateStatus, GateResults
  <2>5. CASE runs' = runs /\ RunnerTo(r, "cancel")
    BY <1>3, <1>5, <2>5
  <2> QED
    BY <1>5, <2>2, <2>3, <2>4, <2>5
<1>17. ASSUME RunnerFinish(r)
       PROVE  RunningRunsAreAttended'
  <2>1. CASE MayFinish(r) /\ WriteFinish(r) /\ RunnerTo(r, "remove")
    <3>1. OnlyRun(r) /\ runs'[r].status # "running"
      BY <1>0, <1>1, <2>1, FinishShape
    <3> QED
      BY <1>0, <1>1, <1>3, <2>1, <3>1, OneUnstarted
  <2>2. CASE runs' = runs /\ RunnerTo(r, "cancel")
    BY <1>3, <1>5, <2>2
  <2>3. CASE runs' = runs /\ runs[r].status = "deleted" /\ RunnerTo(r, "remove")
    BY <1>3, <1>5, <2>3
  <2> QED
    BY <1>17, <2>1, <2>2, <2>3 DEF RunnerFinish
<1>18. ASSUME GiveUp(r)
       PROVE  RunningRunsAreAttended'
  <2>1. OnlyRun(r) /\ runs'[r].status # "running" /\ RunnerTo(r, "remove")
    BY <1>0, <1>1, <1>18, TryCancelShape DEF GiveUp
  <2> QED
    BY <1>0, <1>1, <1>3, <2>1, OneUnstarted
<1> QED
  BY <1>7, <1>8, <1>9, <1>10, <1>11, <1>12, <1>13, <1>15, <1>16, <1>17, <1>18
     DEF RunnerStep, RefuseGate

\* A run that is running has its runner at work on it, or the handler that is about to
\* start the runner, whatever planning, other handlers and restarts do meanwhile.
THEOREM RunsAreAttended == Spec => []RunningRunsAreAttended
<1>1. Init => RunningRunsAreAttended
  BY DEF Init, RunningRunsAreAttended, RunIds
<1>2. Base /\ RunningRunsAreAttended /\ [Next]_vars => RunningRunsAreAttended'
  <2> SUFFICES ASSUME Base, RunningRunsAreAttended, [Next]_vars
               PROVE  RunningRunsAreAttended'
    OBVIOUS
  <2>1. RunTypes
    BY DEF Base
  <2>2. ASSUME NoneStarted, UNCHANGED <<runner, call>>
        PROVE  RunningRunsAreAttended'
    BY <2>2, AttentionKept DEF Works, Watches
  <2>3. ASSUME NEW c \in Clients, PlanningStep(c)
        PROVE  RunningRunsAreAttended'
    BY <2>1, <2>2, <2>3, DeletedUnstarted DEF PlanningStep
  <2>4. CASE Restart
    BY <2>1, <2>4, RecoveredShape, KeptNumbers DEF Restart, RunningRunsAreAttended
  <2>5. CASE UNCHANGED vars
    BY <2>2, <2>5, RowsUnstarted DEF vars, verificationVars
  <2> QED
    BY <2>3, <2>4, <2>5, HandlerAttends, RequestAttends, RunnerAttends DEF Next
<1> QED
  BY <1>1, <1>2, BaseInvariance, PTL DEF Spec
=============================================================================
