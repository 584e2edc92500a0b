---------------------- MODULE BrowserVerification_proofs ----------------------
(***************************************************************************)
(* Proofs about BrowserVerification, for any clients, definitions, tasks   *)
(* and bounds: decisions stand, a run is executed once, an image is        *)
(* compared with images that were approved, and a completed task stays     *)
(* verified.                                                               *)
(***************************************************************************)
EXTENDS BrowserVerification, FiniteSetTheorems, SequenceTheorems, TLAPS

-----------------------------------------------------------------------------
(***************************************************************************)
(* The invariants.                                                         *)
(***************************************************************************)

\* A handler at work has a run, so has an execution, and a run its definition.
Owned ==
  /\ \A c \in Clients : call[c].pc # "idle" => call[c].run \in RunIds
  /\ \A r \in Ids : background[r].pc # "none" => r \in RunIds
  /\ \A r \in RunIds : Saved(runs[r].definition)

\* No image is compared before the end of a run.
Unseen ==
  \A r \in RunIds : runs[r].status \in {"queued", "running"} =>
    \A v \in Variants : runs[r].comparisons[v] = "none"

Base == TypeOK /\ Owned /\ Unseen

\* What a transaction may do to a run: no decision is undone but by a review, an
\* approval of an image is never taken back, and a run that passes was compared
\* with the files that its execution found.
Evolves(r, y) ==
  LET x == runs[r] IN
  /\ y.definition = x.definition /\ y.task = x.task
  /\ \A v \in Variants : x.comparisons[v] = "approved" => y.comparisons[v] = "approved"
  /\ y.status \in {"queued", "running"} => y.comparisons = x.comparisons
  /\ \/ /\ y.status = x.status /\ y.blocking = x.blocking /\ y.critical = x.critical
        /\ y.against = x.against
     \/ x.status = "queued" /\ y.status \in {"running", "cancelled", "error", "interrupted"}
     \/ /\ x.status = "running" /\ y.status \in EndedStatus \ {"approved"}
        /\ y.status = "passed" =>
             /\ y.against = background[r].against
             /\ \A v \in Variants : Nothing \notin y.against[v]
     \/ x.status \in {"failed", "needs_review"} /\ y.status \in {"failed", "approved"}

Moved(r) == \E q \in Run : runs' = [runs EXCEPT ![r] = q] /\ Evolves(r, q)

\* The runs that recovery interrupts.
Interrupted ==
  runs' = [r \in RunIds |->
             IF MayEnd(r) THEN [runs[r] EXCEPT !.status = "interrupted"] ELSE runs[r]]

Queued ==
  /\ Len(runs) < MaxRuns
  /\ \E d \in Definitions, t \in Tasks, key \in Keys \cup {Nothing} :
       Saved(d) /\ runs' = Append(runs, NewRun(d, t, key))

\* What a step does to the runs.
RunStep == UNCHANGED runs \/ (\E r \in RunIds : Moved(r)) \/ Queued \/ Interrupted

-----------------------------------------------------------------------------
(***************************************************************************)
(* The runs.                                                               *)
(***************************************************************************)

\* A run that is replaced by another leaves the others alone.
LEMMA SetRun ==
  ASSUME runs \in Seq(Run), NEW r \in RunIds, NEW q \in Run, runs' = [runs EXCEPT ![r] = q]
  PROVE  /\ runs' \in Seq(Run) /\ Len(runs') = Len(runs) /\ DOMAIN runs' = RunIds
         /\ runs'[r] = q
         /\ \A x \in RunIds \ {r} : runs'[x] = runs[x]
<1>1. RunIds = 1..Len(runs)
  BY DEF RunIds
<1> QED
  BY <1>1, ExceptSeq DEF RunIds

\* A run that is queued comes after the others.
LEMMA AddRun ==
  ASSUME runs \in Seq(Run), NEW q \in Run, runs' = Append(runs, q)
  PROVE  /\ runs' \in Seq(Run) /\ Len(runs') = Len(runs) + 1
         /\ DOMAIN runs' = RunIds \cup {Len(runs) + 1} /\ Len(runs) + 1 \notin RunIds
         /\ runs'[Len(runs) + 1] = q
         /\ \A x \in RunIds : runs'[x] = runs[x]
<1>1. RunIds = 1..Len(runs) /\ Len(runs) \in Nat
  BY DEF RunIds
<1>2. /\ runs' \in Seq(Run) /\ Len(runs') = Len(runs) + 1
      /\ \A i \in 1..Len(runs) : runs'[i] = runs[i]
      /\ runs'[Len(runs) + 1] = q
  BY AppendProperties
<1>3. DOMAIN runs' = 1..(Len(runs) + 1)
  BY <1>2
<1> QED
  BY <1>1, <1>2, <1>3

\* A new run is one, and queued.
LEMMA NewRunType ==
  ASSUME NEW d \in Definitions, NEW t \in Tasks, NEW key \in Keys \cup {Nothing}
  PROVE  /\ NewRun(d, t, key) \in Run /\ NewRun(d, t, key).status = "queued"
         /\ NewRun(d, t, key).definition = d /\ NewRun(d, t, key).task = t
         /\ \A v \in Variants : NewRun(d, t, key).comparisons[v] = "none"
  BY DEF NewRun, NoImages, Run, RunStatus, ComparisonStatus

\* Recovery keeps all runs, and interrupts those that have not ended.
LEMMA InterruptShape ==
  ASSUME runs \in Seq(Run), Interrupted
  PROVE  /\ runs' \in Seq(Run) /\ Len(runs') = Len(runs) /\ DOMAIN runs' = RunIds
         /\ \A r \in RunIds : Evolves(r, runs'[r])
<1>1. ASSUME NEW r \in RunIds
      PROVE  runs'[r] \in Run /\ Evolves(r, runs'[r])
  <2> DEFINE q == [runs[r] EXCEPT !.status = "interrupted"]
  <2>1. runs[r] \in Run
    BY ElementOfSeq DEF RunIds
  <2>2. /\ q \in Run /\ q.status = "interrupted" /\ q.definition = runs[r].definition
        /\ q.task = runs[r].task /\ q.comparisons = runs[r].comparisons
    BY <2>1 DEF Run, RunStatus, EndedStatus
  <2>3. runs'[r] = IF runs[r].status \in {"queued", "running"} THEN q ELSE runs[r]
    BY DEF Interrupted, MayEnd, StatusIs
  <2> HIDE DEF q
  <2> QED
    BY <2>1, <2>2, <2>3 DEF Evolves, EndedStatus
<1>2. DOMAIN runs' = RunIds /\ runs' = [r \in RunIds |-> runs'[r]]
  BY DEF Interrupted
<1>3. RunIds = 1..Len(runs) /\ Len(runs) \in Nat
  BY DEF RunIds
<1>4. runs' \in [1..Len(runs) -> Run]
  BY <1>1, <1>2, <1>3
<1>5. runs' \in Seq(Run)
  BY <1>3, <1>4, SeqDef
<1>6. Len(runs') = Len(runs)
  BY <1>2, <1>3, <1>5
<1> QED
  BY <1>1, <1>2, <1>5, <1>6

\* No step takes a run away, and each of them evolves.
LEMMA RunStepShape ==
  ASSUME Base, RunStep
  PROVE  /\ runs' \in Seq(Run) /\ Len(runs') <= MaxRuns /\ RunIds \subseteq DOMAIN runs'
         /\ \A r \in RunIds : Evolves(r, runs'[r])
         /\ \A r \in DOMAIN runs' \ RunIds :
              /\ runs'[r].status = "queued" /\ Saved(runs'[r].definition)
              /\ \A v \in Variants : runs'[r].comparisons[v] = "none"
<1>0. runs \in Seq(Run) /\ Len(runs) <= MaxRuns /\ Len(runs) \in Nat /\ MaxRuns \in Nat
  BY BoundAssumption DEF Base, TypeOK
<1>1. \A r \in RunIds : runs[r] \in Run /\ Evolves(r, runs[r])
  BY <1>0, ElementOfSeq DEF RunIds, Evolves
<1>2. CASE UNCHANGED runs
  BY <1>0, <1>1, <1>2 DEF RunIds
<1>3. ASSUME NEW r \in RunIds, Moved(r)
      PROVE  /\ runs' \in Seq(Run) /\ Len(runs') <= MaxRuns /\ DOMAIN runs' = RunIds
             /\ \A x \in RunIds : Evolves(x, runs'[x])
  <2>1. PICK q \in Run : runs' = [runs EXCEPT ![r] = q] /\ Evolves(r, q)
    BY <1>3 DEF Moved
  <2> QED
    BY <1>0, <1>1, <2>1, SetRun
<1>4. CASE Queued
  <2>1. PICK d \in Definitions, t \in Tasks, key \in Keys \cup {Nothing} :
          Saved(d) /\ runs' = Append(runs, NewRun(d, t, key))
    BY <1>4 DEF Queued
  <2>2. /\ runs' \in Seq(Run) /\ Len(runs') = Len(runs) + 1
        /\ DOMAIN runs' = RunIds \cup {Len(runs) + 1}
        /\ runs'[Len(runs) + 1] = NewRun(d, t, key)
        /\ \A x \in RunIds : runs'[x] = runs[x]
    BY <1>0, <2>1, NewRunType, AddRun
  <2>3. Len(runs') <= MaxRuns
    BY <1>0, <1>4, <2>2 DEF Queued
  <2> QED
    BY <1>1, <2>1, <2>2, <2>3, NewRunType
<1>5. CASE Interrupted
  BY <1>0, <1>5, InterruptShape
<1> QED
  BY <1>2, <1>3, <1>4, <1>5 DEF RunStep

-----------------------------------------------------------------------------
(***************************************************************************)
(* The transactions.                                                       *)
(***************************************************************************)

\* The transactions on a run that has its place among the runs move it.
LEMMA RunType ==
  ASSUME Base, NEW r \in RunIds
  PROVE  /\ runs \in Seq(Run) /\ runs[r] \in Run /\ r \in Ids
         /\ Saved(runs[r].definition) /\ definitions[runs[r].definition] \in Definition
<1>1. runs \in Seq(Run) /\ runs[r] \in Run
  BY ElementOfSeq DEF Base, TypeOK, RunIds
<1>2. Saved(runs[r].definition) /\ runs[r].definition \in Definitions
  BY <1>1 DEF Base, Owned, Run
<1>3. definitions[runs[r].definition] \in Definition
  BY <1>2 DEF Base, TypeOK, Saved
<1>4. r \in 1..MaxRuns
  BY <1>1, BoundAssumption DEF Base, TypeOK, RunIds
<1> QED
  BY <1>1, <1>2, <1>3, <1>4 DEF Ids

\* A change of nothing but the status.
LEMMA StatusMoves ==
  ASSUME Base, NEW r \in RunIds, NEW status \in RunStatus,
         runs' = [runs EXCEPT ![r].status = status],
         \/ /\ runs[r].status = "queued"
            /\ status \in {"running", "cancelled", "error", "interrupted"}
         \/ runs[r].status = "running" /\ status \in EndedStatus \ {"approved", "passed"}
         \/ runs[r].status \in {"failed", "needs_review"} /\ status \in {"failed", "approved"}
  PROVE  Moved(r)
<1> DEFINE q == [runs[r] EXCEPT !.status = status]
<1>1. runs \in Seq(Run) /\ runs[r] \in Run
  BY RunType
<1>2. /\ q \in Run /\ q.status = status /\ q.definition = runs[r].definition
      /\ q.task = runs[r].task /\ q.comparisons = runs[r].comparisons
  BY <1>1 DEF Run
<1>3. runs' = [runs EXCEPT ![r] = q]
  OBVIOUS
<1> HIDE DEF q
<1>4. Evolves(r, q)
  BY <1>2 DEF Evolves
<1> QED
  BY <1>2, <1>3, <1>4 DEF Moved

\* A definition has images of its variants compared.
LEMMA ImagesOfType ==
  ASSUME NEW def \in Definition
  PROVE  ImagesOf(def) \subseteq Variants
  BY DEF ImagesOf, Definition

\* A start takes the images of the definition.
LEMMA StartMoves ==
  ASSUME Base, NEW r \in RunIds, MayStart(r), WriteStart(r)
  PROVE  Moved(r)
<1> DEFINE def == definitions[runs[r].definition]
           images == ImagesOf(def)
           q == [runs[r] EXCEPT !.status = "running", !.images = images]
<1>1. runs \in Seq(Run) /\ runs[r] \in Run /\ def \in Definition
  BY RunType
<1>2. images \subseteq Variants
  BY <1>1, ImagesOfType
<1>3. runs' = [runs EXCEPT ![r] = q]
  BY DEF WriteStart
<1> HIDE DEF images
<1>4. /\ q \in Run /\ q.status = "running" /\ q.definition = runs[r].definition
      /\ q.task = runs[r].task /\ q.comparisons = runs[r].comparisons
  BY <1>1, <1>2 DEF Run, RunStatus
<1> HIDE DEF q
<1>5. Evolves(r, q)
  BY <1>4 DEF Evolves, MayStart, StatusIs
<1> QED
  BY <1>3, <1>4, <1>5 DEF Moved

\* An outcome ends a run; it passes if no image was missing from what the execution
\* compared it with.
LEMMA OutcomeMoves ==
  ASSUME Base, NEW r \in RunIds, NEW outcome \in Outcome, MayComplete(r, outcome),
         WriteOutcome(r, outcome)
  PROVE  Moved(r)
<1> DEFINE comparisons == Compared(r, outcome)
           final == FinalStatus(r, outcome, comparisons)
           critical == Critical(r, outcome)
           blocking == outcome.blocking
           against == IF final = "passed" THEN background[r].against ELSE NoImages
           q == [runs[r] EXCEPT !.status = final, !.blocking = blocking, !.critical = critical,
                                !.comparisons = comparisons, !.against = against]
<1>1. runs \in Seq(Run) /\ runs[r] \in Run /\ definitions[runs[r].definition] \in Definition
  BY RunType
<1>2. critical \in BOOLEAN /\ blocking \in BOOLEAN
  BY <1>1 DEF Critical, Definition, Outcome
<1>3. comparisons \in [Variants -> ComparisonStatus]
  BY DEF Compared, ComparisonStatus
<1>4. final \in {"failed", "needs_review", "passed"}
  BY DEF FinalStatus
<1>5. against \in [Variants -> SUBSET Image]
  BY RunType DEF Base, TypeOK, Execution, NoImages
<1>6. runs' = [runs EXCEPT ![r] = q]
  BY DEF WriteOutcome
<1>7. ASSUME final = "passed", NEW v \in Variants
      PROVE  Nothing \notin background[r].against[v]
  <2>1. comparisons[v] # "missing_baseline"
    BY <1>7 DEF FinalStatus, Unlike
  <2> QED
    BY <2>1 DEF Compared
<1>8. \A v \in Variants : runs[r].comparisons[v] # "approved"
  BY DEF MayComplete, StatusIs, Base, Unseen
<1> HIDE DEF comparisons, final, critical, blocking
<1>10. final = "passed" => against = background[r].against
  OBVIOUS
<1> HIDE DEF against
<1>9. /\ q \in Run /\ q.status = final /\ q.definition = runs[r].definition
      /\ q.task = runs[r].task /\ q.against = against
  BY <1>1, <1>2, <1>3, <1>4, <1>5 DEF Run, RunStatus, EndedStatus
<1> HIDE DEF q
<1>11. Evolves(r, q)
  BY <1>4, <1>7, <1>8, <1>9, <1>10 DEF Evolves, MayComplete, StatusIs, EndedStatus
<1> QED
  BY <1>6, <1>9, <1>11 DEF Moved

\* The approval of a baseline leaves the decision as it is.
LEMMA BaselineMoves ==
  ASSUME Base, NEW r \in RunIds, NEW v \in Variants, runs[r].comparisons[v] # "none",
         WriteBaseline(r, v)
  PROVE  /\ Moved(r) /\ runs'[r].comparisons[v] = "approved"
         /\ baselines' \in [Definitions \X Variants -> Image]
<1> DEFINE comparisons == [runs[r].comparisons EXCEPT ![v] = "approved"]
           q == [runs[r] EXCEPT !.comparisons = comparisons]
<1>1. runs \in Seq(Run) /\ runs[r] \in Run /\ r \in Ids /\ runs[r].definition \in Definitions
  BY RunType DEF Run
<1>2. /\ comparisons \in [Variants -> ComparisonStatus] /\ comparisons[v] = "approved"
      /\ \A w \in Variants : runs[r].comparisons[w] = "approved" => comparisons[w] = "approved"
  BY <1>1 DEF Run, ComparisonStatus
<1>3. runs' = [runs EXCEPT ![r] = q]
  BY DEF WriteBaseline
<1>4. runs[r].status \notin {"queued", "running"}
  BY DEF Base, Unseen
<1> HIDE DEF comparisons
<1>5. /\ q \in Run /\ q.status = runs[r].status /\ q.definition = runs[r].definition
      /\ q.task = runs[r].task /\ q.comparisons = comparisons /\ q.against = runs[r].against
      /\ q.blocking = runs[r].blocking /\ q.critical = runs[r].critical
  BY <1>1, <1>2 DEF Run
<1> HIDE DEF q
<1>6. Moved(r)
  BY <1>2, <1>3, <1>4, <1>5 DEF Moved, Evolves
<1>7. runs'[r] = q
  BY <1>1, <1>3, <1>5, SetRun
<1>8. baselines \in [Definitions \X Variants -> Image] /\ r \in Image
  BY <1>1 DEF Base, TypeOK, Image
<1>9. baselines' = [baselines EXCEPT ![<<runs[r].definition, v>>] = r]
  BY DEF WriteBaseline
<1> QED
  BY <1>1, <1>2, <1>5, <1>6, <1>7, <1>8, <1>9

\* A failure of the background ends a run, or finds it ended.
LEMMA FailureMoves ==
  ASSUME Base, NEW r \in RunIds, TryFail(r)
  PROVE  /\ Moved(r) \/ UNCHANGED runs
         /\ done' \subseteq done
<1>1. CASE MayEnd(r)
  <2>1. Moved(r)
    BY <1>1, StatusMoves DEF TryFail, WriteFailure, MayEnd, StatusIs, RunStatus, EndedStatus
  <2> QED
    BY <1>1, <2>1 DEF TryFail, WriteFailure, ReopenTerminal
<1>2. CASE ~MayEnd(r)
  BY <1>2 DEF TryFail
<1> QED
  BY <1>1, <1>2

\* What the runner makes of an answer is an outcome.
LEMMA DecodedType ==
  ASSUME NEW answer \in Answers
  PROVE  Decoded(answer) \in Outcome
<1>1. answer \in Answer
  BY AnswerAssumption
<1>2. /\ answer.failed \in BOOLEAN /\ answer.differs \in BOOLEAN
      /\ answer.console \subseteq ConsoleTypes
  BY <1>1 DEF Answer
<1>3. {IF type = "warn" THEN "warning" ELSE type : type \in answer.console} \subseteq ConsoleTypes
  BY <1>2 DEF ConsoleTypes
<1>4. {IF f = "error" THEN "critical" ELSE "warning" : f \in answer.findings}
        \subseteq {"critical", "warning"}
  OBVIOUS
<1> QED
  BY <1>2, <1>3, <1>4 DEF Decoded, Outcome

-----------------------------------------------------------------------------
(***************************************************************************)
(* Types and owners.                                                       *)
(***************************************************************************)

\* The tables beside the runs keep their types, and no definition goes.
TablesKept ==
  /\ definitions' \in [Definitions -> Definition \cup {Nothing}]
  /\ \A d \in Definitions : Saved(d) => definitions'[d] # Nothing
  /\ baselines' \in [Definitions \X Variants -> Image]
  /\ files' \in [Definitions \X Variants -> Image]
  /\ done' \subseteq Tasks /\ vouched' \in [Tasks -> SUBSET Definitions]
  /\ saves' \in 0..MaxSaves /\ restarts' \in 0..MaxRestarts

\* Handlers and executions have runs.
WorkKept ==
  /\ call' \in [Clients -> Call] /\ background' \in [Ids -> Execution]
  /\ \A c \in Clients : call'[c].pc # "idle" => call'[c].run \in DOMAIN runs'
  /\ \A r \in Ids : background'[r].pc # "none" => r \in DOMAIN runs'

\* No handler has nothing to put in place.
LEMMA IdleType ==
  /\ Idle \in Call /\ Idle.pc = "idle" /\ NoOutcome \in Outcome
  /\ NotExecuted \in Execution /\ NotExecuted.pc = "none" /\ NotExecuted.against = NoImages
<1>1. NothingRead \in [Variants -> Image] /\ NoImages \in [Variants -> SUBSET Image]
  BY DEF NothingRead, NoImages, Image
<1>2. NoOutcome \in Outcome
  BY DEF NoOutcome, Outcome
<1> QED
  BY <1>1, <1>2 DEF Idle, Call, NotExecuted, Execution, Background

\* A handler that goes on has its run.
LEMMA GotoShape ==
  ASSUME Base, NEW c \in Clients, NEW pc \in {"queued", "started", "signal", "approved"},
         NEW r \in Ids, Goto(c, pc, r)
  PROVE  /\ call' \in [Clients -> Call] /\ call'[c].pc = pc /\ call'[c].run = r
         /\ \A d \in Clients \ {c} : call'[d] = call[d]
<1> DEFINE row == [Idle EXCEPT !.pc = pc, !.run = r]
<1>1. row \in Call /\ row.pc = pc /\ row.run = r
  BY IdleType DEF Call
<1>2. call' = [call EXCEPT ![c] = row]
  BY DEF Goto
<1> HIDE DEF row
<1> QED
  BY <1>1, <1>2 DEF Base, TypeOK

\* A handler that returns is idle.
LEMMA ReturnShape ==
  ASSUME Base, NEW c \in Clients, Return(c)
  PROVE  /\ call' \in [Clients -> Call] /\ call'[c].pc = "idle"
         /\ \A d \in Clients \ {c} : call'[d] = call[d]
  BY IdleType DEF Return, Base, TypeOK

\* An execution that goes on is at its next point.
LEMMA OnwardShape ==
  ASSUME Base, NEW r \in Ids, NEW pc \in Background, NEW outcome \in Outcome,
         Onward(r, pc, outcome)
  PROVE  /\ background' \in [Ids -> Execution]
         /\ background'[r].against = background[r].against
         /\ \A x \in Ids \ {r} : background'[x] = background[x]
<1> DEFINE row == [background[r] EXCEPT !.pc = pc, !.outcome = outcome]
<1>1. background[r] \in Execution
  BY DEF Base, TypeOK
<1>2. row \in Execution /\ row.against = background[r].against
  BY <1>1 DEF Execution
<1>3. background' = [background EXCEPT ![r] = row]
  BY DEF Onward
<1> HIDE DEF row
<1> QED
  BY <1>2, <1>3 DEF Base, TypeOK

\* An execution that is over has forgotten its images.
LEMMA EndShape ==
  ASSUME Base, NEW r \in Ids, End(r)
  PROVE  /\ background' \in [Ids -> Execution] /\ background'[r].against = NoImages
         /\ \A x \in Ids \ {r} : background'[x] = background[x]
<1> DEFINE row == [NotExecuted EXCEPT !.pc = "over"]
<1>1. row \in Execution /\ row.against = NoImages
  BY IdleType DEF Execution, Background
<1>2. background' = [background EXCEPT ![r] = row]
  BY DEF End
<1> HIDE DEF row
<1> QED
  BY <1>1, <1>2 DEF Base, TypeOK

\* What leaves the tables alone keeps them.
LEMMA StillKept ==
  ASSUME Base, StillTables, done' \subseteq Tasks
  PROVE  TablesKept
  BY DEF Base, TypeOK, StillTables, TablesKept, Saved

\* A change of the files keeps the tables.
LEMMA FilesKept ==
  ASSUME Base, StillRows, UNCHANGED done, files' \in [Definitions \X Variants -> Image]
  PROVE  TablesKept
  BY DEF Base, TypeOK, StillRows, TablesKept, Saved

\* The step of one handler leaves work in order.
LEMMA CallKept ==
  ASSUME Base, RunStep, NEW c \in Clients, UNCHANGED background, call' \in [Clients -> Call],
         \A d \in Clients \ {c} : call'[d] = call[d],
         call'[c].pc # "idle" => call'[c].run \in DOMAIN runs'
  PROVE  WorkKept
<1>1. RunIds \subseteq DOMAIN runs'
  BY RunStepShape
<1> QED
  BY <1>1 DEF Base, TypeOK, Owned, WorkKept

\* So does the step of one execution.
LEMMA ExecutionKept ==
  ASSUME Base, RunStep, NEW r \in RunIds, UNCHANGED call, background' \in [Ids -> Execution],
         \A x \in Ids \ {r} : background'[x] = background[x]
  PROVE  WorkKept
<1>1. RunIds \subseteq DOMAIN runs'
  BY RunStepShape
<1> QED
  BY <1>1 DEF Base, TypeOK, Owned, WorkKept

\* So does a step of neither.
LEMMA WorkStays ==
  ASSUME Base, RunStep, UNCHANGED <<call, background>>
  PROVE  WorkKept
<1>1. RunIds \subseteq DOMAIN runs'
  BY RunStepShape
<1>2. call' = call /\ background' = background
  OBVIOUS
<1> QED
  BY <1>1, <1>2 DEF Base, TypeOK, Owned, WorkKept

\* The requests of a client.
LEMMA RequestsKeep ==
  ASSUME Base, NEW c \in Clients, Requests(c)
  PROVE  RunStep /\ TablesKept /\ WorkKept
<1>0. /\ TypeOK /\ call \in [Clients -> Call] /\ background \in [Ids -> Execution]
      /\ runs \in Seq(Run) /\ done \subseteq Tasks
  BY DEF Base, TypeOK
<1>1. ASSUME NEW d \in Definitions, NEW draft \in Drafts, SaveDefinition(c, d, draft)
      PROVE  RunStep /\ TablesKept /\ WorkKept
  <2>1. draft \in Definition /\ draft # Nothing
    BY DraftAssumption, NothingAssumption
  <2>2. TablesKept
    BY <1>0, <1>1, <2>1, BoundAssumption
       DEF SaveDefinition, WriteDefinition, TypeOK, TablesKept, Saved
  <2>3. RunStep /\ UNCHANGED <<call, background, runs>>
    BY <1>1 DEF SaveDefinition, RunStep
  <2> QED
    BY <2>2, <2>3, WorkStays
<1>2. ASSUME NEW d \in Definitions, NEW t \in Tasks, NEW key \in Keys \cup {Nothing},
             NEW instance \in Instances, NEW session \in Sessions,
             QueueRun(c, d, t, key, instance, session)
      PROVE  RunStep /\ TablesKept /\ WorkKept
  <2>1. ASSUME NEW r \in RunIds, Goto(c, "queued", r), UNCHANGED <<runs, done>>
        PROVE  RunStep /\ done' \subseteq Tasks /\ WorkKept
    <3>1. r \in Ids /\ RunStep /\ r \in DOMAIN runs' /\ done' \subseteq Tasks
      BY <1>0, <2>1, RunType DEF RunStep, RunIds
    <3>2. UNCHANGED background
      BY <1>2 DEF QueueRun
    <3> QED
      BY <2>1, <3>1, <3>2, GotoShape, CallKept
  <2>2. ASSUME Len(runs) < MaxRuns, MayQueue(d, t, instance, session), WriteQueue(d, t, key),
               Goto(c, "queued", Len(runs) + 1)
        PROVE  RunStep /\ done' \subseteq Tasks /\ WorkKept
    <3>1. RunStep
      BY <2>2 DEF MayQueue, WriteQueue, RunStep, Queued
    <3>2. Len(runs) + 1 \in Ids /\ Len(runs) + 1 \in DOMAIN runs'
      BY <1>0, <2>2, AddRun, NewRunType, BoundAssumption DEF Ids, WriteQueue
    <3>3. done' \subseteq Tasks
      BY <1>0, <2>2 DEF WriteQueue, ReopenIfRequired, ReopenTerminal
    <3>4. UNCHANGED background
      BY <1>2 DEF QueueRun
    <3> QED
      BY <2>2, <3>1, <3>2, <3>3, <3>4, GotoShape, CallKept
  <2>3. RunStep /\ done' \subseteq Tasks /\ WorkKept
    BY <1>2, <2>1, <2>2 DEF QueueRun, Existing
  <2> QED
    BY <1>2, <2>3, StillKept DEF QueueRun
<1>3. ASSUME NEW r \in RunIds, CancelRun(c, r)
      PROVE  RunStep /\ TablesKept /\ WorkKept
  <2>1. Moved(r)
    BY <1>3, StatusMoves DEF CancelRun, WriteCancel, MayEnd, StatusIs, RunStatus, EndedStatus
  <2>2. RunStep /\ r \in Ids /\ RunIds \subseteq DOMAIN runs'
    BY <2>1, RunType, RunStepShape DEF RunStep
  <2>3. TablesKept
    BY <1>0, <1>3, StillKept DEF CancelRun, WriteCancel, ReopenTerminal
  <2> QED
    BY <1>3, <2>2, <2>3, GotoShape, CallKept DEF CancelRun
<1>4. ASSUME NEW r \in RunIds, NEW decision \in {"approve", "reject"}, Review(c, r, decision)
      PROVE  RunStep /\ TablesKept /\ WorkKept
  <2>1. Moved(r)
    BY <1>4, StatusMoves
       DEF Review, WriteReview, MayReview, StatusIs, RunStatus, EndedStatus
  <2>2. RunStep
    BY <2>1 DEF RunStep
  <2>3. TablesKept
    BY <1>0, <1>4, StillKept DEF Review, WriteReview, ReopenTerminal
  <2>4. UNCHANGED <<call, background>>
    BY <1>4 DEF Review
  <2> QED
    BY <2>2, <2>3, <2>4, WorkStays
<1>5. ASSUME NEW r \in RunIds, NEW v \in Variants, ApproveBaseline(c, r, v)
      PROVE  RunStep /\ TablesKept /\ WorkKept
  <2>1. Moved(r) /\ baselines' \in [Definitions \X Variants -> Image]
    BY <1>5, BaselineMoves DEF ApproveBaseline
  <2>2. RunStep /\ RunIds \subseteq DOMAIN runs'
    BY <2>1, RunStepShape DEF RunStep
  <2>3. TablesKept
    BY <1>0, <1>5, <2>1 DEF ApproveBaseline, TypeOK, TablesKept, Saved
  <2> QED
    BY <1>5, <2>2, <2>3, RunType, GotoShape, CallKept DEF ApproveBaseline
<1>6. ASSUME NEW t \in Tasks, CompleteTask(c, t)
      PROVE  RunStep /\ TablesKept /\ WorkKept
  <2>1. RunStep /\ UNCHANGED <<call, background, runs>>
    BY <1>6 DEF CompleteTask, RunStep
  <2>2. RequiredOf(t) \subseteq Definitions
    BY DEF RequiredOf
  <2>3. TablesKept
    BY <1>0, <1>6, <2>2 DEF CompleteTask, TypeOK, TablesKept, Saved
  <2> QED
    BY <2>1, <2>3, WorkStays
<1> QED
  BY <1>1, <1>2, <1>3, <1>4, <1>5, <1>6 DEF Requests

\* The steps of a handler that follow.
LEMMA HandlersKeep ==
  ASSUME Base, NEW c \in Clients, HandlerStep(c)
  PROVE  RunStep /\ TablesKept /\ WorkKept
<1> DEFINE r == call[c].run
<1>0. /\ TypeOK /\ runs \in Seq(Run) /\ done \subseteq Tasks /\ call[c].pc # "idle"
      /\ r \in RunIds /\ r \in Ids /\ background \in [Ids -> Execution]
  <2>1. call[c].pc # "idle"
    BY DEF HandlerStep, StartRun, ReadBaselines, ClearFile, PutFile, SpawnRun, PrepareFails,
           SignalRunner, LoadDefinition, AnswerApproval, At, Installing
  <2> QED
    BY <2>1, RunType DEF Base, TypeOK, Owned
<1>1. CASE StartRun(c)
  <2>1. CASE MayStart(r)
    <3>1. Moved(r)
      BY <1>0, <1>1, <2>1, StartMoves DEF StartRun
    <3>2. RunStep /\ RunIds \subseteq DOMAIN runs'
      BY <1>0, <3>1, RunStepShape DEF RunStep
    <3> QED
      BY <1>0, <1>1, <2>1, <3>2, StillKept, GotoShape, CallKept DEF StartRun
  <2>2. CASE ~MayStart(r)
    <3>1. RunStep
      BY <1>1, <2>2 DEF StartRun, RunStep
    <3> QED
      BY <1>0, <1>1, <2>2, <3>1, StillKept, ReturnShape, CallKept DEF StartRun
  <2> QED
    BY <2>1, <2>2
<1>2. CASE SpawnRun(c)
  <2>1. RunStep /\ UNCHANGED runs
    BY <1>2 DEF SpawnRun, RunStep
  <2>2. /\ background' \in [Ids -> Execution]
        /\ \A x \in Ids \ {r} : background'[x] = background[x]
    BY <1>0, <1>2 DEF SpawnRun, Execution, Background
  <2>3. /\ call' \in [Clients -> Call] /\ call'[c].pc = "idle"
        /\ \A d \in Clients \ {c} : call'[d] = call[d]
    BY <1>2, ReturnShape DEF SpawnRun
  <2>4. DOMAIN runs' = RunIds
    BY <2>1 DEF RunIds
  <2>5. WorkKept
    BY <1>0, <2>2, <2>3, <2>4 DEF Base, Owned, WorkKept
  <2> QED
    BY <1>0, <1>2, <2>1, <2>5, StillKept DEF SpawnRun
<1>3. CASE PrepareFails(c)
  <2>1. (Moved(r) \/ UNCHANGED runs) /\ done' \subseteq done
    BY <1>0, <1>3, FailureMoves DEF PrepareFails
  <2>2. RunStep /\ done' \subseteq Tasks
    BY <1>0, <2>1 DEF RunStep
  <2> QED
    BY <1>0, <1>3, <2>2, StillKept, ReturnShape, CallKept DEF PrepareFails
<1>4. CASE SignalRunner(c)
  <2>1. RunStep
    BY <1>4 DEF SignalRunner, RunStep
  <2> QED
    BY <1>0, <1>4, <2>1, StillKept, ReturnShape, CallKept DEF SignalRunner
<1>5. CASE ReadBaselines(c)
  <2> DEFINE read == [v \in Variants |-> baselines[<<runs[r].definition, v>>]]
             pc == IF call[c].pc = "started" THEN "installing" ELSE "replacing"
             todo == IF call[c].pc = "started" THEN runs[r].images ELSE call[c].todo
             row == [call[c] EXCEPT !.pc = pc, !.read = read, !.todo = todo]
  <2>1. runs[r] \in Run /\ call[c] \in Call
    BY <1>0, RunType DEF Base, TypeOK
  <2>2. read \in [Variants -> Image] /\ todo \subseteq Variants
    BY <1>0, <2>1 DEF TypeOK, Run, Call
  <2>3. call' = [call EXCEPT ![c] = row]
    BY <1>5 DEF ReadBaselines, At
  <2>7. pc \in {"installing", "replacing"}
    OBVIOUS
  <2> HIDE DEF read, pc, todo
  <2>4. row \in Call /\ row.run = r
    BY <2>1, <2>2, <2>7 DEF Call
  <2> HIDE DEF row
  <2>5. /\ call' \in [Clients -> Call] /\ call'[c].run = r
        /\ \A d \in Clients \ {c} : call'[d] = call[d]
    BY <1>0, <2>3, <2>4 DEF TypeOK
  <2>6. RunStep /\ StillTables /\ UNCHANGED <<runs, done, background>>
    BY <1>5 DEF ReadBaselines, RunStep
  <2> QED
    BY <1>0, <2>5, <2>6, StillKept, CallKept DEF RunIds
<1>6. ASSUME NEW v \in Variants, ClearFile(c, v)
      PROVE  RunStep /\ TablesKept /\ WorkKept
  <2> DEFINE row == [call[c] EXCEPT !.cleared = @ \cup {v}]
  <2>1. runs[r] \in Run /\ call[c] \in Call
    BY <1>0, RunType DEF Base, TypeOK
  <2>2. call' = [call EXCEPT ![c] = row]
    BY <1>6 DEF ClearFile
  <2>3. row \in Call /\ row.run = r
    BY <2>1 DEF Call
  <2> HIDE DEF row
  <2>4. /\ call' \in [Clients -> Call] /\ call'[c].run = r
        /\ \A d \in Clients \ {c} : call'[d] = call[d]
    BY <1>0, <2>2, <2>3 DEF TypeOK
  <2>5. RunStep /\ StillRows /\ UNCHANGED <<runs, done, background>>
    BY <1>6 DEF ClearFile, RunStep
  <2>6. files' \in [Definitions \X Variants -> Image]
    BY <1>0, <1>6 DEF ClearFile, TypeOK, Image
  <2> QED
    BY <1>0, <2>4, <2>5, <2>6, FilesKept, CallKept DEF RunIds
<1>7. ASSUME NEW v \in Variants, PutFile(c, v)
      PROVE  RunStep /\ TablesKept /\ WorkKept
  <2> DEFINE row == [call[c] EXCEPT !.todo = @ \ {v}]
  <2>1. runs[r] \in Run /\ call[c] \in Call
    BY <1>0, RunType DEF Base, TypeOK
  <2>2. call' = [call EXCEPT ![c] = row]
    BY <1>7 DEF PutFile
  <2>3. row \in Call /\ row.run = r /\ call[c].read[v] \in Image
    BY <2>1 DEF Call
  <2> HIDE DEF row
  <2>4. /\ call' \in [Clients -> Call] /\ call'[c].run = r
        /\ \A d \in Clients \ {c} : call'[d] = call[d]
    BY <1>0, <2>2, <2>3 DEF TypeOK
  <2>5. RunStep /\ StillRows /\ UNCHANGED <<runs, done, background>>
    BY <1>7 DEF PutFile, RunStep
  <2>6. files' \in [Definitions \X Variants -> Image]
    BY <1>0, <1>7, <2>3 DEF PutFile, TypeOK
  <2> QED
    BY <1>0, <2>4, <2>5, <2>6, FilesKept, CallKept DEF RunIds
<1>8. CASE LoadDefinition(c)
  <2> DEFINE todo == ImagesOf(definitions[runs[r].definition])
             row == [call[c] EXCEPT !.pc = "loaded", !.todo = todo]
  <2>1. call[c] \in Call /\ todo \subseteq Variants
    BY <1>0, RunType, ImagesOfType DEF Base, TypeOK
  <2>2. call' = [call EXCEPT ![c] = row]
    BY <1>8 DEF LoadDefinition
  <2> HIDE DEF todo
  <2>3. row \in Call /\ row.run = r
    BY <2>1 DEF Call
  <2> HIDE DEF row
  <2>4. /\ call' \in [Clients -> Call] /\ call'[c].run = r
        /\ \A d \in Clients \ {c} : call'[d] = call[d]
    BY <1>0, <2>2, <2>3 DEF TypeOK
  <2>5. RunStep /\ StillTables /\ UNCHANGED <<runs, done, background>>
    BY <1>8 DEF LoadDefinition, RunStep
  <2> QED
    BY <1>0, <2>4, <2>5, StillKept, CallKept DEF RunIds
<1>9. CASE AnswerApproval(c)
  <2>1. RunStep
    BY <1>9 DEF AnswerApproval, RunStep
  <2> QED
    BY <1>0, <1>9, <2>1, StillKept, ReturnShape, CallKept DEF AnswerApproval
<1> QED
  BY <1>1, <1>2, <1>3, <1>4, <1>5, <1>6, <1>7, <1>8, <1>9 DEF HandlerStep

\* The steps of an execution.
LEMMA ExecutionsKeep ==
  ASSUME Base, NEW r \in RunIds, BackgroundStep(r)
  PROVE  RunStep /\ TablesKept /\ WorkKept
<1>0. /\ TypeOK /\ runs \in Seq(Run) /\ done \subseteq Tasks /\ r \in Ids
      /\ background[r].outcome \in Outcome /\ NoOutcome \in Outcome
      /\ {"calling", "completing", "failing", "over"} \subseteq Background
  BY RunType, IdleType DEF Base, TypeOK, Execution, Background
<1>1. ASSUME NEW pc \in Background, NEW outcome \in Outcome, Onward(r, pc, outcome), RunStep,
             done' \subseteq Tasks, StillCalls
      PROVE  RunStep /\ TablesKept /\ WorkKept
  BY <1>0, <1>1, OnwardShape, ExecutionKept, StillKept DEF StillCalls
<1>6. ASSUME End(r), RunStep, done' \subseteq Tasks, StillCalls
      PROVE  RunStep /\ TablesKept /\ WorkKept
  BY <1>0, <1>6, EndShape, ExecutionKept, StillKept DEF StillCalls
<1>2. ASSUME NEW answer \in Answers, RunnerAnswers(r, answer)
      PROVE  RunStep /\ TablesKept /\ WorkKept
  <2>1. RunStep /\ done' \subseteq Tasks /\ StillCalls
    BY <1>0, <1>2 DEF RunnerAnswers, RunStep
  <2> QED
    BY <1>0, <1>1, <1>2, <1>6, <2>1, DecodedType DEF RunnerAnswers
<1>3. CASE RunnerFails(r)
  <2>1. RunStep /\ done' \subseteq Tasks /\ StillCalls
    BY <1>0, <1>3 DEF RunnerFails, RunStep
  <2> QED
    BY <1>0, <1>1, <1>3, <1>6, <2>1 DEF RunnerFails
<1>4. CASE CompleteRun(r)
  <2> DEFINE outcome == background[r].outcome
  <2>1. CASE MayComplete(r, outcome)
    <3>1. WriteOutcome(r, outcome)
      BY <1>4, <2>1 DEF CompleteRun
    <3>2. Moved(r)
      BY <1>0, <2>1, <3>1, OutcomeMoves
    <3>3. RunStep /\ done' \subseteq Tasks
      BY <1>0, <3>1, <3>2 DEF RunStep, WriteOutcome, ReopenTerminal
    <3> QED
      BY <1>0, <1>4, <1>6, <3>3 DEF CompleteRun
  <2>2. CASE ~MayComplete(r, outcome)
    <3>1. RunStep /\ done' \subseteq Tasks
      BY <1>0, <1>4, <2>2 DEF CompleteRun, RunStep
    <3> QED
      BY <1>0, <1>4, <1>6, <3>1 DEF CompleteRun
  <2> QED
    BY <2>1, <2>2
<1>5. CASE FailRun(r)
  <2>1. (Moved(r) \/ UNCHANGED runs) /\ done' \subseteq done
    BY <1>5, FailureMoves DEF FailRun
  <2>2. RunStep /\ done' \subseteq Tasks
    BY <1>0, <2>1 DEF RunStep
  <2> QED
    BY <1>0, <1>5, <1>6, <2>2 DEF FailRun
<1>7. ASSUME NEW v \in Variants, CaptureImage(r, v)
      PROVE  RunStep /\ TablesKept /\ WorkKept
  <2> DEFINE against == [background[r].against EXCEPT ![v] = @ \cup {files[FileOf(r, v)]}]
             row == [background[r] EXCEPT !.against = against]
  <2>1. background[r] \in Execution /\ runs[r] \in Run
    BY <1>0, RunType DEF TypeOK
  <2>2. files[FileOf(r, v)] \in Image
    BY <1>0, <2>1 DEF TypeOK, FileOf, Run
  <2>3. against \in [Variants -> SUBSET Image]
    BY <2>1, <2>2 DEF Execution
  <2>4. background' = [background EXCEPT ![r] = row]
    BY <1>7 DEF CaptureImage
  <2> HIDE DEF against
  <2>5. row \in Execution
    BY <2>1, <2>3 DEF Execution
  <2> HIDE DEF row
  <2>6. background' \in [Ids -> Execution] /\ \A x \in Ids \ {r} : background'[x] = background[x]
    BY <1>0, <2>4, <2>5 DEF TypeOK
  <2>7. RunStep /\ StillTables /\ UNCHANGED <<call, done>>
    BY <1>7 DEF CaptureImage, LeavesBaseline, StillRows, StillTables, RunStep
  <2> QED
    BY <1>0, <2>6, <2>7, ExecutionKept, StillKept
<1> QED
  BY <1>2, <1>3, <1>4, <1>5, <1>7 DEF BackgroundStep

\* A start of the core.
LEMMA RestartKeeps ==
  ASSUME Base, Restart
  PROVE  RunStep /\ TablesKept /\ WorkKept
<1>1. RunStep
  BY DEF Restart, RunStep, Interrupted
<1>2. TablesKept
  BY BoundAssumption DEF Restart, Base, TypeOK, TablesKept, Saved
<1>3. WorkKept
  BY IdleType DEF Restart, WorkKept
<1> QED
  BY <1>1, <1>2, <1>3

\* So every step keeps types and owners.
LEMMA StepKeeps ==
  ASSUME Base, [Next]_vars
  PROVE  RunStep /\ TablesKept /\ WorkKept
<1>1. CASE UNCHANGED vars
  <2>1. RunStep /\ WorkKept
    BY <1>1, WorkStays DEF vars, RunStep
  <2>2. TablesKept
    BY <1>1, StillKept DEF vars, StillTables, Base, TypeOK
  <2> QED
    BY <2>1, <2>2
<1> QED
  BY <1>1, RequestsKeep, HandlersKeep, ExecutionsKeep, RestartKeeps DEF Next

\* Such a step keeps the invariant.
LEMMA BaseStep ==
  ASSUME Base, RunStep, TablesKept, WorkKept
  PROVE  Base'
<1>1. /\ runs' \in Seq(Run) /\ Len(runs') <= MaxRuns /\ RunIds \subseteq DOMAIN runs'
      /\ \A r \in RunIds : Evolves(r, runs'[r])
      /\ \A r \in DOMAIN runs' \ RunIds :
           /\ runs'[r].status = "queued" /\ Saved(runs'[r].definition)
           /\ \A v \in Variants : runs'[r].comparisons[v] = "none"
  BY RunStepShape
<1>2. ASSUME NEW r \in DOMAIN runs'
      PROVE  definitions'[runs'[r].definition] # Nothing
  <2>1. Saved(runs'[r].definition)
    BY <1>1 DEF Base, Owned, Evolves
  <2>2. runs'[r] \in Run
    BY <1>1, ElementOfSeq
  <2>3. runs'[r].definition \in Definitions
    BY <2>2 DEF Run
  <2> QED
    BY <2>1, <2>3 DEF TablesKept, Saved
<1>3. TypeOK'
  BY <1>1 DEF TablesKept, WorkKept, TypeOK
<1>4. Owned'
  BY <1>2 DEF WorkKept, Owned, RunIds, Saved
<1>5. Unseen'
  <2> SUFFICES ASSUME NEW r \in DOMAIN runs', runs'[r].status \in {"queued", "running"},
                      NEW v \in Variants
               PROVE  runs'[r].comparisons[v] = "none"
    BY DEF Unseen, RunIds
  <2>1. CASE r \in RunIds
    <3>1. Evolves(r, runs'[r])
      BY <1>1, <2>1
    <3>2. runs'[r].comparisons = runs[r].comparisons /\ runs[r].status \in {"queued", "running"}
      BY <3>1 DEF Evolves, EndedStatus
    <3> QED
      BY <2>1, <3>2 DEF Base, Unseen
  <2> QED
    BY <1>1, <2>1
<1> QED
  BY <1>3, <1>4, <1>5 DEF Base

\* The invariant holds.
LEMMA BaseInvariance == Spec => []Base
<1>1. Init => Base
  <2>2. <<>> \in Seq(Run) /\ Len(<<>>) = 0 /\ DOMAIN <<>> = {}
    BY EmptySeq
  <2>3. Init => TypeOK
    BY <2>2, IdleType, BoundAssumption DEF Init, TypeOK, Image
  <2>4. Init => Owned
    BY <2>2, IdleType DEF Init, Owned, RunIds
  <2>5. Init => Unseen
    BY <2>2 DEF Init, Unseen, RunIds
  <2> QED
    BY <2>3, <2>4, <2>5 DEF Base
<1>2. Base /\ [Next]_vars => Base'
  BY StepKeeps, BaseStep
<1> QED
  BY <1>1, <1>2, PTL DEF Spec

\* The types of all variables.
THEOREM Types == Spec => []TypeOK
<1>1. Base => TypeOK
  BY DEF Base
<1> QED
  BY <1>1, BaseInvariance, PTL

\* Decisions stand: a run that was cancelled, interrupted, passed, approved or in error
\* never changes, and one that failed or needs review only changes by a review.
THEOREM Decisions == Spec => DecisionsStand
<1>1. Base /\ [Next]_vars =>
        [\A r \in RunIds :
           /\ StatusIs(r, EndedStatus \ {"failed", "needs_review"}) =>
                runs'[r].status = runs[r].status
           /\ StatusIs(r, {"failed", "needs_review"}) =>
                runs'[r].status \in {runs[r].status, "failed", "approved"}]_vars
  <2> SUFFICES ASSUME Base, [Next]_vars, NEW r \in RunIds
               PROVE  /\ StatusIs(r, EndedStatus \ {"failed", "needs_review"}) =>
                           runs'[r].status = runs[r].status
                      /\ StatusIs(r, {"failed", "needs_review"}) =>
                           runs'[r].status \in {runs[r].status, "failed", "approved"}
    OBVIOUS
  <2>1. Evolves(r, runs'[r])
    BY StepKeeps, RunStepShape
  <2> QED
    BY <2>1 DEF Evolves, StatusIs, EndedStatus
<1> QED
  BY <1>1, BaseInvariance, PTL DEF Spec, DecisionsStand

-----------------------------------------------------------------------------
(***************************************************************************)
(* One execution for a run.                                                *)
(***************************************************************************)

\* The handlers that have started a run, and not spawned its execution.
Preparing == {"started", "installing"}

\* Whoever is about to spawn the execution of a run is alone with it, and a run that
\* is queued has none.
Once ==
  /\ \A c \in Clients : call[c].pc \in Preparing =>
       background[call[c].run].pc = "none" /\ runs[call[c].run].status # "queued"
  /\ \A c, d \in Clients :
       call[c].pc \in Preparing /\ call[d].pc \in Preparing /\ call[c].run = call[d].run => c = d
  /\ \A r \in RunIds : runs[r].status = "queued" => background[r].pc = "none"

\* A step after which nobody else has started a run, and nothing else executes.
OnceStep ==
  /\ \A c \in Clients : call'[c].pc \in Preparing =>
       call[c].pc \in Preparing /\ call'[c].run = call[c].run
  /\ \A r \in Ids : background[r].pc = "none" => background'[r].pc = "none"

\* Such a step keeps the invariant.
LEMMA OnceKept ==
  ASSUME Base, Base', Once, RunStep, OnceStep
  PROVE  Once'
<1>1. /\ \A r \in RunIds : Evolves(r, runs'[r])
      /\ RunIds \subseteq DOMAIN runs'
  BY RunStepShape
<1>2. ASSUME NEW c \in Clients, call'[c].pc \in Preparing
      PROVE  background'[call'[c].run].pc = "none" /\ runs'[call'[c].run].status # "queued"
  <2>1. /\ call[c].pc \in Preparing /\ call'[c].run = call[c].run
        /\ call[c].run \in RunIds
    BY <1>2 DEF OnceStep, Preparing, Base, Owned
  <2>2. background[call[c].run].pc = "none" /\ runs[call[c].run].status # "queued"
    BY <2>1 DEF Once
  <2>3. call[c].run \in Ids
    BY <2>1, RunType
  <2> QED
    BY <1>1, <2>1, <2>2, <2>3 DEF OnceStep, Evolves, EndedStatus
<1>3. ASSUME NEW r \in DOMAIN runs', runs'[r].status = "queued"
      PROVE  background'[r].pc = "none"
  <2>1. r \in Ids
    BY BoundAssumption DEF Base, TypeOK, Ids
  <2>2. r \in RunIds => runs[r].status = "queued"
    BY <1>1, <1>3 DEF Evolves, EndedStatus
  <2>3. background[r].pc = "none"
    BY <2>1, <2>2 DEF Once, Base, Owned
  <2> QED
    BY <2>1, <2>3 DEF OnceStep
<1>4. ASSUME NEW c \in Clients, NEW d \in Clients, call'[c].pc \in Preparing,
             call'[d].pc \in Preparing, call'[c].run = call'[d].run
      PROVE  c = d
  BY <1>4 DEF OnceStep, Once
<1> QED
  BY <1>2, <1>3, <1>4 DEF Once, RunIds

\* All steps but two are of that kind; these two hand a run over.
LEMMA OnceSteps ==
  ASSUME Base, Base', Once, [Next]_vars
  PROVE  Once'
<1>0. /\ RunStep /\ TypeOK /\ call \in [Clients -> Call]
      /\ background \in [Ids -> Execution]
  BY StepKeeps DEF Base, TypeOK
<1>1. ASSUME UNCHANGED <<call, background>>
      PROVE  Once'
  BY <1>0, <1>1, OnceKept DEF OnceStep
<1>2. ASSUME NEW c \in Clients, NEW r \in Ids, NEW pc \in {"queued", "signal", "approved"},
             Goto(c, pc, r), UNCHANGED background
      PROVE  Once'
  <2>1. call'[c].pc = pc /\ \A d \in Clients \ {c} : call'[d] = call[d]
    BY <1>2, GotoShape
  <2>2. pc \notin Preparing
    BY DEF Preparing
  <2>3. OnceStep
    BY <1>2, <2>1, <2>2 DEF OnceStep
  <2> QED
    BY <1>0, <2>3, OnceKept
<1>3. ASSUME NEW c \in Clients, Return(c), UNCHANGED background
      PROVE  Once'
  BY <1>0, <1>3, ReturnShape, OnceKept DEF OnceStep, Preparing
<1>4. ASSUME NEW c \in Clients, Requests(c)
      PROVE  Once'
  <2>1. ASSUME NEW d \in Definitions, NEW t \in Tasks, NEW key \in Keys \cup {Nothing},
               NEW instance \in Instances, NEW session \in Sessions,
               QueueRun(c, d, t, key, instance, session)
        PROVE  Once'
    <3>1. PICK r \in Ids : Goto(c, "queued", r)
      <4>1. \A r \in Existing(d, t, key) : r \in Ids
        BY RunType DEF Existing
      <4>2. Len(runs) < MaxRuns => Len(runs) + 1 \in Ids
        BY BoundAssumption DEF Base, TypeOK, Ids
      <4> QED
        BY <2>1, <4>1, <4>2 DEF QueueRun
    <3>2. UNCHANGED background
      BY <2>1 DEF QueueRun
    <3> QED
      BY <1>2, <3>1, <3>2
  <2>2. ASSUME NEW r \in RunIds, CancelRun(c, r)
        PROVE  Once'
    BY <1>2, <2>2, RunType DEF CancelRun
  <2>4. ASSUME NEW r \in RunIds, NEW v \in Variants, ApproveBaseline(c, r, v)
        PROVE  Once'
    BY <1>2, <2>4, RunType DEF ApproveBaseline
  <2>3. CASE UNCHANGED <<call, background>>
    BY <1>1, <2>3
  <2> QED
    BY <1>4, <2>1, <2>2, <2>3, <2>4 DEF Requests, SaveDefinition, Review, CompleteTask
<1>5. ASSUME NEW c \in Clients, HandlerStep(c)
      PROVE  Once'
  <2> DEFINE r == call[c].run
  <2>0. call[c].pc # "idle" /\ r \in RunIds /\ r \in Ids
    BY <1>5, RunType
       DEF HandlerStep, StartRun, ReadBaselines, ClearFile, PutFile, SpawnRun, PrepareFails,
           SignalRunner, LoadDefinition, AnswerApproval, At, Installing, Base, Owned
  <2>1. CASE StartRun(c) /\ MayStart(r)
    <3>1. Goto(c, "started", r) /\ WriteStart(r) /\ UNCHANGED background
      BY <2>1 DEF StartRun
    <3>2. /\ call'[c].pc \in Preparing /\ call'[c].run = r
          /\ \A d \in Clients \ {c} : call'[d] = call[d]
      BY <2>0, <3>1, GotoShape DEF Preparing
    <3>3. /\ runs[r].status = "queued" /\ runs'[r].status = "running"
          /\ \A x \in RunIds \ {r} : runs'[x] = runs[x]
          /\ DOMAIN runs' = RunIds
      <4>1. runs[r] \in Run /\ runs \in Seq(Run)
        BY <2>0, RunType
      <4> QED
        BY <2>0, <2>1, <3>1, <4>1 DEF WriteStart, MayStart, StatusIs, RunIds, Run
    <3>4. \A d \in Clients : call[d].pc \in Preparing => call[d].run # r
      BY <3>3 DEF Once
    <3>5. background[r].pc = "none"
      BY <2>0, <3>3 DEF Once
    <3>6. \A d \in Clients : call[d].pc \in Preparing => call[d].run \in RunIds
      BY DEF Preparing, Base, Owned
    <3> QED
      BY <3>1, <3>2, <3>3, <3>4, <3>5, <3>6 DEF Once, RunIds
  <2>2. CASE StartRun(c) /\ ~MayStart(r)
    BY <1>3, <2>2 DEF StartRun
  <2>3. CASE SpawnRun(c)
    <3>1. /\ call'[c].pc = "idle" /\ \A d \in Clients \ {c} : call'[d] = call[d]
          /\ UNCHANGED runs /\ call[c].pc \in Preparing
      BY <2>3, ReturnShape DEF SpawnRun, At, Preparing
    <3>2. \A x \in Ids \ {r} : background'[x] = background[x]
      BY <1>0, <2>0, <2>3 DEF SpawnRun
    <3>3. ASSUME NEW d \in Clients, call'[d].pc \in Preparing
          PROVE  call[d].pc \in Preparing /\ call'[d].run = call[d].run /\ call'[d].run # r
                 /\ call[d].run \in Ids
      <4>1. d # c /\ call'[d] = call[d]
        BY <3>1, <3>3 DEF Preparing
      <4>2. call[d].pc \in Preparing /\ call[d].run # r
        BY <3>1, <3>3, <4>1 DEF Once
      <4>3. call[d].run \in Ids
        BY <4>2, RunType DEF Preparing, Base, Owned
      <4> QED
        BY <4>1, <4>2, <4>3
    <3>4. runs[r].status # "queued"
      BY <3>1 DEF Once
    <3>5. ASSUME NEW x \in DOMAIN runs', runs'[x].status = "queued"
          PROVE  background'[x].pc = "none"
      <4>1. x \in RunIds /\ x # r /\ runs[x].status = "queued"
        BY <3>1, <3>4, <3>5 DEF RunIds
      <4>2. x \in Ids
        BY <4>1, RunType
      <4> QED
        BY <3>2, <4>1, <4>2 DEF Once
    <3>6. ASSUME NEW d \in Clients, call'[d].pc \in Preparing
          PROVE  background'[call'[d].run].pc = "none" /\ runs'[call'[d].run].status # "queued"
      BY <3>1, <3>2, <3>3, <3>6 DEF Once
    <3>7. ASSUME NEW d \in Clients, NEW e \in Clients, call'[d].pc \in Preparing,
                 call'[e].pc \in Preparing, call'[d].run = call'[e].run
          PROVE  d = e
      BY <3>3, <3>7 DEF Once
    <3> QED
      BY <3>5, <3>6, <3>7 DEF Once, RunIds
  <2>4. CASE PrepareFails(c) \/ SignalRunner(c) \/ AnswerApproval(c)
    BY <1>3, <2>4 DEF PrepareFails, SignalRunner, AnswerApproval
  <2>5. CASE \/ ReadBaselines(c) \/ LoadDefinition(c)
             \/ \E v \in Variants : ClearFile(c, v) \/ PutFile(c, v)
    <3>1. call[c] \in Call
      BY <1>0
    <3>2. /\ UNCHANGED background /\ \A d \in Clients \ {c} : call'[d] = call[d]
          /\ call'[c].run = r /\ (call'[c].pc \in Preparing => call[c].pc \in Preparing)
      <4>1. CASE ReadBaselines(c)
        BY <1>0, <3>1, <4>1 DEF ReadBaselines, At, Preparing, Call
      <4>2. CASE LoadDefinition(c)
        BY <1>0, <3>1, <4>2 DEF LoadDefinition, Preparing, Call
      <4>3. ASSUME NEW v \in Variants, ClearFile(c, v) \/ PutFile(c, v)
            PROVE  /\ UNCHANGED background /\ \A d \in Clients \ {c} : call'[d] = call[d]
                   /\ call'[c].run = r /\ call'[c].pc = call[c].pc
        BY <1>0, <3>1, <4>3 DEF ClearFile, PutFile, Call
      <4> QED
        BY <2>5, <4>1, <4>2, <4>3
    <3>3. OnceStep
      BY <3>2 DEF OnceStep
    <3> QED
      BY <1>0, <3>3, OnceKept
  <2> QED
    BY <1>5, <2>1, <2>2, <2>3, <2>4, <2>5 DEF HandlerStep
<1>6. ASSUME NEW r \in RunIds, BackgroundStep(r)
      PROVE  Once'
  <2>1. r \in Ids /\ background[r].pc # "none" /\ UNCHANGED call
    BY <1>6, RunType
       DEF BackgroundStep, RunnerAnswers, CaptureImage, RunnerFails, CompleteRun, FailRun,
           InBackground, StillCalls
  <2>2. \E row : background' = [background EXCEPT ![r] = row]
    BY <1>6
       DEF BackgroundStep, RunnerAnswers, CaptureImage, RunnerFails, CompleteRun, FailRun,
           Onward, End
  <2>3. \A x \in Ids \ {r} : background'[x] = background[x]
    BY <1>0, <2>1, <2>2
  <2> QED
    BY <1>0, <2>1, <2>3, OnceKept DEF OnceStep
<1>7. CASE Restart
  <2>1. OnceStep
    BY <1>7, IdleType DEF Restart, OnceStep, Preparing
  <2> QED
    BY <1>0, <2>1, OnceKept
<1>8. CASE UNCHANGED vars
  BY <1>1, <1>8 DEF vars
<1> QED
  BY <1>4, <1>5, <1>6, <1>7, <1>8 DEF Next

\* A run that a client asks for again, or two clients ask for, is executed by one of them.
THEOREM ExecutedOnce == Spec => []RunsAreExecutedOnce
<1>1. Init => Once
  BY IdleType DEF Init, Once, Preparing, RunIds
<1>2. Base /\ Once /\ [Next]_vars => Once'
  BY StepKeeps, BaseStep, OnceSteps
<1>3. Base /\ Once => RunsAreExecutedOnce
  <2> SUFFICES ASSUME Base, Once, NEW r \in RunIds
               PROVE  Cardinality({c \in Clients : call[c].pc \in Preparing /\ call[c].run = r})
                        + (IF background[r].pc = "none" THEN 0 ELSE 1) <= 1
    BY DEF RunsAreExecutedOnce, Preparing
  <2> DEFINE S == {c \in Clients : call[c].pc \in Preparing /\ call[c].run = r}
  <2>1. \A c \in S : c \in Clients /\ call[c].pc \in Preparing /\ call[c].run = r
    OBVIOUS
  <2>2. \A c, d \in S : c = d
    BY <2>1 DEF Once
  <2>3. S # {} => background[r].pc = "none"
    BY <2>1 DEF Once
  <2> HIDE DEF S
  <2>4. CASE S = {}
    BY <2>4, FS_EmptySet DEF S
  <2>5. CASE S # {}
    <3>1. PICK c : S = {c}
      BY <2>2, <2>5
    <3>2. Cardinality(S) = 1
      BY <3>1, FS_Singleton
    <3> QED
      BY <2>3, <2>5, <3>2 DEF S
  <2> QED
    BY <2>4, <2>5
<1> QED
  BY <1>1, <1>2, <1>3, BaseInvariance, PTL DEF Spec

-----------------------------------------------------------------------------
(***************************************************************************)
(* The images that a run is compared with.                                 *)
(***************************************************************************)

\* The runs whose image of a variant of a definition somebody has approved.
Approved(d, v) == {b \in RunIds : runs[b].definition = d /\ runs[b].comparisons[v] = "approved"}
Known(d, v) == Approved(d, v) \cup {Nothing}

\* The table and the files hold approved images,
Kept ==
  \A d \in Definitions, v \in Variants :
    baselines[<<d, v>>] \in Known(d, v) /\ files[<<d, v>>] \in Known(d, v)

\* so does what a handler has read and not put in place,
Carried ==
  \A c \in Clients, v \in Variants : Installing(c) =>
    call[c].read[v] \in Known(runs[call[c].run].definition, v)

\* what an execution has compared images with,
Met ==
  \A r \in Ids, v \in Variants : background[r].against[v] # {} =>
    r \in RunIds /\ background[r].against[v] \subseteq Known(runs[r].definition, v)

\* and what it left in a run that passed, which missed none.
Passed ==
  \A r \in RunIds, v \in Variants : runs[r].status = "passed" =>
    runs[r].against[v] \subseteq Approved(runs[r].definition, v)

ImagesInv == Kept /\ Carried /\ Met /\ Passed

\* No approval is taken back.
LEMMA ApprovalsStay ==
  ASSUME Base, RunStep, NEW d, NEW v \in Variants
  PROVE  Approved(d, v) \subseteq Approved(d, v)' /\ Known(d, v) \subseteq Known(d, v)'
<1>1. /\ \A r \in RunIds : Evolves(r, runs'[r])
      /\ RunIds \subseteq DOMAIN runs'
  BY RunStepShape
<1>2. Approved(d, v) \subseteq Approved(d, v)'
  BY <1>1 DEF Approved, Evolves, RunIds
<1> QED
  BY <1>2 DEF Known

\* A run that passes leaves what its execution met, of which nothing was missing.
LEMMA PassedKept ==
  ASSUME Base, RunStep, Met, Passed
  PROVE  Passed'
<1> SUFFICES ASSUME NEW r \in DOMAIN runs', NEW v \in Variants, runs'[r].status = "passed",
                    NEW d, d = runs'[r].definition
             PROVE  runs'[r].against[v] \subseteq Approved(d, v)'
  BY DEF Passed, Approved, RunIds
<1>1. r \in RunIds /\ Evolves(r, runs'[r])
  BY RunStepShape
<1>2. d = runs[r].definition /\ r \in Ids
  BY <1>1, RunType DEF Evolves
<1>3. runs'[r].against[v] \subseteq Approved(d, v)
  <2>1. CASE runs'[r].status = runs[r].status /\ runs'[r].against = runs[r].against
    BY <1>1, <1>2, <2>1 DEF Passed
  <2>2. CASE runs'[r].against = background[r].against /\ Nothing \notin runs'[r].against[v]
    BY <1>1, <1>2, <2>2 DEF Met, Known
  <2> QED
    BY <1>1, <2>1, <2>2 DEF Evolves
<1> QED
  BY <1>2, <1>3, ApprovalsStay

\* The images that a step leaves where they are.
KeptStep == UNCHANGED <<baselines, files>>
CarriedStep ==
  \A c \in Clients : Installing(c)' =>
    Installing(c) /\ call'[c].run = call[c].run /\ call'[c].read = call[c].read
MetStep ==
  \A r \in Ids : background'[r].against \in {background[r].against, NoImages}

\* They stay approved.
LEMMA KeptStays ==
  ASSUME Base, RunStep, Kept, KeptStep
  PROVE  Kept'
  BY ApprovalsStay DEF Kept, KeptStep

\* So do those of the handlers,
LEMMA CarriedStays ==
  ASSUME Base, RunStep, Carried, CarriedStep
  PROVE  Carried'
<1> SUFFICES ASSUME NEW c \in Clients, NEW v \in Variants, Installing(c)',
                    NEW d, d = runs'[call'[c].run].definition
             PROVE  call'[c].read[v] \in Known(d, v)'
  BY DEF Carried, Known, Approved, RunIds
<1>1. /\ Installing(c) /\ call'[c].run = call[c].run /\ call'[c].read = call[c].read
      /\ call[c].run \in RunIds
  BY DEF CarriedStep, Installing, Base, Owned
<1>2. d = runs[call[c].run].definition
  BY <1>1, RunStepShape DEF Evolves
<1> QED
  BY <1>1, <1>2, ApprovalsStay DEF Carried

\* and of the executions.
LEMMA MetStays ==
  ASSUME Base, RunStep, Met, MetStep
  PROVE  Met'
<1> SUFFICES ASSUME NEW r \in Ids, NEW v \in Variants, background'[r].against[v] # {},
                    NEW d, d = runs'[r].definition
             PROVE  r \in DOMAIN runs' /\ background'[r].against[v] \subseteq Known(d, v)'
  BY DEF Met, Known, Approved, RunIds
<1>1. background'[r].against = background[r].against
  BY DEF MetStep, NoImages
<1>2. r \in RunIds /\ background[r].against[v] \subseteq Known(runs[r].definition, v)
  BY <1>1 DEF Met
<1>3. r \in DOMAIN runs' /\ d = runs[r].definition
  BY <1>2, RunStepShape DEF Evolves
<1> QED
  BY <1>1, <1>2, <1>3, ApprovalsStay

\* A request changes the table only by an approval.
LEMMA ImageRequests ==
  ASSUME Base, ImagesInv, NEW c \in Clients, Requests(c)
  PROVE  Kept' /\ Carried' /\ Met'
<1>1. RunStep /\ TypeOK
  BY RequestsKeep DEF Base
<1>2. UNCHANGED <<files, background>>
  BY DEF Requests, SaveDefinition, QueueRun, CancelRun, Review, ApproveBaseline, CompleteTask,
         StillTables
<1>3. CarriedStep
  <2>1. UNCHANGED call \/ \E pc \in {"queued", "signal", "approved"}, r \in Ids : Goto(c, pc, r)
    <3>1. \A r \in RunIds : r \in Ids
      BY RunType
    <3>2. Len(runs) < MaxRuns => Len(runs) + 1 \in Ids
      BY BoundAssumption DEF Base, TypeOK, Ids
    <3> QED
      BY <3>1, <3>2 DEF Requests, SaveDefinition, QueueRun, CancelRun, Review, ApproveBaseline,
                        CompleteTask, Existing
  <2>2. ASSUME NEW pc \in {"queued", "signal", "approved"}, NEW r \in Ids, Goto(c, pc, r)
        PROVE  CarriedStep
    <3>1. call'[c].pc = pc /\ pc \notin {"installing", "replacing"} /\ \A d \in Clients \ {c} : call'[d] = call[d]
      BY <2>2, GotoShape
    <3> QED
      BY <3>1 DEF CarriedStep, Installing
  <2> QED
    BY <2>1, <2>2 DEF CarriedStep, Installing
<1>4. Carried' /\ Met'
  BY <1>1, <1>2, <1>3, CarriedStays, MetStays DEF ImagesInv, MetStep
<1>5. ASSUME NEW r \in RunIds, NEW v \in Variants, ApproveBaseline(c, r, v)
      PROVE  Kept'
  <2> SUFFICES ASSUME NEW d \in Definitions, NEW w \in Variants
               PROVE  baselines'[<<d, w>>] \in Known(d, w)' /\ files'[<<d, w>>] \in Known(d, w)'
    BY DEF Kept
  <2>1. files'[<<d, w>>] \in Known(d, w)' /\ baselines[<<d, w>>] \in Known(d, w)'
    BY <1>1, <1>2, ApprovalsStay DEF ImagesInv, Kept
  <2>2. r \in DOMAIN runs' /\ runs'[r].definition = runs[r].definition
    BY <1>1, RunStepShape DEF Evolves
  <2>3. runs'[r].comparisons[v] = "approved"
    BY <1>5, BaselineMoves DEF ApproveBaseline
  <2>4. baselines' = [baselines EXCEPT ![<<runs[r].definition, v>>] = r]
    BY <1>5 DEF ApproveBaseline, WriteBaseline
  <2>5. d = runs[r].definition /\ w = v => r \in Known(d, w)'
    BY <2>2, <2>3 DEF Known, Approved, RunIds
  <2>6. CASE d = runs[r].definition /\ w = v
    BY <1>1, <2>1, <2>4, <2>5, <2>6 DEF TypeOK
  <2>7. CASE ~(d = runs[r].definition /\ w = v)
    BY <1>1, <2>1, <2>4, <2>7 DEF TypeOK
  <2> QED
    BY <2>1, <2>6, <2>7
<1>6. CASE UNCHANGED baselines
  BY <1>1, <1>2, <1>4, <1>6, KeptStays DEF ImagesInv, KeptStep
<1>7. Kept'
  BY <1>5, <1>6
     DEF Requests, SaveDefinition, QueueRun, CancelRun, Review, CompleteTask, StillTables
<1> QED
  BY <1>4, <1>7

\* A handler reads the table, and puts what it has read into files.
LEMMA ImageHandlers ==
  ASSUME Base, ImagesInv, NEW c \in Clients, HandlerStep(c)
  PROVE  Kept' /\ Carried' /\ Met'
<1> DEFINE r == call[c].run
<1>1. RunStep /\ TypeOK /\ UNCHANGED baselines
  BY HandlersKeep
     DEF Base, HandlerStep, StartRun, ReadBaselines, ClearFile, PutFile, SpawnRun, PrepareFails,
         SignalRunner, LoadDefinition, AnswerApproval, StillRows, StillTables
<1>2. MetStep
  <2>1. UNCHANGED background \/ background' = [background EXCEPT ![r].pc = "calling"]
    BY DEF HandlerStep, StartRun, ReadBaselines, ClearFile, PutFile, SpawnRun, PrepareFails,
           SignalRunner, LoadDefinition, AnswerApproval, StillTables
  <2> QED
    BY <1>1, <2>1 DEF TypeOK, Execution, MetStep
<1>3. Met'
  BY <1>1, <1>2, MetStays DEF ImagesInv
<1>4. r \in RunIds /\ runs[r].definition \in Definitions
  <2>1. call[c].pc # "idle"
    BY DEF HandlerStep, StartRun, ReadBaselines, ClearFile, PutFile, SpawnRun, PrepareFails,
           SignalRunner, LoadDefinition, AnswerApproval, At, Installing
  <2> QED
    BY <2>1, RunType DEF Base, Owned, Run
<1>5. CASE ReadBaselines(c)
  <2>1. Kept'
    BY <1>1, <1>5, KeptStays DEF ImagesInv, KeptStep, ReadBaselines, StillTables
  <2>2. /\ \A d \in Clients \ {c} : call'[d] = call[d]
        /\ call'[c].run = r /\ UNCHANGED runs
        /\ \A v \in Variants : call'[c].read[v] = baselines[<<runs[r].definition, v>>]
    BY <1>1, <1>5 DEF ReadBaselines, TypeOK, Call
  <2>5. ASSUME NEW d \in Clients, NEW v \in Variants, Installing(d)'
        PROVE  call'[d].read[v] \in Known(runs[call'[d].run].definition, v)
    BY <1>4, <2>2, <2>5 DEF ImagesInv, Carried, Kept, Installing
  <2>6. Carried'
    BY <2>2, <2>5 DEF Carried, Known, Approved, RunIds
  <2> QED
    BY <1>3, <2>1, <2>6
<1>6. ASSUME NEW v \in Variants, ClearFile(c, v) \/ PutFile(c, v)
      PROVE  Kept' /\ Carried' /\ Met'
  <2>1. /\ Installing(c) /\ call'[c].run = r /\ call'[c].read = call[c].read
        /\ \A d \in Clients \ {c} : call'[d] = call[d]
    BY <1>1, <1>6 DEF ClearFile, PutFile, TypeOK, Call
  <2>2. Carried'
    <3>1. CarriedStep
      BY <2>1 DEF CarriedStep, Installing
    <3> QED
      BY <1>1, <3>1, CarriedStays DEF ImagesInv
  <2>3. \/ UNCHANGED files
        \/ \E image \in {Nothing, call[c].read[v]} :
             files' = [files EXCEPT ![<<runs[r].definition, v>>] = image]
    BY <1>6 DEF ClearFile, PutFile, FileOf
  <2>4. {Nothing, call[c].read[v]} \subseteq Known(runs[r].definition, v)
    BY <2>1 DEF ImagesInv, Carried, Known
  <2>5. ASSUME NEW d \in Definitions, NEW w \in Variants
        PROVE  files'[<<d, w>>] \in Known(d, w) /\ baselines'[<<d, w>>] \in Known(d, w)
    <3>1. files[<<d, w>>] \in Known(d, w) /\ baselines'[<<d, w>>] \in Known(d, w)
      BY <1>1 DEF ImagesInv, Kept
    <3>2. ASSUME NEW image \in {Nothing, call[c].read[v]},
                 files' = [files EXCEPT ![<<runs[r].definition, v>>] = image]
          PROVE  files'[<<d, w>>] \in Known(d, w)
      <4>1. CASE d = runs[r].definition /\ w = v
        BY <1>1, <2>4, <3>2, <4>1 DEF TypeOK
      <4>2. CASE ~(d = runs[r].definition /\ w = v)
        BY <1>1, <3>1, <3>2, <4>2 DEF TypeOK
      <4> QED
        BY <4>1, <4>2
    <3> QED
      BY <2>3, <3>1, <3>2
  <2>6. Kept'
    BY <1>1, <2>5, ApprovalsStay DEF Kept
  <2> QED
    BY <1>3, <2>2, <2>6
<1>7. CASE \/ StartRun(c) \/ SpawnRun(c) \/ PrepareFails(c) \/ SignalRunner(c)
           \/ AnswerApproval(c)
  <2>1. KeptStep
    BY <1>7 DEF KeptStep, StartRun, SpawnRun, PrepareFails, SignalRunner, AnswerApproval, StillTables
  <2>2. Return(c) \/ Goto(c, "started", r)
    BY <1>7 DEF StartRun, SpawnRun, PrepareFails, SignalRunner, AnswerApproval
  <2>3. r \in Ids
    BY <1>4, RunType
  <2>4. ~Installing(c)' /\ \A d \in Clients \ {c} : call'[d] = call[d]
    BY <2>2, <2>3, ReturnShape, GotoShape DEF Installing
  <2>5. CarriedStep
    BY <2>4 DEF CarriedStep, Installing
  <2> QED
    BY <1>1, <1>3, <2>1, <2>5, KeptStays, CarriedStays DEF ImagesInv
<1>8. CASE LoadDefinition(c)
  <2>1. KeptStep
    BY <1>8 DEF KeptStep, LoadDefinition, StillTables
  <2>2. ~Installing(c)' /\ \A d \in Clients \ {c} : call'[d] = call[d]
    BY <1>1, <1>8 DEF LoadDefinition, TypeOK, Call, Installing
  <2>3. CarriedStep
    BY <2>2 DEF CarriedStep, Installing
  <2> QED
    BY <1>1, <1>3, <2>1, <2>3, KeptStays, CarriedStays DEF ImagesInv
<1> QED
  BY <1>5, <1>6, <1>7, <1>8 DEF HandlerStep

\* An execution meets the files.
LEMMA ImageExecutions ==
  ASSUME Base, ImagesInv, NEW r \in RunIds, BackgroundStep(r)
  PROVE  Kept' /\ Carried' /\ Met'
<1>1. RunStep /\ TypeOK /\ r \in Ids
  BY ExecutionsKeep, RunType DEF Base
<1>2. KeptStep /\ UNCHANGED call
  BY DEF BackgroundStep, RunnerAnswers, CaptureImage, RunnerFails, CompleteRun, FailRun, KeptStep,
         LeavesBaseline, StillCalls, StillRows, StillTables
<1>3. Kept' /\ Carried'
  BY <1>1, <1>2, KeptStays, CarriedStays DEF ImagesInv, CarriedStep, Installing
<1>4. ASSUME NEW v \in Variants, CaptureImage(r, v)
      PROVE  Met'
  <2>1. runs[r].definition \in Definitions
    BY RunType DEF Run
  <2>2. files[<<runs[r].definition, v>>] \in Known(runs[r].definition, v)
    BY <2>1 DEF ImagesInv, Kept
  <2>3. background[r].against \in [Variants -> SUBSET Image]
    BY <1>1 DEF TypeOK, Execution
  <2>4. /\ UNCHANGED runs
        /\ \A x \in Ids \ {r} : background'[x] = background[x]
        /\ \A w \in Variants : background'[r].against[w] =
             IF w = v THEN background[r].against[v] \cup {files[<<runs[r].definition, v>>]}
             ELSE background[r].against[w]
    BY <1>1, <1>4, <2>3 DEF CaptureImage, FileOf, TypeOK, Execution
  <2>6. ASSUME NEW x \in Ids, NEW w \in Variants, background'[x].against[w] # {}
        PROVE  x \in RunIds /\ background'[x].against[w] \subseteq Known(runs[x].definition, w)
    BY <2>2, <2>4, <2>6 DEF ImagesInv, Met, Known
  <2> QED
    BY <2>4, <2>6 DEF Met, Known, Approved, RunIds
<1>5. ASSUME NEW pc \in Background, NEW outcome \in Outcome, Onward(r, pc, outcome)
      PROVE  Met'
  <2>1. MetStep
    BY <1>1, <1>5, OnwardShape DEF MetStep
  <2> QED
    BY <1>1, <2>1, MetStays DEF ImagesInv
<1>6. CASE End(r)
  <2>1. MetStep
    BY <1>1, <1>6, EndShape DEF MetStep
  <2> QED
    BY <1>1, <1>3, <2>1, MetStays DEF ImagesInv
<1>7. /\ {"completing", "failing"} \subseteq Background /\ NoOutcome \in Outcome
      /\ \A answer \in Answers : Decoded(answer) \in Outcome
  BY IdleType, DecodedType DEF Background
<1> QED
  BY <1>3, <1>4, <1>5, <1>6, <1>7
     DEF BackgroundStep, RunnerAnswers, RunnerFails, CompleteRun, FailRun

\* A start of the core leaves the table and the files.
LEMMA ImageRestarts ==
  ASSUME Base, ImagesInv, Restart
  PROVE  Kept' /\ Carried' /\ Met'
<1>1. RunStep
  BY RestartKeeps
<1>2. KeptStep /\ CarriedStep /\ MetStep
  BY IdleType DEF Restart, KeptStep, CarriedStep, MetStep, Installing
<1> QED
  BY <1>1, <1>2, KeptStays, CarriedStays, MetStays DEF ImagesInv

\* A run that passed without a review compared its images with nothing but images of
\* the same definition and variant that somebody has approved, whatever other runs of
\* the definition put into the files meanwhile.
THEOREM KnownImages == Spec => []PassedImagesWereApproved
<1>1. Init => ImagesInv
  BY IdleType DEF Init, ImagesInv, Kept, Carried, Met, Passed, Known, NoImages, RunIds, Installing
<1>2. Base /\ ImagesInv /\ [Next]_vars => ImagesInv'
  <2> SUFFICES ASSUME Base, ImagesInv, [Next]_vars
               PROVE  ImagesInv'
    OBVIOUS
  <2>1. RunStep
    BY StepKeeps
  <2>2. Kept' /\ Carried' /\ Met'
    <3>1. CASE UNCHANGED vars
      BY <2>1, <3>1, KeptStays, CarriedStays, MetStays
         DEF ImagesInv, vars, KeptStep, CarriedStep, MetStep, Installing
    <3> QED
      BY <3>1, ImageRequests, ImageHandlers, ImageExecutions, ImageRestarts DEF Next
  <2>3. Passed'
    BY <2>1, PassedKept DEF ImagesInv
  <2> QED
    BY <2>2, <2>3 DEF ImagesInv
<1>3. ImagesInv => PassedImagesWereApproved
  BY DEF ImagesInv, Passed, Approved, PassedImagesWereApproved, StatusIs
<1> QED
  BY <1>1, <1>2, <1>3, BaseInvariance, PTL DEF Spec

-----------------------------------------------------------------------------
(***************************************************************************)
(* Completed tasks.                                                        *)
(***************************************************************************)

\* A run that lets its task complete.
Good(r) == StatusIs(r, {"passed", "approved"}) /\ ~runs[r].blocking /\ ~runs[r].critical

\* A completion relies on definitions that are required and verified.
Vouched ==
  \A t \in done : \A d \in vouched[t] : Saved(d) /\ definitions[d].required /\ Verified(d, t)

\* No run stops being good.
LEMMA GoodStays ==
  ASSUME Base, RunStep, NEW r \in RunIds, Good(r)
  PROVE  /\ r \in DOMAIN runs' /\ runs'[r].status \in {"passed", "approved"}
         /\ ~runs'[r].blocking /\ ~runs'[r].critical
         /\ runs'[r].definition = runs[r].definition /\ runs'[r].task = runs[r].task
  BY RunStepShape DEF Good, StatusIs, Evolves

\* A definition stays verified for a task until another run is queued for both.
LEMMA VerifiedStays ==
  ASSUME Base, RunStep, NEW d \in Definitions, NEW t \in Tasks, Verified(d, t),
         \A x \in DOMAIN runs' \ RunIds : ~(runs'[x].definition = d /\ runs'[x].task = t)
  PROVE  Verified(d, t)'
<1>1. PICK r \in Latest(d, t) : Good(r)
  BY DEF Verified, Good
<1>2. r \in RunIds /\ runs[r].definition = d /\ runs[r].task = t
  BY DEF Latest
<1>3. /\ r \in DOMAIN runs' /\ runs'[r].status \in {"passed", "approved"}
      /\ ~runs'[r].blocking /\ ~runs'[r].critical
      /\ runs'[r].definition = d /\ runs'[r].task = t
  BY <1>1, <1>2, GoodStays
<1>4. ASSUME NEW q \in DOMAIN runs', runs'[q].definition = d, runs'[q].task = t
      PROVE  q <= r
  <2>1. q \in RunIds /\ Evolves(q, runs'[q])
    BY <1>4, RunStepShape
  <2>2. runs[q].definition = d /\ runs[q].task = t
    BY <1>4, <2>1 DEF Evolves
  <2> QED
    BY <2>1, <2>2 DEF Latest
<1> QED
  BY <1>3, <1>4 DEF Verified, Latest, StatusIs, RunIds

\* What is not queued, saved or completed leaves completions and definitions alone.
Still ==
  DOMAIN runs' = RunIds /\ done' \subseteq done /\ UNCHANGED <<definitions, vouched>>

\* Such a step keeps the invariant.
LEMMA VouchedKept ==
  ASSUME Base, Vouched, RunStep, Still
  PROVE  Vouched'
<1> SUFFICES ASSUME NEW t \in done', NEW d \in vouched'[t]
             PROVE  Saved(d)' /\ definitions'[d].required /\ Verified(d, t)'
  BY DEF Vouched
<1>1. t \in done /\ d \in vouched[t] /\ t \in Tasks /\ d \in Definitions
  BY DEF Still, Base, TypeOK
<1>2. Saved(d) /\ definitions[d].required /\ Verified(d, t)
  BY <1>1 DEF Vouched
<1> QED
  BY <1>1, <1>2, VerifiedStays DEF Still, Saved

\* The requests that do one of these.
LEMMA VouchedRequests ==
  ASSUME Base, Vouched, NEW c \in Clients, Requests(c)
  PROVE  Vouched'
<1>0. RunStep /\ TypeOK
  BY RequestsKeep DEF Base
<1>1. ASSUME NEW d \in Definitions, NEW draft \in Drafts, SaveDefinition(c, d, draft)
      PROVE  Vouched'
  <2> SUFFICES ASSUME NEW t \in done', NEW e \in vouched'[t]
               PROVE  Saved(e)' /\ definitions'[e].required /\ Verified(e, t)'
    BY DEF Vouched
  <2>1. /\ t \in done /\ t \in Tasks /\ e \in vouched[t] /\ e # d /\ e \in Definitions
        /\ runs' = runs
    BY <1>0, <1>1 DEF SaveDefinition, TypeOK
  <2>2. Saved(e) /\ definitions[e].required /\ Verified(e, t)
    BY <2>1 DEF Vouched
  <2>3. definitions'[e] = definitions[e]
    BY <1>0, <1>1, <2>1 DEF SaveDefinition, WriteDefinition, TypeOK
  <2>4. Verified(e, t)'
    BY <1>0, <2>1, <2>2, VerifiedStays DEF RunIds
  <2> QED
    BY <2>2, <2>3, <2>4 DEF Saved
<1>2. ASSUME NEW d \in Definitions, NEW t \in Tasks, NEW key \in Keys \cup {Nothing},
             NEW instance \in Instances, NEW session \in Sessions,
             QueueRun(c, d, t, key, instance, session)
      PROVE  Vouched'
  <2>1. CASE UNCHANGED <<runs, done>>
    BY <1>0, <1>2, <2>1, VouchedKept DEF QueueRun, StillTables, Still, RunIds
  <2>2. CASE WriteQueue(d, t, key)
    <3> SUFFICES ASSUME NEW u \in done', NEW e \in vouched'[u]
                 PROVE  Saved(e)' /\ definitions'[e].required /\ Verified(e, u)'
      BY DEF Vouched
    <3>1. UNCHANGED <<definitions, vouched>> /\ done' \subseteq done
      BY <1>2, <2>2
         DEF QueueRun, StillTables, WriteQueue, ReopenIfRequired, ReopenTerminal
    <3>2. u \in done /\ u \in Tasks /\ e \in vouched[u] /\ e \in Definitions
      BY <1>0, <3>1 DEF TypeOK
    <3>3. Saved(e) /\ definitions[e].required /\ Verified(e, u)
      BY <3>2 DEF Vouched
    <3>4. ~(e = d /\ u = t)
      BY <2>2, <3>3 DEF WriteQueue, ReopenIfRequired, ReopenTerminal
    <3>5. /\ DOMAIN runs' = RunIds \cup {Len(runs) + 1}
          /\ runs'[Len(runs) + 1].definition = d /\ runs'[Len(runs) + 1].task = t
      BY <1>0, <2>2, NewRunType, AddRun DEF WriteQueue, TypeOK
    <3>6. Verified(e, u)'
      BY <1>0, <3>2, <3>3, <3>4, <3>5, VerifiedStays
    <3> QED
      BY <3>1, <3>3, <3>6 DEF Saved
  <2> QED
    BY <1>2, <2>1, <2>2 DEF QueueRun
<1>3. ASSUME NEW t \in Tasks, CompleteTask(c, t)
      PROVE  Vouched'
  <2> SUFFICES ASSUME NEW u \in done', NEW e \in vouched'[u]
               PROVE  Saved(e)' /\ definitions'[e].required /\ Verified(e, u)'
    BY DEF Vouched
  <2>1. /\ UNCHANGED <<definitions, runs>> /\ done' = done \cup {t} /\ ~HasBlockers(t)
        /\ vouched' = [vouched EXCEPT ![t] = RequiredOf(t)]
    BY <1>3 DEF CompleteTask
  <2>2. u \in Tasks /\ vouched'[u] = IF u = t THEN RequiredOf(t) ELSE vouched[u]
    BY <1>0, <2>1 DEF TypeOK
  <2>3. e \in Definitions /\ Saved(e) /\ definitions[e].required /\ Verified(e, u)
    <3>1. CASE u = t
      BY <2>1, <2>2, <3>1 DEF HasBlockers, RequiredOf
    <3>2. CASE u # t
      BY <1>0, <2>1, <2>2, <3>2 DEF Vouched, TypeOK
    <3> QED
      BY <3>1, <3>2
  <2>4. Verified(e, u)'
    BY <1>0, <2>1, <2>2, <2>3, VerifiedStays DEF RunIds
  <2> QED
    BY <2>1, <2>3, <2>4 DEF Saved
<1>4. ASSUME \/ \E r \in RunIds : CancelRun(c, r)
             \/ \E r \in RunIds, decision \in {"approve", "reject"} : Review(c, r, decision)
             \/ \E r \in RunIds, v \in Variants : ApproveBaseline(c, r, v)
      PROVE  Vouched'
  <2>1. DOMAIN runs' = RunIds
    BY <1>4 DEF CancelRun, WriteCancel, Review, WriteReview, ApproveBaseline, WriteBaseline, RunIds
  <2>2. done' \subseteq done /\ UNCHANGED <<definitions, vouched>>
    BY <1>4 DEF CancelRun, WriteCancel, Review, WriteReview, ApproveBaseline, StillTables,
                ReopenTerminal
  <2> QED
    BY <1>0, <2>1, <2>2, VouchedKept DEF Still
<1> QED
  BY <1>1, <1>2, <1>3, <1>4 DEF Requests

\* Handlers, executions and restarts do none of these.
LEMMA OthersAreStill ==
  ASSUME Base,
         \/ \E c \in Clients : HandlerStep(c)
         \/ \E r \in RunIds : BackgroundStep(r)
         \/ Restart
         \/ UNCHANGED vars
  PROVE  Still
<1>1. ASSUME NEW c \in Clients, HandlerStep(c)
      PROVE  Still
  BY <1>1 DEF HandlerStep, StartRun, WriteStart, ReadBaselines, ClearFile, PutFile, SpawnRun,
              PrepareFails, TryFail, WriteFailure, ReopenTerminal, SignalRunner, LoadDefinition,
              AnswerApproval, StillRows, StillTables, Still, RunIds
<1>2. ASSUME NEW r \in RunIds, BackgroundStep(r)
      PROVE  Still
  <2>1. UNCHANGED <<definitions, vouched>>
    BY <1>2 DEF BackgroundStep, RunnerAnswers, CaptureImage, RunnerFails, CompleteRun, FailRun,
                StillCalls, StillRows, StillTables
  <2>2. \/ UNCHANGED <<runs, done>> \/ WriteFailure(r)
        \/ \E outcome : WriteOutcome(r, outcome)
    BY <1>2 DEF BackgroundStep, RunnerAnswers, CaptureImage, RunnerFails, CompleteRun, FailRun,
                TryFail
  <2>3. DOMAIN runs' = RunIds /\ done' \subseteq done
    BY <2>2 DEF WriteFailure, WriteOutcome, ReopenTerminal, RunIds
  <2> QED
    BY <2>1, <2>3 DEF Still
<1>3. CASE Restart \/ UNCHANGED vars
  BY <1>3 DEF Restart, vars, Still, RunIds
<1> QED
  BY <1>1, <1>2, <1>3

\* A completed task stays verified, whatever happens after its completion.
THEOREM CompletionsStand == Spec => []CompletedTasksStayVerified
<1>1. Init => Vouched
  BY DEF Init, Vouched
<1>2. Base /\ Vouched /\ [Next]_vars => Vouched'
  BY StepKeeps, VouchedRequests, OthersAreStill, VouchedKept DEF Next
<1>3. Vouched => CompletedTasksStayVerified
  BY DEF Vouched, CompletedTasksStayVerified
<1> QED
  BY <1>1, <1>2, <1>3, BaseInvariance, PTL DEF Spec

=============================================================================
