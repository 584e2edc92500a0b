------------------------ MODULE BrowserVerification ------------------------
(***************************************************************************)
(* Browser verification in the Retcon core: the definitions, runs, reviews *)
(* and baselines of src/crates/retcon-storage/src/browser_verification.rs, *)
(* the handlers and the background execution of                            *)
(* retcon-core/src/browser_verification_rpc.rs, and the runner of          *)
(* retcon-core/src/browser_verification.rs, which the browser service      *)
(* (src/apps/browser-service) stands behind.                               *)
(*                                                                         *)
(* Every transaction is a step.  A handler is interrupted between its      *)
(* transactions and its changes of the baseline files, a background        *)
(* execution between the images it compares, its answer, its check of the  *)
(* run, and its result.                                                    *)
(***************************************************************************)
EXTENDS Integers, Sequences, FiniteSets

CONSTANTS
  Clients,      \* connections
  Projects, Tasks, Definitions, Variants,
  Keys,         \* idempotency keys
  Nothing,      \* no project, no key, no baseline, no session
  Home,         \* the project of each task, or Nothing
  Drafts,       \* what clients save as a definition
  Instances,    \* development server instances that clients name
  Sessions,     \* browser sessions that clients name, possibly Nothing
  Answers,      \* what the browser service may answer, see Answer
  MaxRuns,      \* bound: how many runs are queued
  MaxSaves,     \* bound: how often a definition is saved
  MaxRestarts   \* bound: how often the core is killed and started again

VARIABLES
  definitions,  \* table browser_verification_definitions with its variants
  runs,         \* table browser_verification_runs, by created_at
  baselines,    \* table browser_verification_baselines: the active ones
  files,        \* visual-baselines/: the file the service compares with
  done,         \* the tasks whose status is completed
  vouched,      \* history: the definitions a completion relied on, unchanged since
  call,         \* what the handler of each connection is doing
  background,   \* what execute_run is doing for each run
  saves, restarts

vars == <<definitions, runs, baselines, files, done, vouched, call, background, saves,
          restarts>>

-----------------------------------------------------------------------------
(***************************************************************************)
(* State.                                                                  *)
(***************************************************************************)

Ids == 1..MaxRuns
NoRun == 0

\* compared: how many of its steps take a screenshot that is compared.
Definition ==
  [project: Projects, task: Tasks \cup {Nothing}, status: {"active", "disabled", "archived"},
   config: BOOLEAN, required: BOOLEAN, failOnAccessibility: BOOLEAN,
   steps: {"complete", "incomplete", "unsupported"}, compared: 0..2,
   policy: {"in_range", "out_of_range"}, variants: SUBSET Variants]

Instance == [known: BOOLEAN, config: BOOLEAN, project: Projects, task: Tasks \cup {Nothing},
             status: {"starting", "running", "stopped"}]
Session == [known: BOOLEAN, project: Projects, task: Tasks \cup {Nothing},
            status: {"running", "stopped"}]

\* What the service answers about a page: how the execution ended, whether a
\* required assertion failed, the severities of the accessibility findings, the
\* types of the console messages, and whether an image is unlike its baseline.
ConsoleTypes == {"log", "debug", "info", "warn", "warning", "error", "critical"}
Answer == [status: {"passed", "failed", "error", "cancelled"}, failed: BOOLEAN,
           findings: SUBSET {"error", "notice"}, console: SUBSET ConsoleTypes, differs: BOOLEAN]

\* The outcome the runner makes of it.
Outcome == [blocking: BOOLEAN, findings: SUBSET {"critical", "warning"},
            levels: SUBSET ConsoleTypes, differs: BOOLEAN]

EndedStatus == {"passed", "failed", "needs_review", "approved", "cancelled",
                "interrupted", "error"}
RunStatus == EndedStatus \cup {"queued", "running"}

ComparisonStatus == {"none", "matched", "different", "missing_baseline", "approved"}

\* The run whose image a baseline is, or Nothing.
Image == Ids \cup {Nothing}

\* images are the variants whose images the execution compares; against, what a run
\* that passed compared each of them with, is history.
Run == [definition: Definitions, task: Tasks, key: Keys \cup {Nothing},
        status: RunStatus, blocking: BOOLEAN, critical: BOOLEAN,
        images: SUBSET Variants, comparisons: [Variants -> ComparisonStatus],
        against: [Variants -> SUBSET Image]]
NoImages == [v \in Variants |-> {}]

\* read are the baselines that were active when the handler read them, todo the
\* variants whose file it has not put in place, and cleared those of them whose
\* file it has removed.
Call == [pc: {"idle", "queued", "started", "installing", "signal", "approved", "loaded",
              "replacing"},
         run: Ids \cup {NoRun}, read: [Variants -> Image], todo: SUBSET Variants, cleared: SUBSET Variants]
NothingRead == [v \in Variants |-> Nothing]
Idle == [pc |-> "idle", run |-> NoRun, read |-> NothingRead, todo |-> {}, cleared |-> {}]

Background == {"none", "calling", "completing", "failing", "over"}

\* A background execution holds what it compared its images with, and the outcome
\* while it checks the run.
Execution == [pc: Background, outcome: Outcome, against: [Variants -> SUBSET Image]]
NoOutcome == [blocking |-> FALSE, findings |-> {}, levels |-> {}, differs |-> FALSE]

ASSUME NothingAssumption == Nothing \notin Definition /\ Nothing \notin Ids
ASSUME DraftAssumption == Drafts \subseteq Definition
ASSUME OwnerAssumption ==
  /\ Instances \subseteq Instance /\ Sessions \subseteq Session \cup {Nothing}
  /\ Home \in [Tasks -> Projects \cup {Nothing}]
ASSUME AnswerAssumption == Answers \subseteq Answer
ASSUME BoundAssumption == MaxRuns \in Nat /\ MaxSaves \in Nat /\ MaxRestarts \in Nat

TypeOK ==
  /\ definitions \in [Definitions -> Definition \cup {Nothing}]
  /\ runs \in Seq(Run) /\ Len(runs) <= MaxRuns
  /\ baselines \in [Definitions \X Variants -> Image]
  /\ files \in [Definitions \X Variants -> Image]
  /\ done \subseteq Tasks
  /\ vouched \in [Tasks -> SUBSET Definitions]
  /\ call \in [Clients -> Call]
  /\ background \in [Ids -> Execution]
  /\ saves \in 0..MaxSaves /\ restarts \in 0..MaxRestarts

NotExecuted == [pc |-> "none", outcome |-> NoOutcome, against |-> NoImages]

Init ==
  /\ definitions = [d \in Definitions |-> Nothing]
  /\ runs = <<>>
  /\ baselines = [image \in Definitions \X Variants |-> Nothing]
  /\ files = [image \in Definitions \X Variants |-> Nothing]
  /\ done = {} /\ vouched = [t \in Tasks |-> {}]
  /\ call = [c \in Clients |-> Idle]
  /\ background = [r \in Ids |-> NotExecuted]
  /\ saves = 0 /\ restarts = 0

-----------------------------------------------------------------------------
(***************************************************************************)
(* Definitions.                                                            *)
(***************************************************************************)

Saved(d) == definitions[d] # Nothing
RunIds == DOMAIN runs

\* The steps have what the runner needs: a click its selector, a fill its value.
Translated(draft) == draft.steps = "complete"

\* The thresholds are ratios.
ValidPolicy(draft) == draft.policy = "in_range"

\* A definition has variants, steps of known kinds, and at most one image to
\* compare.
Acceptable(draft) ==
  draft.variants # {} /\ draft.steps # "unsupported" /\ draft.compared <= 1 /\ ValidPolicy(draft)

\* Its task, if it has one, belongs to its project.
InScope(draft) == draft.task # Nothing => Home[draft.task] = draft.project

\* An update does not move a definition to another project.
MaySave(d, draft) ==
  /\ Translated(draft) /\ Acceptable(draft) /\ InScope(draft)
  /\ Saved(d) => definitions[d].project = draft.project

\* The variants are replaced with the rest; no task is reopened.
WriteDefinition(d, draft) == definitions' = [definitions EXCEPT ![d] = draft]

-----------------------------------------------------------------------------
(***************************************************************************)
(* Runs.                                                                   *)
(***************************************************************************)

\* A task whose verification no longer stands is in review again.
ReopenTerminal(t) == done' = done \ {t}

\* The run that the idempotency key was already used for.
Existing(d, t, key) ==
  {r \in RunIds : key # Nothing /\ runs[r].definition = d /\ runs[r].task = t /\ runs[r].key = key}

\* The instance is that of the definition, runs for the task, and so does the
\* browser session, if there is one.
OwnersFit(def, t, instance, session) ==
  /\ instance.known
  /\ def.config => instance.config
  /\ instance.project = def.project /\ instance.task = t /\ instance.status = "running"
  /\ session # Nothing =>
       /\ session.known /\ session.project = def.project /\ session.status = "running"
       /\ session.task \in {t, Nothing}

MayQueue(d, t, instance, session) ==
  /\ Saved(d)
  /\ LET def == definitions[d] IN
       /\ def.status = "active"
       /\ Home[t] = def.project /\ def.task \in {t, Nothing}
       /\ OwnersFit(def, t, instance, session)

NewRun(d, t, key) ==
  [definition |-> d, task |-> t, key |-> key, status |-> "queued", blocking |-> FALSE,
   critical |-> FALSE, images |-> {}, comparisons |-> [v \in Variants |-> "none"],
   against |-> NoImages]

\* Queueing a required run takes the completion of its task back.
LeaveDone(d, t) == UNCHANGED done
ReopenIfRequired(d, t) == IF definitions[d].required THEN ReopenTerminal(t) ELSE UNCHANGED done

WriteQueue(d, t, key) ==
  /\ runs' = Append(runs, NewRun(d, t, key))
  /\ ReopenIfRequired(d, t)

StatusIs(r, some) == runs[r].status \in some

\* The variants of whose page a definition has an image compared.
ImagesOf(def) == IF def.compared = 1 THEN def.variants ELSE {}

\* Only a queued run can start, and it compares what its definition says then.
MayStartAgain(r) == StatusIs(r, {"queued", "running"})
MayStart(r) == StatusIs(r, {"queued"})

WriteStart(r) ==
  runs' = [runs EXCEPT ![r].status = "running",
                       ![r].images = ImagesOf(definitions[runs[r].definition])]

MayEnd(r) == StatusIs(r, {"queued", "running"})

WriteCancel(r) ==
  /\ runs' = [runs EXCEPT ![r].status = "cancelled"]
  /\ ReopenTerminal(runs[r].task)

WriteFailure(r) ==
  /\ runs' = [runs EXCEPT ![r].status = "error"]
  /\ ReopenTerminal(runs[r].task)

\* A background failure finds the run terminal, or ends it.
TryFail(r) == IF MayEnd(r) THEN WriteFailure(r) ELSE UNCHANGED <<runs, done>>

-----------------------------------------------------------------------------
(***************************************************************************)
(* Results.                                                                *)
(***************************************************************************)

\* An execution that failed or was cancelled is a required assertion that
\* failed, an accessibility error is critical, "warn" is a warning, and every
\* other type of a console message is its level.
Decoded(answer) ==
  [blocking |-> answer.failed \/ answer.status # "passed",
   findings |-> {IF f = "error" THEN "critical" ELSE "warning" : f \in answer.findings},
   levels   |-> {IF type = "warn" THEN "warning" ELSE type : type \in answer.console},
   differs  |-> answer.differs]

\* The levels that the storage knows.
Valid(outcome) == outcome.levels \subseteq {"debug", "info", "warning", "error", "critical"}

\* What the service reports of an image: it was unlike the file it found, or there
\* was none.  An image that was not taken is not reported.
Compared(r, outcome) ==
  [v \in Variants |->
     IF background[r].against[v] = {} THEN "none"
     ELSE IF Nothing \in background[r].against[v] THEN "missing_baseline"
     ELSE IF outcome.differs THEN "different" ELSE "matched"]

\* Critical accessibility findings block when the definition says so now.
Critical(r, outcome) ==
  "critical" \in outcome.findings /\ definitions[runs[r].definition].failOnAccessibility
Warned(r, outcome) ==
  \/ "warning" \in outcome.findings \cup outcome.levels
  \/ "critical" \in outcome.findings /\ ~Critical(r, outcome)

Unlike(comparisons) == \E v \in Variants : comparisons[v] \in {"different", "missing_baseline"}

FinalStatus(r, outcome, comparisons) ==
  IF outcome.blocking \/ Critical(r, outcome) THEN "failed"
  ELSE IF Unlike(comparisons) \/ Warned(r, outcome) THEN "needs_review" ELSE "passed"

MayCompleteLate(r, outcome) == Valid(outcome)
MayComplete(r, outcome) == Valid(outcome) /\ StatusIs(r, {"running"})

WriteOutcome(r, outcome) ==
  LET comparisons == Compared(r, outcome)
      final == FinalStatus(r, outcome, comparisons)
  IN /\ runs' = [runs EXCEPT ![r].status = final, ![r].blocking = outcome.blocking,
                             ![r].critical = Critical(r, outcome),
                             ![r].comparisons = comparisons,
                             ![r].against =
                               IF final = "passed" THEN background[r].against ELSE NoImages]
     /\ IF final = "passed" THEN UNCHANGED done ELSE ReopenTerminal(runs[r].task)

\* What blocks cannot be approved away.
MayReview(r, decision) ==
  /\ StatusIs(r, {"needs_review", "failed"})
  /\ decision = "approve" => ~runs[r].blocking /\ ~runs[r].critical

WriteReview(r, decision) ==
  /\ runs' = [runs EXCEPT ![r].status = IF decision = "approve" THEN "approved" ELSE "failed"]
  /\ IF decision = "approve" THEN UNCHANGED done ELSE ReopenTerminal(runs[r].task)

\* The image of a comparison replaces the active baseline of its variant.
WriteBaseline(r, v) ==
  /\ baselines' = [baselines EXCEPT ![<<runs[r].definition, v>>] = r]
  /\ runs' = [runs EXCEPT ![r].comparisons[v] = "approved"]

-----------------------------------------------------------------------------
(***************************************************************************)
(* What a completion requires, in task_planning.rs.                        *)
(***************************************************************************)

Latest(d, t) ==
  {r \in RunIds : /\ runs[r].definition = d /\ runs[r].task = t
                  /\ \A q \in RunIds : (runs[q].definition = d /\ runs[q].task = t) => q <= r}

RequiredOf(t) ==
  {d \in Definitions : /\ Saved(d) /\ definitions[d].project = Home[t]
                       /\ definitions[d].status = "active" /\ definitions[d].required
                       /\ definitions[d].task \in {t, Nothing}}

Verified(d, t) ==
  \E r \in Latest(d, t) :
    StatusIs(r, {"passed", "approved"}) /\ ~runs[r].blocking /\ ~runs[r].critical

HasBlockers(t) ==
  \/ \E d \in RequiredOf(t) : ~Verified(d, t)
  \/ \E d \in Definitions : \E r \in Latest(d, t) : runs[r].blocking \/ runs[r].critical

-----------------------------------------------------------------------------
(***************************************************************************)
(* Handlers.                                                               *)
(***************************************************************************)

Ready(c) == call[c] = Idle
At(c, pc) == call[c].pc = pc
Goto(c, pc, r) == call' = [call EXCEPT ![c] = [Idle EXCEPT !.pc = pc, !.run = r]]
Return(c) == call' = [call EXCEPT ![c] = Idle]
StillRows == UNCHANGED <<definitions, baselines, vouched, saves, restarts>>
StillTables == UNCHANGED <<definitions, baselines, files, vouched, saves, restarts>>

\* browser.verification.definition.create and .update
SaveDefinition(c, d, draft) ==
  /\ Ready(c) /\ saves < MaxSaves
  /\ MaySave(d, draft)
  /\ WriteDefinition(d, draft)
  /\ vouched' = [t \in Tasks |-> vouched[t] \ {d}]
  /\ saves' = saves + 1
  /\ UNCHANGED <<runs, baselines, files, done, call, background, restarts>>

\* browser.verification.run: a run that the key was used for is returned, and
\* started only if it is still queued.
QueueRun(c, d, t, key, instance, session) ==
  /\ Ready(c)
  /\ \/ \E r \in Existing(d, t, key) :
          /\ MayStart(r)
          /\ Goto(c, "queued", r)
          /\ UNCHANGED <<runs, done>>
     \/ /\ Existing(d, t, key) = {} /\ Len(runs) < MaxRuns
        /\ MayQueue(d, t, instance, session)
        /\ WriteQueue(d, t, key)
        /\ Goto(c, "queued", Len(runs) + 1)
  /\ StillTables /\ UNCHANGED background

\* The start is refused when another caller started or cancelled the run.
StartRun(c) ==
  LET r == call[c].run IN
  /\ At(c, "queued")
  /\ IF MayStart(r) THEN WriteStart(r) /\ Goto(c, "started", r)
     ELSE Return(c) /\ UNCHANGED runs
  /\ StillTables /\ UNCHANGED <<done, background>>

\* prepare_visual_baselines reads the active baselines of the definition,
ReadBaselines(c) ==
  LET r == call[c].run IN
  /\ At(c, "started") \/ At(c, "loaded")
  /\ call' = [call EXCEPT ![c].pc = IF @ = "started" THEN "installing" ELSE "replacing",
                          ![c].read = [v \in Variants |-> baselines[<<runs[r].definition, v>>]],
                          ![c].todo = IF At(c, "started") THEN runs[r].images ELSE @]
  /\ StillTables /\ UNCHANGED <<runs, done, background>>

\* The file of a variant is that of the definition, whichever run it is for.
FileOf(r, v) == <<runs[r].definition, v>>
Installing(c) == call[c].pc \in {"installing", "replacing"}

\* removes the file of each variant, if it exists,
ClearFile(c, v) ==
  LET file == FileOf(call[c].run, v) IN
  /\ Installing(c) /\ v \in call[c].todo \ call[c].cleared
  /\ files[file] # Nothing
  /\ files' = [files EXCEPT ![file] = Nothing]
  /\ call' = [call EXCEPT ![c].cleared = @ \cup {v}]
  /\ StillRows /\ UNCHANGED <<runs, done, background>>

\* and renames a copy of the baseline that was read to it, if there is one.
PutFile(c, v) ==
  LET file == FileOf(call[c].run, v) IN
  /\ Installing(c) /\ v \in call[c].todo
  /\ v \in call[c].cleared \/ files[file] = Nothing
  /\ files' = IF call[c].read[v] = Nothing THEN files
              ELSE [files EXCEPT ![file] = call[c].read[v]]
  /\ call' = [call EXCEPT ![c].todo = @ \ {v}]
  /\ StillRows /\ UNCHANGED <<runs, done, background>>

\* The execution is spawned when all files are in place,
SpawnRun(c) ==
  LET r == call[c].run IN
  /\ At(c, "installing") /\ call[c].todo = {}
  /\ background' = [background EXCEPT ![r].pc = "calling"]
  /\ Return(c)
  /\ StillTables /\ UNCHANGED <<runs, done>>

\* or a file cannot be written, and the run fails at once.
PrepareFails(c) ==
  /\ At(c, "started") \/ At(c, "installing")
  /\ TryFail(call[c].run)
  /\ Return(c)
  /\ StillTables /\ UNCHANGED background

\* browser.verification.cancel: the decision is durable before the runner hears
\* of it.
CancelRun(c, r) ==
  /\ Ready(c) /\ MayEnd(r)
  /\ WriteCancel(r)
  /\ Goto(c, "signal", r)
  /\ StillTables /\ UNCHANGED background

SignalRunner(c) ==
  /\ At(c, "signal")
  /\ Return(c)
  /\ StillTables /\ UNCHANGED <<runs, done, background>>

\* browser.verification.review
Review(c, r, decision) ==
  /\ Ready(c) /\ MayReview(r, decision)
  /\ WriteReview(r, decision)
  /\ StillTables /\ UNCHANGED <<call, background>>

\* browser.verification.baseline.approve
ApproveBaseline(c, r, v) ==
  /\ Ready(c) /\ runs[r].comparisons[v] # "none"
  /\ WriteBaseline(r, v)
  /\ Goto(c, "approved", r)
  /\ UNCHANGED <<definitions, files, done, vouched, background, saves, restarts>>

\* then reads the definition, as it is now, to prepare its baselines as well,
LoadDefinition(c) ==
  /\ At(c, "approved")
  /\ call' = [call EXCEPT ![c].pc = "loaded",
                          ![c].todo = ImagesOf(definitions[runs[call[c].run].definition])]
  /\ StillTables /\ UNCHANGED <<runs, done, background>>

\* and answers, when the files are in place or one of these steps failed.
AnswerApproval(c) ==
  /\ call[c].pc \in {"approved", "loaded", "replacing"}
  /\ Return(c)
  /\ StillTables /\ UNCHANGED <<runs, done, background>>

\* The part of a change of status that concerns browser verification.
CompleteTask(c, t) ==
  /\ Ready(c) /\ t \notin done /\ ~HasBlockers(t)
  /\ done' = done \cup {t}
  /\ vouched' = [vouched EXCEPT ![t] = RequiredOf(t)]
  /\ UNCHANGED <<definitions, runs, baselines, files, call, background, saves, restarts>>

-----------------------------------------------------------------------------
(***************************************************************************)
(* The background execution.                                               *)
(***************************************************************************)

InBackground(r, pc) == background[r].pc = pc
Onward(r, pc, outcome) ==
  background' = [background EXCEPT ![r].pc = pc, ![r].outcome = outcome]
End(r) == background' = [background EXCEPT ![r] = [NotExecuted EXCEPT !.pc = "over"]]
StillCalls == StillTables /\ UNCHANGED call

\* Mutation of LeavesBaseline: the default, "missing".
KeepsFirst(file, r) == files' = [files EXCEPT ![file] = IF @ = Nothing THEN r ELSE @]

\* updateBaseline is "never": a first image is reported, and not kept.
LeavesBaseline(file, r) == UNCHANGED files

\* The service compares an image with the file it finds, and again when it tries
\* a variant once more.
CaptureImage(r, v) ==
  /\ InBackground(r, "calling") /\ v \in runs[r].images
  /\ background' = [background EXCEPT ![r].against[v] = @ \cup {files[FileOf(r, v)]}]
  /\ LeavesBaseline(FileOf(r, v), r)
  /\ StillRows /\ UNCHANGED <<runs, done, call>>

\* Nothing passes if the first variant failed, and an image differs from a file.
Possible(r, answer) ==
  /\ answer.status = "passed" /\ runs[r].images # {} =>
       \E v \in runs[r].images : background[r].against[v] # {}
  /\ answer.differs => \E v \in Variants : background[r].against[v] \ {Nothing} # {}

\* The service answers; a run that is no longer running ignores the result.
RunnerAnswers(r, answer) ==
  /\ InBackground(r, "calling") /\ Possible(r, answer)
  /\ IF StatusIs(r, {"running"}) THEN Onward(r, "completing", Decoded(answer)) ELSE End(r)
  /\ StillCalls /\ UNCHANGED <<runs, done>>

\* The call fails or times out, or an artifact is not what its hash says.
RunnerFails(r) ==
  /\ InBackground(r, "calling")
  /\ IF StatusIs(r, {"running"}) THEN Onward(r, "failing", NoOutcome) ELSE End(r)
  /\ StillCalls /\ UNCHANGED <<runs, done>>

\* Between the check and this transaction the run may have been cancelled.  A
\* result that is refused, whatever for, counts as late.
CompleteRun(r) ==
  LET outcome == background[r].outcome IN
  /\ InBackground(r, "completing")
  /\ IF MayComplete(r, outcome) THEN WriteOutcome(r, outcome) ELSE UNCHANGED <<runs, done>>
  /\ End(r)
  /\ StillCalls

FailRun(r) ==
  /\ InBackground(r, "failing")
  /\ TryFail(r)
  /\ End(r)
  /\ StillCalls

\* The core dies with its handlers and executions; recovery interrupts the runs.
Restart ==
  /\ restarts < MaxRestarts
  /\ restarts' = restarts + 1
  /\ runs' = [r \in RunIds |->
                IF MayEnd(r) THEN [runs[r] EXCEPT !.status = "interrupted"] ELSE runs[r]]
  /\ call' = [c \in Clients |-> Idle]
  /\ background' = [r \in Ids |-> NotExecuted]
  /\ UNCHANGED <<definitions, baselines, files, done, vouched, saves>>

-----------------------------------------------------------------------------
Requests(c) ==
  \/ \E d \in Definitions, draft \in Drafts : SaveDefinition(c, d, draft)
  \/ \E d \in Definitions, t \in Tasks, key \in Keys \cup {Nothing},
        instance \in Instances, session \in Sessions :
       QueueRun(c, d, t, key, instance, session)
  \/ \E r \in RunIds : CancelRun(c, r)
  \/ \E r \in RunIds, decision \in {"approve", "reject"} : Review(c, r, decision)
  \/ \E r \in RunIds, v \in Variants : ApproveBaseline(c, r, v)
  \/ \E t \in Tasks : CompleteTask(c, t)

HandlerStep(c) ==
  \/ StartRun(c) \/ ReadBaselines(c)
  \/ \E v \in Variants : ClearFile(c, v)
  \/ \E v \in Variants : PutFile(c, v)
  \/ SpawnRun(c) \/ PrepareFails(c) \/ SignalRunner(c)
  \/ LoadDefinition(c) \/ AnswerApproval(c)

BackgroundStep(r) ==
  \/ \E answer \in Answers : RunnerAnswers(r, answer)
  \/ \E v \in Variants : CaptureImage(r, v)
  \/ RunnerFails(r) \/ CompleteRun(r) \/ FailRun(r)

Next ==
  \/ \E c \in Clients : Requests(c) \/ HandlerStep(c)
  \/ \E r \in RunIds : BackgroundStep(r)
  \/ Restart

Spec == Init /\ [][Next]_vars

\* A handler goes on, an execution is polled, and a call of the service is
\* answered or times out.
LiveSpec ==
  /\ Spec
  /\ \A c \in Clients : WF_vars(HandlerStep(c))
  /\ \A r \in Ids : WF_vars(r \in RunIds /\ BackgroundStep(r))

-----------------------------------------------------------------------------
(***************************************************************************)
(* Properties.                                                             *)
(***************************************************************************)

\* A completed task stays verified: whatever happens after the completion
\* (another run, a late result, a rejection, a restart), each definition the
\* completion relied on still has a latest run that passed or was approved
\* (has_completion_blockers, and reopen_terminal in every transaction that ends
\* a run).
CompletedTasksStayVerified ==
  \A t \in done : \A d \in vouched[t] : Verified(d, t)

\* Decisions stand: a run that was cancelled, interrupted, passed, approved or
\* in error never changes, and one that failed or needs review only changes by
\* a review ("a racing result can never overwrite the user's terminal
\* decision", browser_verification_rpc.rs).
DecisionsStand ==
  [][\A r \in RunIds :
       /\ StatusIs(r, EndedStatus \ {"failed", "needs_review"}) =>
            runs'[r].status = runs[r].status
       /\ StatusIs(r, {"failed", "needs_review"}) =>
            runs'[r].status \in {runs[r].status, "failed", "approved"}]_vars

\* A run that a client asks for again, or two clients ask for, is executed by
\* one of them (idempotency_key in queue_run, the status check of start).
RunsAreExecutedOnce ==
  \A r \in RunIds :
    Cardinality({c \in Clients : call[c].pc \in {"started", "installing"} /\ call[c].run = r})
      + (IF background[r].pc = "none" THEN 0 ELSE 1) <= 1

\* A run that passed without a review compared its images with nothing but images
\* of the same definition and variant that somebody has approved, although the
\* file they are in belongs to every run of the definition, and other runs are
\* prepared and carried out meanwhile ("Core owns baseline approval",
\* verification.ts).
PassedImagesWereApproved ==
  \A r \in RunIds : StatusIs(r, {"passed"}) =>
    \A v \in Variants : \A b \in runs[r].against[v] :
      /\ b \in RunIds /\ runs[b].definition = runs[r].definition
      /\ runs[b].comparisons[v] = "approved"

\* A run that was started ends, by its result, its failure, or a restart.
RunsEnd ==
  \A r \in Ids : (r \in RunIds /\ runs[r].status = "running") ~>
                 (r \in RunIds /\ runs[r].status \in EndedStatus)

\* Every image of a run that passed was compared.  It is not so with two variants
\* (README.md): the execution of the second may break off without a result.
PassedRunsComparedTheirImages ==
  \A r \in RunIds : StatusIs(r, {"passed"}) =>
    \A v \in runs[r].images : runs[r].against[v] # {}

=============================================================================
