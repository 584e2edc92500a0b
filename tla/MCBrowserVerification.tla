----------------------- MODULE MCBrowserVerification -----------------------
(***************************************************************************)
(* Values for the instances of BrowserVerification: one project and one    *)
(* task, whose definition is saved as required, optional or disabled.      *)
(***************************************************************************)
EXTENDS BrowserVerification, TLC

CONSTANTS p1, t1

InTheProject == t1 :> p1

Required == [project |-> p1, task |-> Nothing, status |-> "active", config |-> TRUE,
             required |-> TRUE, failOnAccessibility |-> TRUE, steps |-> "complete",
             compared |-> 1, policy |-> "in_range", variants |-> Variants]
Lenient == [Required EXCEPT !.failOnAccessibility = FALSE, !.compared = 0, !.task = t1]

\* A click without a selector, and two images to compare.
Refused == {[Required EXCEPT !.steps = "incomplete"], [Required EXCEPT !.compared = 2]}

RequiredOrLenient == {Required, Lenient} \cup Refused
OneDraft == {Required}

\* The instance of the task, and one that has stopped.
Serving == [known |-> TRUE, config |-> TRUE, project |-> p1, task |-> t1, status |-> "running"]
TwoInstances == {Serving, [Serving EXCEPT !.status = "stopped"]}
OneInstance == {Serving}

Browsing == [known |-> TRUE, project |-> p1, task |-> Nothing, status |-> "running"]
NoneOrOne == {Nothing, Browsing}
NoSession == {Nothing}

Clean == [status |-> "passed", failed |-> FALSE, findings |-> {}, console |-> {"info"},
          differs |-> FALSE]

\* A clean page, an execution that was aborted, an accessibility error, and
\* another image, which is a required assertion that failed.
SilentAnswers == {Clean, [Clean EXCEPT !.status = "cancelled"],
                  [Clean EXCEPT !.findings = {"error"}], [Clean EXCEPT !.differs = TRUE, !.failed = TRUE]}

\* A page that writes to its console with console.log.
AnyAnswers == SilentAnswers \cup {[Clean EXCEPT !.console = {"log"}]}

Symmetry == Permutations(Clients)

\* The first run is asked for with a key and the second without one: what may happen
\* to a run without a key may happen to one with a key.
FirstHasKey == \A r \in RunIds : (r = 1) <=> (runs[r].key # Nothing)

=============================================================================
