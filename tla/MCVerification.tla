--------------------------- MODULE MCVerification ---------------------------
(***************************************************************************)
(* Values for the instances of Verification: one task of one project, that *)
(* has two commands of which the first is required.                        *)
(***************************************************************************)
EXTENDS Verification, TLC

CONSTANTS t1, p1, k1

OneTask == {t1}
OneProject == {p1}
NoHome == [s \in {} |-> p1]
NoDrafts == {}

\* A step that is to be done, and two of which the second waits for the first.
OpenStep == [status |-> "pending", after |-> {}]
DoneStep == [status |-> "completed", after |-> {}]
Plans == {<<OpenStep>>, <<DoneStep, [DoneStep EXCEPT !.after = {1}]>>}

\* Plans and criteria are looked at while there is no run, and runs while there
\* are neither plans nor criteria: a task completes by all three alone.
Apart ==
  \/ runs = <<>>
  \/ (\A t \in Tasks : plans[t] = <<>>) /\ (\A k \in Criteria : ~HasCriterion(k))

\* What detection finds, what the configuration names and what a call selects.
Both == {{1, 2}}
BothOrNone == {{}, {1, 2}}
TheFirst == {{1}}
TheSecond == {{2}}

\* Connections are interchangeable.
Symmetry == Permutations(Clients)

=============================================================================
