---------------------------- MODULE MCApprovals ----------------------------
(***************************************************************************)
(* Values for the instances of Approvals: one request of a method.         *)
(***************************************************************************)
EXTENDS Approvals, TLC

CONSTANTS f1, p1, p2

OneRequest == {f1}

OneOfThatMethod == f1 :> "file.write"

\* The path of the request is imported as a project, or cannot be resolved.
ItMoves == f1 :> {NoProject, p1}

OneMethod == {"file.write"}

\* A rule that denies everything, everywhere.
DenyRule == {[effect |-> "deny", project |-> NoProject, methods |-> OneMethod,
              origin |-> NoApproval]}

\* A caller that names the other project when it remembers.
ThreeChoices ==
  {[decision |-> "approved", remember |-> "once",   project |-> NoProject],
   [decision |-> "approved", remember |-> "always", project |-> p2],
   [decision |-> "denied",   remember |-> "once",   project |-> NoProject]}

TwoProjects == {p1, p2}

\* Connections are interchangeable.
Symmetry == Permutations(Clients)

=============================================================================
