--------------------------- MODULE MCTaskPlanning ---------------------------
(***************************************************************************)
(* Values for the instances of TaskPlanning: three tasks, one project, one *)
(* session of it.                                                          *)
(***************************************************************************)
EXTENDS TaskPlanning, TLC

CONSTANTS t1, t2, t3, p1, s1

ThreeTasks == {t1, t2, t3}
OneSession == {s1}
InTheFirst == s1 :> p1

\* The second step of a plan comes after the first, after itself, or after a
\* third that is not there.
Second(needs) == <<[status |-> "pending", after |-> {}],
                   [status |-> "pending", after |-> needs]>>
Plans == {Second({1}), Second({2}), Second({3})}

\* Plans are looked at while one task is there, relations while there is no plan.
Apart ==
  \/ \A t \in Tasks : plans[t] = <<>>
  \/ \E t \in Tasks : \A u \in Tasks \ {t} : ~Exists(u)

Symmetry == Permutations(Tasks)

=============================================================================
