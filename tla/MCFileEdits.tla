----------------------------- MODULE MCFileEdits -----------------------------
(***************************************************************************)
(* Values for the instances of FileEdits.                                  *)
(***************************************************************************)
EXTENDS FileEdits, TLC

CONSTANTS v1, v2

Versions == {v1, v2}
Anything == Versions \cup {Absent, Folder}

Symmetry == Permutations(Clients) \cup Permutations(Versions)

=============================================================================
