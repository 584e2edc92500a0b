------------------------------ MODULE FileWatch ------------------------------
(***************************************************************************)
(* The watch on a project folder (retcon-filesystem/src/watch.rs): what    *)
(* the operating system reports of the files is merged by path until 150   *)
(* milliseconds are quiet, and told then, with the revision that each      *)
(* file has at that moment.  A revision is the digest of the content, so   *)
(* it is modelled by the content.  Time is not modelled: the quiet window  *)
(* may end between any two reports.                                        *)
(***************************************************************************)
EXTENDS Naturals, Sequences

CONSTANTS
  Paths,       \* the files of the folder
  Contents,    \* what a file may contain
  Nothing,     \* no file, no other name
  MaxReports   \* bounds the reports that have not been looked at

ASSUME NothingAssumption == Nothing \notin Paths \cup Contents
ASSUME ReportsAssumption == MaxReports \in Nat

VARIABLES
  disk,      \* the folder
  watching,  \* there is a watcher and its worker
  raw,       \* reports on their way to the worker
  pending,   \* the worker's changes of the paths
  told       \* what the client was told of each path last

watchVars == <<watching, raw, pending, told>>
vars == <<disk, watchVars>>

Kinds == {"created", "modified", "renamed", "deleted"}

Change == [path: Paths, previous: Paths \cup {Nothing}, kind: Kinds]
NoChange == [previous |-> Nothing, kind |-> "none"]

\* What a client has been told of a path: its revision, and that it is gone.
News == [revision: Contents \cup {Nothing}, gone: BOOLEAN]

TypeOK ==
  /\ disk \in [Paths -> Contents \cup {Nothing}]
  /\ watching \in BOOLEAN
  /\ raw \in Seq(Seq(Change))
  /\ pending \in [Paths -> [previous: Paths \cup {Nothing}, kind: Kinds \cup {"none"}]]
  /\ told \in [Paths -> News]

-----------------------------------------------------------------------------
(***************************************************************************)
(* The worker.                                                             *)
(***************************************************************************)

Exists(p) == disk[p] # Nothing

\* Mutation of MergedKind: a deletion is not undone.
DeletionStays(existing, incoming) ==
  IF "deleted" \in {existing, incoming} THEN "deleted" ELSE "modified"

\* merge_change_kind.
MergedKind(existing, incoming) ==
  IF incoming = "deleted" THEN "deleted"
  ELSE IF existing = "created" THEN "created"
  ELSE IF "renamed" \in {existing, incoming} THEN "renamed"
  ELSE IF incoming = "created" THEN "created"
  ELSE "modified"

\* One half of a rename whose other half is not known.
IsHalf(change) == change.kind = "renamed" /\ change.previous = Nothing

\* The pending halves that a half report of path p may be paired with.
Counterparts(changes, p) ==
  {q \in Paths : IsHalf(changes[q]) /\ Exists(q) # Exists(p)}

\* The map with a change put into it.
Put(changes, p, previous, kind) ==
  [changes EXCEPT ![p] =
     IF @.kind = "none" THEN [previous |-> previous, kind |-> kind]
     ELSE [previous |-> IF previous # Nothing THEN previous ELSE @.previous,
           kind |-> MergedKind(@.kind, kind)]]

\* merge_change: the maps that it may leave, as the order of a HashMap decides.
Merged(changes, c) ==
  IF ~IsHalf(c) \/ Counterparts(changes, c.path) = {}
  THEN {Put(changes, c.path, c.previous, c.kind)}
  ELSE {IF Exists(c.path)
        THEN Put([changes EXCEPT ![q] = NoChange], c.path, q, c.kind)
        ELSE [changes EXCEPT ![q].previous = c.path] : q \in Counterparts(changes, c.path)}

\* The worker takes the changes of a report.
Deliver ==
  /\ watching /\ raw # <<>>
  /\ LET report == Head(raw)
     IN \E first \in Merged(pending, report[1]) :
          pending' \in IF Len(report) = 1 THEN {first} ELSE Merged(first, report[2])
  /\ raw' = Tail(raw)
  /\ UNCHANGED <<disk, watching, told>>

\* Has a pending change of some path the previous path p?
IsPrevious(p) == \E q \in Paths : pending[q].kind # "none" /\ pending[q].previous = p

\* What the client knows of p when all that is pending has been told.
Told(p) ==
  IF pending[p].kind # "none"
  THEN LET revision == IF pending[p].kind = "deleted" THEN Nothing ELSE disk[p]
       IN [revision |-> revision, gone |-> revision = Nothing \/ IsPrevious(p)]
  ELSE [told[p] EXCEPT !.gone = @ \/ IsPrevious(p)]

\* The window was quiet: everything pending is told.
EmitPending ==
  /\ watching /\ \E p \in Paths : pending[p].kind # "none"
  /\ told' = [p \in Paths |-> Told(p)]
  /\ pending' = [p \in Paths |-> NoChange]
  /\ UNCHANGED <<disk, watching, raw>>

-----------------------------------------------------------------------------
(***************************************************************************)
(* The registry, with the one watch of a client, who reads the files when  *)
(* it has the watch.                                                       *)
(***************************************************************************)

\* file.watch; a watch of the same name is dropped with what it has pending.
Watch ==
  /\ watching' = TRUE
  /\ raw' = <<>>
  /\ pending' = [p \in Paths |-> NoChange]
  /\ told' = [p \in Paths |-> [revision |-> disk[p], gone |-> ~Exists(p)]]
  /\ UNCHANGED disk

\* file.unwatch, and the end of the core.
Unwatch ==
  /\ watching
  /\ watching' = FALSE
  /\ raw' = <<>>
  /\ pending' = [p \in Paths |-> NoChange]
  /\ UNCHANGED <<disk, told>>

-----------------------------------------------------------------------------
(***************************************************************************)
(* The folder and the reports of the operating system (external), as       *)
(* normalize_event reads them.                                             *)
(***************************************************************************)

Half(p) == [path |-> p, previous |-> Nothing, kind |-> "renamed"]
Single(p, kind) == <<[path |-> p, previous |-> Nothing, kind |-> kind]>>

\* The ways to report that p became q: its halves one by one or in one report,
\* the pair, or both.
MoveReports(p, q) ==
  LET pair == <<[path |-> q, previous |-> p, kind |-> "renamed"]>>
  IN {<< <<Half(p)>>, <<Half(q)>> >>, << <<Half(p), Half(q)>> >>, << pair >>,
      << <<Half(p)>>, <<Half(q)>>, pair >>}

\* The ways to report that a file from elsewhere, or a file of the core's own
\* that is_internal_temporary hides, took the place of p; and that p went away.
ArrivalReports(p) == {<< <<Half(p)>> >>, << Single(p, "created") >>,
                      << <<Half(p)>>, Single(p, "created") >>}
DepartureReports(p) == {<< <<Half(p)>> >>, << Single(p, "deleted") >>,
                        << <<Half(p)>>, Single(p, "deleted") >>}

\* The watcher, if there is one, has something to report: MaxReports bounds what
\* is on its way, beside the reports of a single change.
Report(reports) ==
  /\ IF watching
     THEN /\ raw = <<>> \/ Len(raw) + Len(reports) <= MaxReports
          /\ raw' = raw \o reports
     ELSE UNCHANGED raw
  /\ UNCHANGED <<watching, pending, told>>

\* Somebody writes a file in place, removes one, moves one within the folder, or
\* moves one in or out.
WriteFile(p, content) ==
  /\ content # disk[p]
  /\ disk' = [disk EXCEPT ![p] = content]
  /\ Report(<<Single(p, IF Exists(p) THEN "modified" ELSE "created")>>)

RemoveFile(p) ==
  /\ Exists(p)
  /\ disk' = [disk EXCEPT ![p] = Nothing]
  /\ Report(<<Single(p, "deleted")>>)

MoveFile(p, q) ==
  /\ p # q /\ Exists(p)
  /\ disk' = [disk EXCEPT ![p] = Nothing, ![q] = disk[p]]
  /\ \E reports \in MoveReports(p, q) : Report(reports)

ReplaceFile(p, content) ==
  /\ disk' = [disk EXCEPT ![p] = content]
  /\ \E reports \in ArrivalReports(p) : Report(reports)

TakeAway(p) ==
  /\ Exists(p)
  /\ disk' = [disk EXCEPT ![p] = Nothing]
  /\ \E reports \in DepartureReports(p) : Report(reports)

Outside ==
  \/ \E p \in Paths, content \in Contents : WriteFile(p, content) \/ ReplaceFile(p, content)
  \/ \E p \in Paths : RemoveFile(p) \/ TakeAway(p)
  \/ \E p, q \in Paths : MoveFile(p, q)

Init ==
  /\ disk \in [Paths -> Contents \cup {Nothing}]
  /\ watching = FALSE
  /\ raw = <<>>
  /\ pending = [p \in Paths |-> NoChange]
  /\ told = [p \in Paths |-> [revision |-> disk[p], gone |-> ~Exists(p)]]

Next == Outside \/ Deliver \/ EmitPending \/ Watch \/ Unwatch

Spec == Init /\ [][Next]_vars

-----------------------------------------------------------------------------
(***************************************************************************)
(* Properties.                                                             *)
(***************************************************************************)

\* Nothing is on its way to the client.
Quiet == watching /\ raw = <<>> /\ \A p \in Paths : pending[p].kind = "none"

\* When nothing is on its way, a client knows the files that are there: each was
\* last told with the revision it has, whatever was merged, paired or read late
\* in between (merge_change, run_debouncer).
WatchersCatchUp == Quiet => \A p \in Paths : Exists(p) => told[p].revision = disk[p]

\* "Payload emitted when a watched path changes" (FileChangeEvent): a file that is
\* not there was told to be gone, by its own change or as the previous path of a
\* rename.  It is not, if another file follows it to where it was moved before the
\* window ends: merge_change keeps one previous path, the last.
GoneFilesAreTold == Quiet => \A p \in Paths : ~Exists(p) => told[p].gone

=============================================================================
