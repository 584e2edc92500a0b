-------------------------- MODULE CoreParts_proofs --------------------------
(***************************************************************************)
(* Proofs about FileWatch, Terminals and CoreStorage, which share no state *)
(* (MCCoreParts), and about FileEdits, which shares none with them, for    *)
(* any files, terminals, connections, cores, tools and bounds: a watcher   *)
(* catches up with the files that are there; a terminal ends once, and     *)
(* what runs is attended; the lock guards discovery, no version runs ahead *)
(* of the tables, and where an open file cannot be renamed, work that is   *)
(* served is kept; a save replaces what it names, a restore spares other   *)
(* work, and a checkpoint keeps what it needs.                             *)
(***************************************************************************)
EXTENDS FileWatch, Terminals, CoreStorage, FileEdits, SequenceTheorems, TLAPS

-----------------------------------------------------------------------------
(***************************************************************************)
(* The watch: what reports say.                                            *)
(***************************************************************************)

\* A report is one change, or two halves of a rename.
IsReport(x) ==
  /\ x \in Seq(Change)
  /\ Len(x) = 1 \/ (Len(x) = 2 /\ x[1].kind = "renamed" /\ x[2].kind = "renamed")

\* It says of a path that something has come about, or that it is gone.
Speaks(report, p) == \E j \in DOMAIN report : report[j].path = p /\ report[j].kind # "deleted"
Buries(report, p) == \E j \in DOMAIN report : report[j].path = p /\ report[j].kind = "deleted"

\* Of a file that is there, a report that it is gone is followed by another, and what
\* the client would be told amiss is on its way.
Followed(p) ==
  \A i \in DOMAIN raw : Buries(raw[i], p) => \E k \in DOMAIN raw : i < k /\ Speaks(raw[k], p)

Amiss(p) ==
  pending[p].kind = "deleted" \/ (pending[p].kind = "none" /\ told[p].revision # disk[p])

Tracked(p) ==
  Exists(p) => Followed(p) /\ (Amiss(p) => \E k \in DOMAIN raw : Speaks(raw[k], p))

WatchInv ==
  /\ TypeOK
  /\ \A i \in DOMAIN raw : IsReport(raw[i])
  /\ watching => \A p \in Paths : Tracked(p)

\* What a path may have been called before.
OtherNames == Paths \cup {Nothing}
PendingRow == [previous: OtherNames, kind: Kinds \cup {"none"}]

-----------------------------------------------------------------------------
(***************************************************************************)
(* Changes that are merged.                                                *)
(***************************************************************************)

\* Whatever has been merged, only a deletion leaves one.
LEMMA MergedKinds ==
  ASSUME NEW existing \in Kinds, NEW incoming \in Kinds
  PROVE  /\ MergedKind(existing, incoming) \in Kinds
         /\ MergedKind(existing, incoming) = "deleted" <=> incoming = "deleted"
BY DEF MergedKind, Kinds

\* Put changes one entry of the map.
LEMMA PutElsewhere ==
  ASSUME NEW changes \in [Paths -> PendingRow], NEW p \in Paths, NEW previous, NEW kind
  PROVE  \A x \in Paths : x # p => Put(changes, p, previous, kind)[x] = changes[x]
BY DEF Put

\* What Put does to that entry.
LEMMA PutShape ==
  ASSUME NEW changes \in [Paths -> PendingRow], NEW p \in Paths,
         NEW previous \in OtherNames, NEW kind \in Kinds
  PROVE  /\ Put(changes, p, previous, kind) \in [Paths -> PendingRow]
         /\ Put(changes, p, previous, kind)[p].kind # "none"
         /\ Put(changes, p, previous, kind)[p].kind = "deleted" <=> kind = "deleted"
<1> DEFINE q == IF changes[p].kind = "none" THEN [previous |-> previous, kind |-> kind]
                ELSE [previous |-> IF previous # Nothing THEN previous ELSE changes[p].previous,
                      kind |-> MergedKind(changes[p].kind, kind)]
<1>1. /\ q \in PendingRow /\ q.kind # "none"
      /\ q.kind = "deleted" <=> kind = "deleted"
  <2>1. changes[p] \in PendingRow
    OBVIOUS
  <2>2. CASE changes[p].kind = "none"
    BY <2>2 DEF PendingRow, Kinds
  <2>3. CASE changes[p].kind # "none"
    <3>1. changes[p].kind \in Kinds
      BY <2>1, <2>3 DEF PendingRow
    <3>2. /\ MergedKind(changes[p].kind, kind) \in Kinds
          /\ MergedKind(changes[p].kind, kind) = "deleted" <=> kind = "deleted"
      BY <3>1, MergedKinds
    <3> QED
      BY <2>1, <2>3, <3>2 DEF PendingRow, Kinds, OtherNames
  <2> QED
    BY <2>2, <2>3
<1>2. Put(changes, p, previous, kind) = [changes EXCEPT ![p] = q]
  BY DEF Put
<1> HIDE DEF q
<1> QED
  BY <1>1, <1>2

\* What merging a change does to the changes of a file that is there: only a change of
\* this file counts.
LEMMA MergedShape ==
  ASSUME NEW changes \in [Paths -> PendingRow], NEW c \in Change, NEW new \in Merged(changes, c)
  PROVE  /\ new \in [Paths -> PendingRow]
         /\ \A p \in Paths : Exists(p) =>
              IF c.path = p
              THEN new[p].kind # "none" /\ (new[p].kind = "deleted" <=> c.kind = "deleted")
              ELSE new[p].kind = changes[p].kind
<1>0. c.path \in Paths /\ c.previous \in OtherNames /\ c.kind \in Kinds
  BY DEF Change, OtherNames
<1>1. CASE ~IsHalf(c) \/ Counterparts(changes, c.path) = {}
  <2>1. new = Put(changes, c.path, c.previous, c.kind)
    BY <1>1 DEF Merged
  <2>3. /\ new \in [Paths -> PendingRow]
        /\ \A x \in Paths : x # c.path => new[x] = changes[x]
        /\ new[c.path].kind # "none"
        /\ new[c.path].kind = "deleted" <=> c.kind = "deleted"
    <3>1. \A x \in Paths : x # c.path => new[x] = changes[x]
      BY <1>0, <2>1, PutElsewhere
    <3>2. /\ new \in [Paths -> PendingRow] /\ new[c.path].kind # "none"
          /\ new[c.path].kind = "deleted" <=> c.kind = "deleted"
      BY <1>0, <2>1, PutShape
    <3> QED
      BY <3>1, <3>2
  <2> QED
    BY <1>0, <2>3
<1>2. CASE ~(~IsHalf(c) \/ Counterparts(changes, c.path) = {})
  <2>1. PICK q \in Counterparts(changes, c.path) :
          new = IF Exists(c.path)
                THEN Put([changes EXCEPT ![q] = NoChange], c.path, q, c.kind)
                ELSE [changes EXCEPT ![q].previous = c.path]
    BY <1>2 DEF Merged
  <2>2. q \in Paths /\ Exists(q) # Exists(c.path)
    BY <2>1 DEF Counterparts
  <2>3. CASE Exists(c.path)
    <3> DEFINE rest == [changes EXCEPT ![q] = NoChange]
    <3>1. NoChange \in PendingRow
      BY DEF NoChange, PendingRow, OtherNames
    <3>2. rest \in [Paths -> PendingRow] /\ \A x \in Paths : x # q => rest[x] = changes[x]
      BY <2>2, <3>1
    <3>3. new = Put(rest, c.path, q, c.kind)
      BY <2>1, <2>3
    <3> HIDE DEF rest
    <3>4. /\ new \in [Paths -> PendingRow]
          /\ \A x \in Paths : x # c.path => new[x] = rest[x]
          /\ new[c.path].kind # "none"
          /\ new[c.path].kind = "deleted" <=> c.kind = "deleted"
      BY <1>0, <2>2, <3>2, <3>3, PutElsewhere, PutShape DEF OtherNames
    <3>5. \A p \in Paths : Exists(p) => p # q
      BY <2>2, <2>3 DEF Exists
    <3> QED
      BY <3>2, <3>4, <3>5
  <2>4. CASE ~Exists(c.path)
    <3> DEFINE row == [changes[q] EXCEPT !.previous = c.path]
    <3>1. row \in PendingRow /\ row.kind = changes[q].kind
      BY <1>0, <2>2 DEF PendingRow, OtherNames
    <3>2. new = [changes EXCEPT ![q] = row]
      BY <2>1, <2>4
    <3> HIDE DEF row
    <3> QED
      BY <2>2, <2>4, <3>1, <3>2
  <2> QED
    BY <2>3, <2>4
<1> QED
  BY <1>1, <1>2

\* What a report that is delivered does to them.
LEMMA DeliveredShape ==
  ASSUME pending \in [Paths -> PendingRow], NEW report, IsReport(report),
         NEW first \in Merged(pending, report[1]),
         NEW new \in IF Len(report) = 1 THEN {first} ELSE Merged(first, report[2])
  PROVE  /\ new \in [Paths -> PendingRow]
         /\ \A p \in Paths : Exists(p) =>
              IF Speaks(report, p) THEN new[p].kind \notin {"none", "deleted"}
              ELSE Buries(report, p) \/ new[p].kind = pending[p].kind
<1>1. report \in Seq(Change) /\ DOMAIN report = 1..Len(report) /\ report[1] \in Change
  BY ElementOfSeq, LenProperties DEF IsReport
<1>2. /\ first \in [Paths -> PendingRow]
      /\ \A p \in Paths : Exists(p) =>
           IF report[1].path = p
           THEN first[p].kind # "none" /\ (first[p].kind = "deleted" <=> report[1].kind = "deleted")
           ELSE first[p].kind = pending[p].kind
  BY <1>1, MergedShape
<1>3. CASE Len(report) = 1
  BY <1>1, <1>2, <1>3 DEF Speaks, Buries
<1>4. CASE Len(report) = 2 /\ report[1].kind = "renamed" /\ report[2].kind = "renamed"
  <2>1. report[2] \in Change /\ new \in Merged(first, report[2])
    <3>1. 2 \in 1..Len(report) /\ Len(report) # 1
      BY <1>4
    <3>2. report[2] \in Change
      BY <1>1, <3>1, ElementOfSeq
    <3>3. new \in Merged(first, report[2])
      BY <3>1
    <3> QED
      BY <3>2, <3>3
  <2>2. /\ new \in [Paths -> PendingRow]
        /\ \A p \in Paths : Exists(p) =>
             IF report[2].path = p
             THEN new[p].kind # "none" /\ (new[p].kind = "deleted" <=> report[2].kind = "deleted")
             ELSE new[p].kind = first[p].kind
    BY <1>2, <2>1, MergedShape
  <2>3. DOMAIN report = {1, 2}
    BY <1>1, <1>4
  <2> QED
    BY <1>2, <1>4, <2>2, <2>3 DEF Speaks, Buries
<1> QED
  BY <1>3, <1>4 DEF IsReport

-----------------------------------------------------------------------------
(***************************************************************************)
(* The steps of the watch.                                                 *)
(***************************************************************************)

\* Reports that are on their way, of what happened to the files.
LEMMA ReportKeeps ==
  ASSUME WatchInv, NEW reports, Report(reports),
         disk' \in [Paths -> Contents \cup {Nothing}],
         reports \in Seq(Seq(Change)), \A k \in DOMAIN reports : IsReport(reports[k]),
         \A p \in Paths : Exists(p)' /\ disk'[p] # disk[p] =>
           \E k \in DOMAIN reports : Speaks(reports[k], p),
         \A p \in Paths, k \in DOMAIN reports : Exists(p)' => ~Buries(reports[k], p)
  PROVE  WatchInv'
<1>1. UNCHANGED <<watching, pending, told>> /\ raw \in Seq(Seq(Change))
  BY DEF Report, WatchInv, TypeOK
<1>2. CASE ~watching
  BY <1>1, <1>2 DEF Report, WatchInv, TypeOK
<1>3. CASE watching
  <2>1. raw' = raw \o reports
    BY <1>3 DEF Report
  <2>2. /\ raw' \in Seq(Seq(Change)) /\ Len(raw') = Len(raw) + Len(reports)
        /\ \A i \in 1..Len(raw) : raw'[i] = raw[i]
        /\ \A i \in 1..Len(reports) : raw'[Len(raw) + i] = reports[i]
    BY <1>1, <2>1, ConcatProperties
  <2>3. /\ DOMAIN raw = 1..Len(raw) /\ DOMAIN reports = 1..Len(reports)
        /\ DOMAIN raw' = 1..(Len(raw) + Len(reports)) /\ Len(raw) \in Nat /\ Len(reports) \in Nat
    BY <1>1, <2>2, LenProperties
  <2> DEFINE n == Len(raw)
             m == Len(reports)
  <2>4. \A i \in 1..(n + m) : i \in 1..n \/ \E k \in 1..m : i = n + k
    <3> TAKE i \in 1..(n + m)
    <3>1. CASE i \in 1..n
      BY <3>1
    <3>2. CASE i \notin 1..n
      <4>1. i - n \in 1..m /\ i = n + (i - n)
        BY <2>3, <3>2
      <4> QED
        BY <4>1
    <3> QED
      BY <3>1, <3>2
  <2> HIDE DEF n, m
  <2>5. \A i \in DOMAIN raw' : IsReport(raw'[i])
    <3> SUFFICES ASSUME NEW i \in 1..(n + m) PROVE IsReport(raw'[i])
      BY <2>3 DEF n, m
    <3>1. CASE i \in 1..n
      BY <2>2, <2>3, <3>1 DEF WatchInv, n
    <3>2. ASSUME NEW k \in 1..m, i = n + k
          PROVE  IsReport(raw'[i])
      BY <2>2, <2>3, <3>2 DEF n, m
    <3> QED
      BY <2>4, <3>1, <3>2
  <2>7. ASSUME NEW p \in Paths, Exists(p)', NEW i \in DOMAIN raw', Buries(raw'[i], p)
        PROVE  i \in 1..n /\ i \in DOMAIN raw /\ Buries(raw[i], p)
    <3>1. i \in 1..(n + m)
      BY <2>3 DEF n, m
    <3>2. ASSUME NEW k \in 1..m, i = n + k
          PROVE  FALSE
      <4>1. raw'[i] = reports[k] /\ k \in DOMAIN reports
        BY <2>2, <2>3, <3>2 DEF n, m
      <4> QED
        BY <2>7, <4>1
    <3>3. i \in 1..n
      BY <2>4, <3>1, <3>2
    <3> QED
      BY <2>2, <2>3, <2>7, <3>3 DEF n
  <2>6. ASSUME NEW p \in Paths, Exists(p)'
        PROVE  Tracked(p)'
    <3>1. CASE disk'[p] # disk[p]
      <4>1. PICK k \in 1..m : Speaks(reports[k], p)
        BY <2>3, <2>6, <3>1 DEF m
      <4>2. n + k \in DOMAIN raw' /\ Speaks(raw'[n + k], p)
        BY <2>2, <2>3, <4>1 DEF n, m
      <4>3. \A i \in DOMAIN raw' : Buries(raw'[i], p) => i < n + k
        <5> SUFFICES ASSUME NEW i \in DOMAIN raw', Buries(raw'[i], p)
                     PROVE  i < n + k
          OBVIOUS
        <5>1. i \in 1..n
          BY <2>6, <2>7
        <5> QED
          BY <2>3, <5>1 DEF n, m
      <4> QED
        BY <4>2, <4>3 DEF Tracked, Followed
    <3>2. CASE disk'[p] = disk[p]
      <4>1. Tracked(p) /\ Exists(p)
        BY <1>3, <2>6, <3>2 DEF WatchInv, Exists
      <4>2. \A i \in DOMAIN raw' : Buries(raw'[i], p) => i \in DOMAIN raw /\ Buries(raw[i], p)
        BY <2>6, <2>7
      <4>3. \A k \in DOMAIN raw : Speaks(raw[k], p) => k \in DOMAIN raw' /\ Speaks(raw'[k], p)
        <5> TAKE k \in DOMAIN raw
        <5>1. k \in 1..Len(raw) /\ k \in DOMAIN raw' /\ raw'[k] = raw[k]
          BY <2>2, <2>3
        <5> QED
          BY <5>1
      <4>4. Followed(p)'
        BY <4>1, <4>2, <4>3 DEF Tracked, Followed
      <4>5. Amiss(p)' => \E k \in DOMAIN raw' : Speaks(raw'[k], p)
        BY <1>1, <3>2, <4>1, <4>3 DEF Tracked, Amiss
      <4> QED
        BY <4>4, <4>5 DEF Tracked
    <3> QED
      BY <3>1, <3>2
  <2> QED
    BY <1>1, <2>2, <2>5, <2>6 DEF WatchInv, TypeOK, Tracked
<1> QED
  BY <1>2, <1>3

\* Reports of one change, of one half, of both halves, and of a pair.
LEMMA ReportShapes ==
  ASSUME NEW p \in Paths
  PROVE  /\ \A kind \in Kinds : /\ IsReport(Single(p, kind))
                                /\ Speaks(Single(p, kind), p) <=> kind # "deleted"
                                /\ \A x \in Paths : x # p => ~Buries(Single(p, kind), x)
                                /\ kind # "deleted" => ~Buries(Single(p, kind), p)
         /\ IsReport(<<Half(p)>>) /\ Speaks(<<Half(p)>>, p)
         /\ \A x \in Paths : ~Buries(<<Half(p)>>, x)
<1>1. \A kind \in Kinds : [path |-> p, previous |-> Nothing, kind |-> kind] \in Change
  BY DEF Change
<1>2. Half(p) = [path |-> p, previous |-> Nothing, kind |-> "renamed"] /\ Half(p) \in Change
  BY <1>1 DEF Half, Kinds
<1>3. ASSUME NEW c \in Change
      PROVE  /\ <<c>> \in Seq(Change) /\ Len(<<c>>) = 1 /\ DOMAIN <<c>> = {1} /\ <<c>>[1] = c
             /\ IsReport(<<c>>)
  <2>1. <<c>> \in Seq(Change) /\ Len(<<c>>) = 1 /\ DOMAIN <<c>> = {1} /\ <<c>>[1] = c
    BY <1>3
  <2> QED
    BY <2>1 DEF IsReport
<1>4. ASSUME NEW c \in Change
      PROVE  /\ Speaks(<<c>>, c.path) <=> c.kind # "deleted"
             /\ \A x : Buries(<<c>>, x) <=> x = c.path /\ c.kind = "deleted"
  BY <1>3 DEF Speaks, Buries
<1>5. ASSUME NEW kind \in Kinds
      PROVE  /\ IsReport(Single(p, kind))
             /\ Speaks(Single(p, kind), p) <=> kind # "deleted"
             /\ \A x \in Paths : x # p => ~Buries(Single(p, kind), x)
             /\ kind # "deleted" => ~Buries(Single(p, kind), p)
  <2> DEFINE c == [path |-> p, previous |-> Nothing, kind |-> kind]
  <2>1. c \in Change /\ c.path = p /\ c.kind = kind /\ Single(p, kind) = <<c>>
    BY <1>1 DEF Single
  <2> HIDE DEF c
  <2> QED
    BY <1>3, <1>4, <2>1
<1>6. IsReport(<<Half(p)>>) /\ Speaks(<<Half(p)>>, p) /\ \A x \in Paths : ~Buries(<<Half(p)>>, x)
  <2>1. Half(p).path = p /\ Half(p).kind = "renamed"
    BY <1>2
  <2> QED
    BY <1>2, <1>3, <1>4, <2>1
<1> QED
  BY <1>5, <1>6

\* What programs do to the files.
LEMMA OutsideKeeps ==
  ASSUME WatchInv, Outside
  PROVE  WatchInv'
<1>0. disk \in [Paths -> Contents \cup {Nothing}]
  BY DEF WatchInv, TypeOK
<1>1. ASSUME NEW r, IsReport(r),
             \A p \in Paths : Exists(p)' /\ disk'[p] # disk[p] => Speaks(r, p),
             \A p \in Paths : Exists(p)' => ~Buries(r, p),
             disk' \in [Paths -> Contents \cup {Nothing}], Report(<<r>>)
      PROVE  WatchInv'
  <2> DEFINE reports == <<r>>
  <2>1. r \in Seq(Change)
    BY <1>1 DEF IsReport
  <2>2. /\ reports \in Seq(Seq(Change)) /\ DOMAIN reports = {1}
        /\ reports[1] = r
    BY <2>1
  <2>3. Report(reports)
    BY <1>1
  <2> HIDE DEF reports
  <2>4. \A k \in DOMAIN reports : IsReport(reports[k])
    BY <1>1, <2>2
  <2>5. \A p \in Paths : Exists(p)' /\ disk'[p] # disk[p] => \E k \in DOMAIN reports : Speaks(reports[k], p)
    BY <1>1, <2>2
  <2>6. \A p \in Paths, k \in DOMAIN reports : Exists(p)' => ~Buries(reports[k], p)
    BY <1>1, <2>2
  <2> QED
    BY <1>1, <2>2, <2>3, <2>4, <2>5, <2>6, ReportKeeps
<1>2. ASSUME NEW r, IsReport(r), NEW q, IsReport(q),
             \A p \in Paths : Exists(p)' /\ disk'[p] # disk[p] => Speaks(r, p) \/ Speaks(q, p),
             \A p \in Paths : Exists(p)' => ~Buries(r, p) /\ ~Buries(q, p),
             disk' \in [Paths -> Contents \cup {Nothing}], Report(<<r, q>>)
      PROVE  WatchInv'
  <2> DEFINE reports == <<r, q>>
  <2>1. r \in Seq(Change) /\ q \in Seq(Change)
    BY <1>2 DEF IsReport
  <2>2. /\ reports \in Seq(Seq(Change)) /\ DOMAIN reports = {1, 2}
        /\ reports[1] = r /\ reports[2] = q
    BY <2>1
  <2>3. Report(reports)
    BY <1>2
  <2> HIDE DEF reports
  <2>4. \A k \in DOMAIN reports : IsReport(reports[k])
    BY <1>2, <2>2
  <2>5. \A p \in Paths : Exists(p)' /\ disk'[p] # disk[p] => \E k \in DOMAIN reports : Speaks(reports[k], p)
    BY <1>2, <2>2
  <2>6. \A p \in Paths, k \in DOMAIN reports : Exists(p)' => ~Buries(reports[k], p)
    BY <1>2, <2>2
  <2> QED
    BY <1>2, <2>2, <2>3, <2>4, <2>5, <2>6, ReportKeeps
<1>3. ASSUME NEW r, IsReport(r), NEW q, IsReport(q), NEW s, IsReport(s),
             \A p \in Paths : Exists(p)' /\ disk'[p] # disk[p] => Speaks(r, p) \/ Speaks(q, p) \/ Speaks(s, p),
             \A p \in Paths : Exists(p)' => ~Buries(r, p) /\ ~Buries(q, p) /\ ~Buries(s, p),
             disk' \in [Paths -> Contents \cup {Nothing}], Report(<<r, q, s>>)
      PROVE  WatchInv'
  <2> DEFINE reports == <<r, q, s>>
  <2>1. r \in Seq(Change) /\ q \in Seq(Change) /\ s \in Seq(Change)
    BY <1>3 DEF IsReport
  <2>2. /\ reports \in Seq(Seq(Change)) /\ DOMAIN reports = {1, 2, 3}
        /\ reports[1] = r /\ reports[2] = q /\ reports[3] = s
    BY <2>1
  <2>3. Report(reports)
    BY <1>3
  <2> HIDE DEF reports
  <2>4. \A k \in DOMAIN reports : IsReport(reports[k])
    BY <1>3, <2>2
  <2>5. \A p \in Paths : Exists(p)' /\ disk'[p] # disk[p] => \E k \in DOMAIN reports : Speaks(reports[k], p)
    BY <1>3, <2>2
  <2>6. \A p \in Paths, k \in DOMAIN reports : Exists(p)' => ~Buries(reports[k], p)
    BY <1>3, <2>2
  <2> QED
    BY <1>3, <2>2, <2>3, <2>4, <2>5, <2>6, ReportKeeps
<1>4. ASSUME NEW p \in Paths, NEW content \in Contents, WriteFile(p, content)
      PROVE  WatchInv'
  <2> DEFINE r == Single(p, IF Exists(p) THEN "modified" ELSE "created")
  <2>1. IsReport(r) /\ Speaks(r, p) /\ \A x \in Paths : ~Buries(r, x)
    BY ReportShapes DEF Kinds
  <2>2. Report(<<r>>) /\ disk' = [disk EXCEPT ![p] = content]
    BY <1>4 DEF WriteFile
  <2> HIDE DEF r
  <2>3. disk' \in [Paths -> Contents \cup {Nothing}] /\ \A x \in Paths : x # p => disk'[x] = disk[x]
    BY <1>0, <2>2
  <2> QED
    BY <1>1, <2>1, <2>2, <2>3
<1>5. ASSUME NEW p \in Paths, NEW content \in Contents, ReplaceFile(p, content)
      PROVE  WatchInv'
  <2> DEFINE h == <<Half(p)>>
             s == Single(p, "created")
  <2>1. /\ IsReport(h) /\ Speaks(h, p) /\ \A x \in Paths : ~Buries(h, x)
        /\ IsReport(s) /\ Speaks(s, p) /\ \A x \in Paths : ~Buries(s, x)
    BY ReportShapes DEF Kinds
  <2>2. /\ Report(<<h>>) \/ Report(<<s>>) \/ Report(<<h, s>>)
        /\ disk' = [disk EXCEPT ![p] = content]
    BY <1>5 DEF ReplaceFile, ArrivalReports
  <2> HIDE DEF h, s
  <2>3. disk' \in [Paths -> Contents \cup {Nothing}] /\ \A x \in Paths : x # p => disk'[x] = disk[x]
    BY <1>0, <2>2
  <2>4. CASE Report(<<h>>) \/ Report(<<s>>)
    BY <1>1, <2>1, <2>3, <2>4
  <2>5. CASE Report(<<h, s>>)
    BY <1>2, <2>1, <2>3, <2>5
  <2> QED
    BY <2>2, <2>4, <2>5
<1>6. ASSUME NEW p \in Paths, RemoveFile(p) \/ TakeAway(p)
      PROVE  WatchInv'
  <2> DEFINE h == <<Half(p)>>
             s == Single(p, "deleted")
  <2>1. /\ IsReport(h) /\ \A x \in Paths : ~Buries(h, x)
        /\ IsReport(s) /\ \A x \in Paths : x # p => ~Buries(s, x)
    BY ReportShapes DEF Kinds
  <2>2. /\ Report(<<h>>) \/ Report(<<s>>) \/ Report(<<h, s>>)
        /\ disk' = [disk EXCEPT ![p] = Nothing]
    BY <1>6 DEF RemoveFile, TakeAway, DepartureReports
  <2> HIDE DEF h, s
  <2>3. /\ disk' \in [Paths -> Contents \cup {Nothing}] /\ ~Exists(p)'
        /\ \A x \in Paths : x # p => disk'[x] = disk[x]
    BY <1>0, <2>2 DEF Exists
  <2>4. CASE Report(<<h>>) \/ Report(<<s>>)
    BY <1>1, <2>1, <2>3, <2>4
  <2>5. CASE Report(<<h, s>>)
    BY <1>2, <2>1, <2>3, <2>5
  <2> QED
    BY <2>2, <2>4, <2>5
<1>7. ASSUME NEW p \in Paths, NEW q \in Paths, MoveFile(p, q)
      PROVE  WatchInv'
  <2> DEFINE c == [path |-> q, previous |-> p, kind |-> "renamed"]
             h == <<Half(p)>>
             g == <<Half(q)>>
             both == <<Half(p), Half(q)>>
             pair == <<c>>
  <2>1. /\ IsReport(h) /\ \A x \in Paths : ~Buries(h, x)
        /\ IsReport(g) /\ Speaks(g, q) /\ \A x \in Paths : ~Buries(g, x)
    BY ReportShapes
  <2>2. IsReport(both) /\ Speaks(both, q) /\ \A x \in Paths : ~Buries(both, x)
    <3>1. /\ Half(p) \in Change /\ Half(q) \in Change /\ Half(q).path = q
          /\ Half(p).kind = "renamed" /\ Half(q).kind = "renamed"
      BY DEF Half, Change, Kinds
    <3>2. /\ both \in Seq(Change) /\ Len(both) = 2 /\ DOMAIN both = {1, 2}
          /\ both[1] = Half(p) /\ both[2] = Half(q)
      BY <3>1
    <3> HIDE DEF both
    <3> QED
      BY <3>1, <3>2 DEF IsReport, Speaks, Buries
  <2>3. IsReport(pair) /\ Speaks(pair, q) /\ \A x \in Paths : ~Buries(pair, x)
    <3>1. c \in Change /\ c.path = q /\ c.kind = "renamed"
      BY DEF Change, Kinds
    <3> HIDE DEF c
    <3>2. pair \in Seq(Change) /\ Len(pair) = 1 /\ DOMAIN pair = {1} /\ pair[1] = c
      BY <3>1
    <3> HIDE DEF pair
    <3> QED
      BY <3>1, <3>2 DEF IsReport, Speaks, Buries
  <2>4. \/ Report(<<h, g>>) \/ Report(<<both>>) \/ Report(<<pair>>) \/ Report(<<h, g, pair>>)
    BY <1>7 DEF MoveFile, MoveReports
  <2>5. /\ disk' \in [Paths -> Contents \cup {Nothing}] /\ ~Exists(p)'
        /\ \A x \in Paths : x # p /\ x # q => disk'[x] = disk[x]
    BY <1>0, <1>7 DEF MoveFile, Exists
  <2> HIDE DEF h, g, both, pair
  <2>6. CASE Report(<<h, g>>)
    BY <1>2, <2>1, <2>5, <2>6
  <2>7. CASE Report(<<both>>)
    BY <1>1, <2>2, <2>5, <2>7
  <2>8. CASE Report(<<pair>>)
    BY <1>1, <2>3, <2>5, <2>8
  <2>9. CASE Report(<<h, g, pair>>)
    BY <1>3, <2>1, <2>3, <2>5, <2>9
  <2> QED
    BY <2>4, <2>6, <2>7, <2>8, <2>9
<1> QED
  BY <1>4, <1>5, <1>6, <1>7 DEF Outside

\* The worker takes a report.
LEMMA DeliverKeeps ==
  ASSUME WatchInv, Deliver
  PROVE  WatchInv'
<1>1. /\ watching /\ raw \in Seq(Seq(Change)) /\ raw # <<>>
      /\ raw' = Tail(raw) /\ UNCHANGED <<disk, watching, told>>
  BY DEF Deliver, WatchInv, TypeOK
<1>2. /\ raw' \in Seq(Seq(Change)) /\ Len(raw') = Len(raw) - 1 /\ Len(raw) \in Nat \ {0}
      /\ \A i \in 1..Len(raw') : raw'[i] = raw[i + 1]
      /\ Head(raw) = raw[1]
  BY <1>1, HeadTailProperties, EmptySeq, LenProperties
<1>3. DOMAIN raw = 1..Len(raw) /\ DOMAIN raw' = 1..(Len(raw) - 1)
  BY <1>1, <1>2, LenProperties
<1>4. pending \in [Paths -> PendingRow] /\ IsReport(raw[1])
  <2>1. 1 \in DOMAIN raw
    BY <1>2, <1>3
  <2>2. pending \in [Paths -> PendingRow]
    BY DEF WatchInv, TypeOK, PendingRow, OtherNames
  <2> QED
    BY <2>1, <2>2 DEF WatchInv
<1>5. PICK first \in Merged(pending, raw[1][1]) :
        pending' \in IF Len(raw[1]) = 1 THEN {first} ELSE Merged(first, raw[1][2])
  <2> DEFINE report == Head(raw)
  <2>1. \E first \in Merged(pending, report[1]) :
          pending' \in IF Len(report) = 1 THEN {first} ELSE Merged(first, report[2])
    BY DEF Deliver
  <2>2. report = raw[1]
    BY <1>2
  <2> QED
    BY <2>1, <2>2
<1>6. /\ pending' \in [Paths -> PendingRow]
      /\ \A p \in Paths : Exists(p) =>
           IF Speaks(raw[1], p) THEN pending'[p].kind \notin {"none", "deleted"}
           ELSE Buries(raw[1], p) \/ pending'[p].kind = pending[p].kind
  <2> DEFINE report == raw[1]
             new == pending'
  <2>1. IsReport(report) /\ first \in Merged(pending, report[1])
    BY <1>4, <1>5
  <2>2. new \in IF Len(report) = 1 THEN {first} ELSE Merged(first, report[2])
    BY <1>5
  <2> HIDE DEF report, new
  <2>3. /\ new \in [Paths -> PendingRow]
        /\ \A p \in Paths : Exists(p) =>
             IF Speaks(report, p) THEN new[p].kind \notin {"none", "deleted"}
             ELSE Buries(report, p) \/ new[p].kind = pending[p].kind
    BY <1>4, <2>1, <2>2, DeliveredShape
  <2> QED
    BY <2>3 DEF report, new
<1>7. ASSUME NEW p \in Paths, Exists(p)'
      PROVE  Tracked(p)'
  <2>1. Exists(p) /\ Tracked(p)
    BY <1>1, <1>7 DEF WatchInv, Exists
  <2>2. ASSUME NEW k \in DOMAIN raw, k # 1
        PROVE  k - 1 \in DOMAIN raw' /\ raw'[k - 1] = raw[k]
    BY <1>2, <1>3, <2>2
  <2>3. ASSUME NEW i \in DOMAIN raw', Buries(raw'[i], p)
        PROVE  \E k \in DOMAIN raw' : i < k /\ Speaks(raw'[k], p)
    <3>1. i + 1 \in DOMAIN raw /\ raw'[i] = raw[i + 1]
      BY <1>2, <1>3
    <3>2. PICK k \in DOMAIN raw : i + 1 < k /\ Speaks(raw[k], p)
      BY <2>1, <2>3, <3>1 DEF Tracked, Followed
    <3>3. k # 1 /\ i < k - 1
      BY <1>3, <3>2
    <3> QED
      BY <2>2, <3>2, <3>3
  <2>4. ASSUME Amiss(p)'
        PROVE  \E k \in DOMAIN raw' : Speaks(raw'[k], p)
    <3>1. ~Speaks(raw[1], p)
      BY <1>6, <2>1, <2>4 DEF Amiss
    <3>2. CASE Buries(raw[1], p)
      <4>1. PICK k \in DOMAIN raw : 1 < k /\ Speaks(raw[k], p)
        BY <1>2, <1>3, <2>1, <3>2 DEF Tracked, Followed
      <4> QED
        BY <2>2, <4>1
    <3>3. CASE ~Buries(raw[1], p)
      <4>1. Amiss(p)
        BY <1>1, <1>6, <2>1, <2>4, <3>1, <3>3 DEF Amiss
      <4>2. PICK k \in DOMAIN raw : Speaks(raw[k], p)
        BY <2>1, <4>1 DEF Tracked
      <4> QED
        BY <2>2, <3>1, <4>2
    <3> QED
      BY <3>2, <3>3
  <2> QED
    BY <2>3, <2>4 DEF Tracked, Followed
<1>8. \A i \in DOMAIN raw' : IsReport(raw'[i])
  <2> TAKE i \in DOMAIN raw'
  <2>1. i + 1 \in DOMAIN raw /\ raw'[i] = raw[i + 1]
    BY <1>2, <1>3
  <2> QED
    BY <2>1 DEF WatchInv
<1> QED
  BY <1>1, <1>2, <1>6, <1>7, <1>8 DEF WatchInv, TypeOK, PendingRow, OtherNames, Tracked

\* What is pending is told.
LEMMA EmitKeeps ==
  ASSUME WatchInv, EmitPending
  PROVE  WatchInv'
<1>1. /\ UNCHANGED <<disk, watching, raw>> /\ NoChange \in PendingRow /\ NoChange.kind = "none"
      /\ told' = [p \in Paths |-> Told(p)] /\ pending' = [p \in Paths |-> NoChange]
      /\ told \in [Paths -> News] /\ disk \in [Paths -> Contents \cup {Nothing}]
      /\ pending \in [Paths -> PendingRow]
  BY DEF EmitPending, WatchInv, TypeOK, NoChange, PendingRow, OtherNames
<1>2. ASSUME NEW p \in Paths
      PROVE  /\ told'[p] \in News
             /\ pending[p].kind = "none" => told'[p].revision = told[p].revision
             /\ pending[p].kind \notin {"none", "deleted"} => told'[p].revision = disk[p]
  <2>1. told'[p] = Told(p) /\ told[p] \in News /\ IsPrevious(p) \in BOOLEAN
    BY <1>1 DEF IsPrevious
  <2>2. CASE pending[p].kind = "none"
    <3>1. told'[p] = [told[p] EXCEPT !.gone = told[p].gone \/ IsPrevious(p)]
      BY <2>1, <2>2 DEF Told
    <3>2. told[p].gone \/ IsPrevious(p) \in BOOLEAN
      BY <2>1 DEF News
    <3> QED
      BY <2>1, <2>2, <3>1, <3>2 DEF News
  <2>3. CASE pending[p].kind # "none"
    <3> DEFINE revision == IF pending[p].kind = "deleted" THEN Nothing ELSE disk[p]
               gone == revision = Nothing \/ IsPrevious(p)
    <3>1. told'[p] = [revision |-> revision, gone |-> gone]
      BY <2>1, <2>3 DEF Told
    <3>2. revision \in Contents \cup {Nothing} /\ gone \in BOOLEAN
      BY <1>1, <2>1
    <3> HIDE DEF revision, gone
    <3>3. told'[p] \in News /\ told'[p].revision = revision
      BY <3>1, <3>2 DEF News
    <3> QED
      BY <2>3, <3>3 DEF revision
  <2> QED
    BY <2>2, <2>3
<1>3. ASSUME NEW p \in Paths, watching
      PROVE  Tracked(p)'
  <2>1. Tracked(p) /\ (Amiss(p)' => Amiss(p)) /\ (Exists(p)' <=> Exists(p))
    BY <1>1, <1>2, <1>3 DEF WatchInv, Amiss, Exists
  <2> QED
    BY <1>1, <2>1 DEF Tracked, Followed
<1>4. told' \in [Paths -> News] /\ pending' \in [Paths -> PendingRow]
  BY <1>1, <1>2
<1> QED
  BY <1>1, <1>3, <1>4 DEF WatchInv, TypeOK, PendingRow, OtherNames

\* The invariant of the watch.
LEMMA WatchInvariance == Spec => []WatchInv
<1>1. NoChange \in PendingRow /\ NoChange.kind = "none" /\ DOMAIN <<>> = {}
  BY DEF NoChange, PendingRow, OtherNames
<1>2. ASSUME Init
      PROVE  WatchInv
  <2>1. /\ disk \in [Paths -> Contents \cup {Nothing}] /\ watching = FALSE /\ raw = <<>>
        /\ pending = [p \in Paths |-> NoChange]
        /\ told = [p \in Paths |-> [revision |-> disk[p], gone |-> ~Exists(p)]]
    BY <1>2 DEF Init
  <2>2. pending \in [Paths -> PendingRow]
    BY <1>1, <2>1
  <2>3. told \in [Paths -> News]
    BY <2>1 DEF News, Exists
  <2>4. raw \in Seq(Seq(Change)) /\ DOMAIN raw = {}
    BY <1>1, <2>1, EmptySeq
  <2> QED
    BY <2>1, <2>2, <2>3, <2>4 DEF WatchInv, TypeOK, PendingRow, OtherNames
<1>3. ASSUME WatchInv, [Next]_vars
      PROVE  WatchInv'
  <2>1. CASE Watch
    BY <1>1, <1>3, <2>1, EmptySeq
       DEF Watch, WatchInv, TypeOK, PendingRow, OtherNames, News, Exists, Tracked, Followed, Amiss
  <2>2. CASE Unwatch
    BY <1>1, <1>3, <2>2, EmptySeq DEF Unwatch, WatchInv, TypeOK, PendingRow, OtherNames
  <2>3. CASE UNCHANGED vars
    BY <1>3, <2>3 DEF vars, watchVars, WatchInv, TypeOK, Tracked, Followed, Amiss, Exists
  <2> QED
    BY <1>3, <2>1, <2>2, <2>3, OutsideKeeps, DeliverKeeps, EmitKeeps DEF Next
<1> QED
  BY <1>2, <1>3, PTL DEF Spec

\* The state of the watch is of its type.
THEOREM WatchTypes == Spec => []TypeOK
<1>1. WatchInv => TypeOK
  BY DEF WatchInv
<1> QED
  BY <1>1, WatchInvariance, PTL

\* When nothing is on its way, the client has the revision of every file that is there.
THEOREM CatchUp == Spec => []WatchersCatchUp
<1>1. WatchInv => WatchersCatchUp
  BY EmptySeq DEF WatchInv, TypeOK, Tracked, Amiss, Quiet, WatchersCatchUp
<1> QED
  BY <1>1, WatchInvariance, PTL


Ended == {"failed", "ended", "interrupted"}
Begun == {"spawn", "insert"}

-----------------------------------------------------------------------------
(***************************************************************************)
(* The invariant of a terminal.                                            *)
(***************************************************************************)

\* Of the start that has not put it into the map, the map, and the kill that took
\* it out, one at most has the terminal, and whoever has it has a row to end.
HeldOnce(t) ==
  /\ starting[t] \in Begun => ~IsLive(t) /\ killing[t] # "finish"
  /\ IsLive(t) => killing[t] # "finish"
  /\ starting[t] \in Begun \/ IsLive(t) \/ killing[t] = "finish" => session[t].status = "running"

\* A row has ended as often as it says.
EndsCounted(t) == session[t].ends = IF session[t].status \in Ended THEN 1 ELSE 0

\* The watcher comes last, and is there as long as the terminal is in the map.
WatcherFollows(t) ==
  /\ starting[t] # "none" => watcher[t] = "none"
  /\ IsLive(t) => starting[t] = "watch" \/ watcher[t] \in {"polling", "exited"}
  /\ watcher[t] = "exited" => shell[t].state = "exited"
  /\ session[t].status = "none" => watcher[t] = "none" /\ starting[t] = "none"

\* While the core serves, somebody has a row that runs and a shell that is alive.
SomebodyHas(t) ==
  running = "up" =>
    /\ session[t].status = "running" =>
         starting[t] \in Begun \/ IsLive(t) \/ killing[t] = "finish"
    /\ shell[t].state = "alive" =>
         starting[t] = "insert" \/ IsLive(t) \/ killing[t] # "none"

\* Nothing survives the core.
NothingSurvives(t) ==
  running = "down" =>
    /\ starting[t] = "none" /\ killing[t] = "none" /\ watcher[t] = "none"
    /\ ~IsLive(t) /\ shell[t].state # "alive"

TerminalInv(t) ==
  HeldOnce(t) /\ EndsCounted(t) /\ WatcherFollows(t) /\ SomebodyHas(t) /\ NothingSurvives(t)

TerminalsInv == TerminalTypeOK /\ \A t \in Terminals : TerminalInv(t)

-----------------------------------------------------------------------------
(***************************************************************************)
(* Types of the terminals.                                                 *)
(***************************************************************************)

\* A new or an empty entry is an entry, and so is whatever is kept.
LEMMA Entries == NotLive \in Entry /\ NewEntry \in Entry
  BY DEF NotLive, NewEntry, Entry

\* The initial state is of the declared types.
LEMMA TypeInit == TerminalInit => TerminalTypeOK
  BY Entries, MaxInputsAssumption, MaxChunksAssumption
     DEF TerminalInit, TerminalTypeOK, NoSession, SessionStatus

\* The table of sessions.
SessionRows == [Terminals -> [status: SessionStatus, ends: Nat, commands: Nat, log: BOOLEAN]]

\* Finishing a row keeps the rows rows.
LEMMA FinishedRows ==
  ASSUME session \in SessionRows, NEW t \in Terminals, NEW status \in Ended
  PROVE  Finished(t, status) \in SessionRows
<1>1. status \in SessionStatus
  BY DEF SessionStatus, Ended
<1>2. session[t].ends + 1 \in Nat
  BY DEF SessionRows
<1>3. ASSUME NEW n \in Nat
      PROVE  [session EXCEPT ![t].status = status, ![t].ends = n] \in SessionRows
  BY <1>1 DEF SessionRows
<1>4. Finished(t, status) = [session EXCEPT ![t].status = status, ![t].ends = session[t].ends + 1]
  BY DEF Finished, SessionRows
<1> QED
  BY <1>2, <1>3, <1>4

\* So does recording a command.
LEMMA RecordedRows ==
  ASSUME session \in SessionRows, NEW t \in Terminals, NEW n \in {0, 1}
  PROVE  [session EXCEPT ![t].commands = @ + n] \in SessionRows
<1>1. session[t].commands + n \in Nat
  BY DEF SessionRows
<1>2. ASSUME NEW m \in Nat
      PROVE  [session EXCEPT ![t].commands = m] \in SessionRows
  BY DEF SessionRows
<1>3. [session EXCEPT ![t].commands = @ + n] = [session EXCEPT ![t].commands = session[t].commands + n]
  BY DEF SessionRows
<1> QED
  BY <1>1, <1>2, <1>3

\* And flushing a scrollback.
LEMMA FlushedRows ==
  ASSUME NEW sessions \in SessionRows, NEW t \in Terminals, NEW scrollback
  PROVE  FlushedBy(sessions, t, scrollback) \in SessionRows
<1>1. [sessions EXCEPT ![t].log = TRUE] \in SessionRows
  BY DEF SessionRows
<1> QED
  BY <1>1 DEF FlushedBy

\* Every step of a terminal keeps the types.
LEMMA TypeStep ==
  ASSUME TerminalTypeOK, NEW t \in Terminals, TerminalStep(t)
  PROVE  TerminalTypeOK'
<1>1. CASE CreateSession(t)
  BY <1>1, Entries DEF CreateSession, TerminalTypeOK, SessionStatus
<1>2. CASE SpawnShell(t)
  BY <1>2, Entries DEF SpawnShell, TerminalTypeOK, SessionStatus
<1>3. CASE SpawnFails(t)
  <2>1. "failed" \in Ended /\ session \in SessionRows
    BY DEF Ended, TerminalTypeOK, SessionRows
  <2>2. session' \in SessionRows
    BY <1>3, <2>1, FinishedRows DEF SpawnFails
  <2> QED
    BY <1>3, <2>2, Entries DEF SpawnFails, TerminalTypeOK, SessionRows
<1>4. CASE InsertLive(t)
  BY <1>4, Entries DEF InsertLive, TerminalTypeOK, SessionStatus
<1>5. CASE SpawnWatcher(t)
  BY <1>5, Entries DEF SpawnWatcher, TerminalTypeOK, SessionStatus
<1>6. CASE ShellWrites(t)
  BY <1>6, MaxChunksAssumption DEF ShellWrites, TerminalTypeOK
<1>7. CASE ShellExits(t)
  BY <1>7, Entries DEF ShellExits, TerminalTypeOK, SessionStatus
<1>8. CASE WatcherSees(t)
  BY <1>8, Entries DEF WatcherSees, TerminalTypeOK, SessionStatus
<1>9. CASE WatcherRemoves(t)
  <2>1. "ended" \in Ended /\ session \in SessionRows
    BY DEF Ended, TerminalTypeOK, SessionRows
  <2>2. session' \in SessionRows
    BY <1>9, <2>1, FinishedRows, FlushedRows DEF WatcherRemoves
  <2> QED
    BY <1>9, <2>2, Entries DEF WatcherRemoves, TerminalTypeOK, SessionRows
<1>10. CASE KillTerminal(t)
  <2>1. session \in SessionRows
    BY DEF TerminalTypeOK, SessionRows
  <2>2. session' \in SessionRows
    BY <1>10, <2>1, FlushedRows DEF KillTerminal
  <2> QED
    BY <1>10, <2>2, Entries DEF KillTerminal, TerminalTypeOK, SessionRows
<1>11. CASE KillFinishes(t)
  <2>1. "ended" \in Ended /\ session \in SessionRows
    BY DEF Ended, TerminalTypeOK, SessionRows
  <2>2. session' \in SessionRows
    BY <1>11, <2>1, FinishedRows DEF KillFinishes
  <2> QED
    BY <1>11, <2>2, Entries DEF KillFinishes, TerminalTypeOK, SessionRows
<1>12. CASE KillShell(t)
  BY <1>12, Entries DEF KillShell, TerminalTypeOK, SessionStatus
<1>13. ASSUME NEW fills \in BOOLEAN, TakeOutput(t, fills)
      PROVE  TerminalTypeOK'
  <2>1. session \in SessionRows
    BY DEF TerminalTypeOK, SessionRows
  <2>2. session' \in SessionRows
    BY <1>13, <2>1, FlushedRows DEF TakeOutput
  <2>3. shell' \in [Terminals -> [state: {"none", "alive", "exited"},
                                 written: 0..MaxChunks, taken: 0..MaxChunks]]
    BY <1>13, MaxChunksAssumption DEF TakeOutput, TerminalTypeOK
  <2>4. live' \in [Terminals -> Entry]
    BY <1>13 DEF TakeOutput, Scrolled, Kept, TerminalTypeOK
  <2> QED
    BY <1>13, <2>2, <2>3, <2>4 DEF TakeOutput, TerminalTypeOK, SessionRows
<1>14. ASSUME NEW input \in Typed, InputTerminal(t, input)
      PROVE  TerminalTypeOK'
  <2>1. /\ Completes(keyboard[t].text, input) \in {0, 1} /\ Completes(live[t].line, input) \in {0, 1}
        /\ LeftOver(keyboard[t].text, input) \in BOOLEAN
    BY DEF Completes, LeftOver, TerminalTypeOK
  <2>2. session' \in [Terminals -> [status: SessionStatus, ends: Nat, commands: Nat, log: BOOLEAN]]
    <3>1. PICK n \in {0, 1} : session' = [session EXCEPT ![t].commands = @ + n]
      BY <1>14, <2>1 DEF InputTerminal, Recorded
    <3> QED
      BY <3>1, RecordedRows DEF TerminalTypeOK, SessionRows
  <2>3. keyboard' \in [Terminals -> [text: BOOLEAN, entered: 0..MaxInputs]]
    BY <1>14, <2>1, MaxInputsAssumption DEF InputTerminal, TerminalTypeOK
  <2> QED
    BY <1>14, <2>2, <2>3 DEF InputTerminal, TypedInto, Kept, TerminalTypeOK
<1> QED
  BY <1>1, <1>2, <1>3, <1>4, <1>5, <1>6, <1>7, <1>8, <1>9, <1>10, <1>11, <1>12, <1>13, <1>14 DEF TerminalStep

\* So does the end of the core and its next start.
LEMMA TypeCore ==
  ASSUME TerminalTypeOK, ShutdownTerminals \/ TerminalsGo \/ RecoverTerminals
  PROVE  TerminalTypeOK'
<1>1. CASE ShutdownTerminals
  BY <1>1, Entries DEF ShutdownTerminals, TerminalTypeOK
<1>2. CASE TerminalsGo
  BY <1>2, Entries DEF TerminalsGo, TerminalTypeOK
<1>3. CASE RecoverTerminals
  <2>1. ASSUME NEW t \in Terminals
        PROVE  session'[t] \in [status: SessionStatus, ends: Nat, commands: Nat, log: BOOLEAN]
    <3>1. session[t] \in [status: SessionStatus, ends: Nat, commands: Nat, log: BOOLEAN]
      BY DEF TerminalTypeOK
    <3>2. CASE session[t].status = "running"
      <4>1. session'[t] = [session[t] EXCEPT !.status = "interrupted", !.ends = session[t].ends + 1]
        BY <1>3, <3>2 DEF RecoverTerminals
      <4>2. "interrupted" \in SessionStatus /\ session[t].ends + 1 \in Nat
        BY <3>1 DEF SessionStatus
      <4> QED
        BY <3>1, <4>1, <4>2
    <3>3. CASE session[t].status # "running"
      BY <1>3, <3>1, <3>3 DEF RecoverTerminals
    <3> QED
      BY <3>2, <3>3
  <2> QED
    BY <1>3, <2>1 DEF RecoverTerminals, TerminalTypeOK
<1> QED
  BY <1>1, <1>2, <1>3

-----------------------------------------------------------------------------
(***************************************************************************)
(* The steps of a terminal.                                                *)
(***************************************************************************)

\* What a terminal's invariant is about.
Same(t) ==
  /\ session'[t].status = session[t].status /\ session'[t].ends = session[t].ends
  /\ live'[t].held = live[t].held
  /\ shell'[t].state = shell[t].state
  /\ starting'[t] = starting[t] /\ watcher'[t] = watcher[t] /\ killing'[t] = killing[t]

\* A terminal that stays the same keeps its invariant.
LEMMA SameKept ==
  ASSUME NEW t \in Terminals, Same(t), TerminalInv(t), UNCHANGED running
  PROVE  TerminalInv(t)'
  BY DEF Same, TerminalInv, HeldOnce, EndsCounted, WatcherFollows, SomebodyHas, NothingSurvives, IsLive

\* Input leaves all that the invariant speaks of as it was.
LEMMA InputIsSame ==
  ASSUME TerminalTypeOK, NEW t \in Terminals, NEW input \in Typed, InputTerminal(t, input),
         NEW u \in Terminals
  PROVE  Same(u) /\ UNCHANGED running
<1>1. /\ session' = Recorded(t, input) /\ live' = [live EXCEPT ![t] = TypedInto(t, input)]
      /\ UNCHANGED <<shell, starting, watcher, killing, running>>
  BY DEF InputTerminal
<1>2. session'[u].status = session[u].status /\ session'[u].ends = session[u].ends
  BY <1>1 DEF Recorded, TerminalTypeOK
<1>3. live'[u].held = live[u].held
  BY <1>1 DEF TypedInto, Kept, TerminalTypeOK
<1> QED
  BY <1>1, <1>2, <1>3 DEF Same

\* So does output.
LEMMA OutputIsSame ==
  ASSUME TerminalTypeOK, NEW t \in Terminals, NEW fills \in BOOLEAN, TakeOutput(t, fills),
         NEW u \in Terminals
  PROVE  Same(u) /\ UNCHANGED running
<1>1. /\ shell' = [shell EXCEPT ![t].taken = @ + 1]
      /\ session' \in {session, FlushedBy(session, t, fills)}
      /\ live' \in {live, [live EXCEPT ![t] = Scrolled(t)]}
      /\ UNCHANGED <<starting, watcher, killing, running>>
  BY DEF TakeOutput
<1>2. session'[u].status = session[u].status /\ session'[u].ends = session[u].ends
  BY <1>1 DEF FlushedBy, TerminalTypeOK
<1>3. live'[u].held = live[u].held
  BY <1>1 DEF Scrolled, Kept, TerminalTypeOK
<1>4. shell'[u].state = shell[u].state
  BY <1>1 DEF TerminalTypeOK
<1> QED
  BY <1>1, <1>2, <1>3, <1>4 DEF Same

\* The step of a terminal leaves the others as they are.
LEMMA OthersStay ==
  ASSUME TerminalTypeOK, NEW t \in Terminals, TerminalStep(t), NEW u \in Terminals, u # t
  PROVE  Same(u) /\ UNCHANGED running
<1>1. CASE CreateSession(t)
  BY <1>1 DEF CreateSession, Same, TerminalTypeOK
<1>2. CASE SpawnShell(t)
  BY <1>2 DEF SpawnShell, Same, TerminalTypeOK
<1>3. CASE SpawnFails(t)
  BY <1>3 DEF SpawnFails, Same, TerminalTypeOK, Finished
<1>4. CASE InsertLive(t)
  BY <1>4 DEF InsertLive, Same, TerminalTypeOK
<1>5. CASE SpawnWatcher(t)
  BY <1>5 DEF SpawnWatcher, Same, TerminalTypeOK
<1>6. CASE ShellWrites(t)
  BY <1>6 DEF ShellWrites, Same, TerminalTypeOK
<1>7. CASE ShellExits(t)
  BY <1>7 DEF ShellExits, Same, TerminalTypeOK
<1>8. CASE WatcherSees(t)
  BY <1>8 DEF WatcherSees, Same, TerminalTypeOK
<1>9. CASE WatcherRemoves(t)
  BY <1>9 DEF WatcherRemoves, Same, TerminalTypeOK, Finished, FlushedBy
<1>10. CASE KillTerminal(t)
  BY <1>10 DEF KillTerminal, Same, TerminalTypeOK, FlushedBy
<1>11. CASE KillFinishes(t)
  BY <1>11 DEF KillFinishes, Same, TerminalTypeOK, Finished
<1>12. CASE KillShell(t)
  BY <1>12 DEF KillShell, Same, TerminalTypeOK
<1>13. ASSUME NEW fills \in BOOLEAN, TakeOutput(t, fills)
      PROVE  Same(u) /\ UNCHANGED running
  BY <1>13, OutputIsSame
<1>14. ASSUME NEW input \in Typed, InputTerminal(t, input)
      PROVE  Same(u) /\ UNCHANGED running
  BY <1>14, InputIsSame
<1> QED
  BY <1>1, <1>2, <1>3, <1>4, <1>5, <1>6, <1>7, <1>8, <1>9, <1>10, <1>11, <1>12, <1>13, <1>14 DEF TerminalStep

\* A terminal's own step keeps its invariant.
LEMMA OwnStep ==
  ASSUME TerminalTypeOK, NEW t \in Terminals, TerminalStep(t), TerminalInv(t)
  PROVE  TerminalInv(t)'
<1> USE DEF TerminalInv, HeldOnce, EndsCounted, WatcherFollows, SomebodyHas, NothingSurvives,
            IsLive, Begun, Ended
<1>1. CASE CreateSession(t)
  BY <1>1 DEF CreateSession, TerminalTypeOK, Entry
<1>2. CASE SpawnShell(t)
  BY <1>2 DEF SpawnShell, TerminalTypeOK, Entry
<1>3. CASE SpawnFails(t)
  BY <1>3 DEF SpawnFails, TerminalTypeOK, Entry, Finished
<1>4. CASE InsertLive(t)
  BY <1>4 DEF InsertLive, TerminalTypeOK, Entry, NewEntry, NotLive
<1>5. CASE SpawnWatcher(t)
  BY <1>5 DEF SpawnWatcher, TerminalTypeOK, Entry
<1>6. CASE ShellWrites(t)
  BY <1>6 DEF ShellWrites, TerminalTypeOK, Entry
<1>7. CASE ShellExits(t)
  BY <1>7 DEF ShellExits, TerminalTypeOK, Entry
<1>8. CASE WatcherSees(t)
  BY <1>8 DEF WatcherSees, TerminalTypeOK, Entry
<1>9. CASE WatcherRemoves(t)
  BY <1>9 DEF WatcherRemoves, TerminalTypeOK, Entry, Finished, FlushedBy, NotLive
<1>10. CASE KillTerminal(t)
  BY <1>10 DEF KillTerminal, TerminalTypeOK, Entry, FlushedBy, NotLive
<1>11. CASE KillFinishes(t)
  BY <1>11 DEF KillFinishes, TerminalTypeOK, Entry, Finished
<1>12. CASE KillShell(t)
  BY <1>12 DEF KillShell, TerminalTypeOK, Entry
<1>13. ASSUME NEW fills \in BOOLEAN, TakeOutput(t, fills)
      PROVE  TerminalInv(t)'
  <2>1. Same(t) /\ UNCHANGED running
    BY <1>13, OutputIsSame
  <2> QED
    BY <2>1, SameKept
<1>14. ASSUME NEW input \in Typed, InputTerminal(t, input)
      PROVE  TerminalInv(t)'
  <2>1. Same(t) /\ UNCHANGED running
    BY <1>14, InputIsSame
  <2> QED
    BY <2>1, SameKept
<1> QED
  BY <1>1, <1>2, <1>3, <1>4, <1>5, <1>6, <1>7, <1>8, <1>9, <1>10, <1>11, <1>12, <1>13, <1>14 DEF TerminalStep

\* The end of the core and its next start keep the invariant of every terminal.
LEMMA CoreStepKeeps ==
  ASSUME TerminalTypeOK, ShutdownTerminals \/ TerminalsGo \/ RecoverTerminals,
         NEW t \in Terminals, TerminalInv(t)
  PROVE  TerminalInv(t)'
<1> USE DEF TerminalInv, HeldOnce, EndsCounted, WatcherFollows, SomebodyHas, NothingSurvives,
            IsLive, Begun, Ended
<1>1. CASE ShutdownTerminals
  BY <1>1 DEF ShutdownTerminals, TerminalTypeOK, NotLive
<1>2. CASE TerminalsGo
  <2>1. /\ running' = "down" /\ ~live'[t].held /\ UNCHANGED session
        /\ starting'[t] = "none" /\ watcher'[t] = "none" /\ killing'[t] = "none"
    BY <1>2 DEF TerminalsGo, NotLive
  <2>2. shell'[t].state # "alive"
    <3>1. shell'[t] = [shell[t] EXCEPT !.state = IF @ = "alive" THEN "exited" ELSE @,
                                     !.taken = shell[t].written]
      BY <1>2 DEF TerminalsGo
    <3>2. shell[t] \in [state: {"none", "alive", "exited"}, written: 0..MaxChunks, taken: 0..MaxChunks]
      BY DEF TerminalTypeOK
    <3>3. shell'[t].state = IF shell[t].state = "alive" THEN "exited" ELSE shell[t].state
      BY <3>1, <3>2
    <3> QED
      BY <3>3
  <2> QED
    BY <2>1, <2>2
<1>3. CASE RecoverTerminals
  <2>1. UNCHANGED <<live[t], shell[t], starting[t], watcher[t], killing[t]>> /\ running = "down"
    BY <1>3 DEF RecoverTerminals
  <2>2. CASE session[t].status = "running"
    <3>1. session'[t] = [session[t] EXCEPT !.status = "interrupted", !.ends = @ + 1]
      BY <1>3, <2>2 DEF RecoverTerminals
    <3>2. session[t] \in [status: SessionStatus, ends: Nat, commands: Nat, log: BOOLEAN]
      BY DEF TerminalTypeOK
    <3>3. session'[t].status = "interrupted" /\ session'[t].ends = session[t].ends + 1
      BY <3>1, <3>2
    <3> QED
      BY <2>1, <2>2, <3>3
  <2>3. CASE session[t].status # "running"
    <3>1. session'[t] = session[t]
      BY <1>3, <2>3 DEF RecoverTerminals
    <3> QED
      BY <2>1, <2>3, <3>1
  <2> QED
    BY <2>2, <2>3
<1> QED
  BY <1>1, <1>2, <1>3

-----------------------------------------------------------------------------
(***************************************************************************)
(* The theorems.                                                           *)
(***************************************************************************)

\* TerminalsInv is inductive: terminal.start, the watcher, terminal.kill and the end of the
\* core hand a terminal from one to the next.
LEMMA TerminalsInvariance == TerminalSpec => []TerminalsInv
<1>1. TerminalInit => TerminalsInv
  <2> SUFFICES ASSUME TerminalInit  PROVE TerminalsInv
    OBVIOUS
  <2>1. ASSUME NEW t \in Terminals  PROVE TerminalInv(t)
    BY DEF TerminalInit, NoSession, NotLive, TerminalInv, HeldOnce, EndsCounted, WatcherFollows,
           SomebodyHas, NothingSurvives, IsLive, Begun, Ended
  <2> QED
    BY <2>1, TypeInit DEF TerminalsInv
<1>2. TerminalsInv /\ [TerminalNext]_terminalVars => TerminalsInv'
  <2> SUFFICES ASSUME TerminalsInv, [TerminalNext]_terminalVars  PROVE TerminalsInv'
    OBVIOUS
  <2>1. CASE UNCHANGED terminalVars
    BY <2>1 DEF terminalVars, TerminalsInv, TerminalTypeOK, TerminalInv, HeldOnce, EndsCounted,
                WatcherFollows, SomebodyHas, NothingSurvives, IsLive
  <2>2. ASSUME NEW t \in Terminals, TerminalStep(t)
        PROVE  TerminalsInv'
    <3>1. TerminalTypeOK'
      BY <2>2, TypeStep DEF TerminalsInv
    <3>2. ASSUME NEW u \in Terminals  PROVE TerminalInv(u)'
      <4>1. CASE u = t
        BY <2>2, <4>1, OwnStep DEF TerminalsInv
      <4>2. CASE u # t
        BY <2>2, <4>2, OthersStay, SameKept DEF TerminalsInv
      <4> QED
        BY <4>1, <4>2
    <3> QED
      BY <3>1, <3>2 DEF TerminalsInv
  <2>3. CASE ShutdownTerminals \/ TerminalsGo \/ RecoverTerminals
    <3>1. TerminalTypeOK'
      BY <2>3, TypeCore DEF TerminalsInv
    <3>2. ASSUME NEW u \in Terminals  PROVE TerminalInv(u)'
      BY <2>3, CoreStepKeeps DEF TerminalsInv
    <3> QED
      BY <3>1, <3>2 DEF TerminalsInv
  <2> QED
    BY <2>1, <2>2, <2>3 DEF TerminalNext
<1> QED
  BY <1>1, <1>2, PTL DEF TerminalSpec

\* The state of the terminals is of its type: input and output stay within their bounds.
THEOREM TerminalTypes == TerminalSpec => []TerminalTypeOK
<1>1. TerminalsInv => TerminalTypeOK
  BY DEF TerminalsInv
<1> QED
  BY <1>1, TerminalsInvariance, PTL

\* A terminal ends once, whoever of start, watcher, kill and recovery ends it.
THEOREM EndsOnce == TerminalSpec => []TerminalsEndOnce
<1>1. TerminalsInv => TerminalsEndOnce
  BY DEF TerminalsInv, TerminalInv, EndsCounted, Ended, TerminalsEndOnce
<1> QED
  BY <1>1, TerminalsInvariance, PTL

\* While the core serves, a row that runs and a shell that is alive have somebody
\* who will end them.
THEOREM Attended == TerminalSpec => []RunningTerminalsAreAttended
<1>1. TerminalsInv => RunningTerminalsAreAttended
  BY DEF TerminalsInv, TerminalInv, WatcherFollows, SomebodyHas, Begun, IsLive, RunningTerminalsAreAttended
<1> QED
  BY <1>1, TerminalsInvariance, PTL

-----------------------------------------------------------------------------
(***************************************************************************)
(* The invariant: what holds of the record x of a process.                 *)
(***************************************************************************)

Processes == Cores \cup Tools
Guarded == {"locked", "open", "migrate", "opened", "recovered", "serving", "removed"}
OverChecked == {"opened", "recovered", "serving"}

\* A core that has come past the lock and has not let it go has it, and the one
\* that serves is named; a core opens the database for nothing but to serve it.
Locked(c, x, holder, json) ==
  /\ x.pc \in Guarded \cup {"off", "released"}
  /\ x.pc \in Guarded => holder = c
  /\ x.pc \in Guarded => x.goal = "serve"
  /\ x.pc = "serving" => json = c

\* Whoever migrates has read no version that the tables do not have by now, and who
\* has the file open after that has the latest tables.
Versed(x, fs) ==
  /\ x.pc = "migrate" => x.file # 0 /\ x.seen <= fs[x.file].schema
  /\ x.pc # "migrate" => x.seen = 0
  /\ x.pc \in OverChecked => x.file # 0 /\ fs[x.file].schema = Latest

\* Only a core that serves has work, and it is under way in the file it has open.
Worked(x, fs) ==
  /\ x.work # {} => x.pc = "serving"
  /\ \A r \in x.work : fs[x.file].rows[r] = "busy"

\* The version is the schema in every file that there is, but where the rebuild has
\* been repeated.
Honest(x) == x.version = x.schema \/ (x.version = Rebuild /\ x.schema > Rebuild)
SchemaInv == \A f \in Files : Honest(files[f])

\* No two names have one file, and nobody holds a backup open.
NamesInv ==
  /\ \A n, m \in Names : named[n] # 0 /\ named[n] = named[m] => n = m
  /\ \A p \in Processes, s \in Seconds : proc[p].file # 0 => proc[p].file # named[Backup(s)]

LockInv == \A c \in Cores : Locked(c, proc[c], corelock, core_json)
VersedInv == \A p \in Processes : Versed(proc[p], files)
WorkInv == \A c \in Cores : Worked(proc[c], files)

StorageInv == StorageTypeOK /\ SchemaInv /\ NamesInv /\ LockInv /\ VersedInv /\ WorkInv

\* Where an open file cannot be renamed, what is open is the database.
OpenInv == \A p \in Processes : proc[p].file # 0 => proc[p].file = named[Main]

-----------------------------------------------------------------------------
(***************************************************************************)
(* Names, files, and the records of processes.                             *)
(***************************************************************************)

\* The names are three kinds of names.
LEMMA NamesDiffer ==
  ASSUME NEW s \in Seconds
  PROVE  /\ Main # Aside(s) /\ Main # Backup(s)
         /\ \A t \in Seconds : Aside(t) # Backup(s) /\ (Backup(s) = Backup(t) => s = t)
         /\ Main \in Names /\ Aside(s) \in Names /\ Backup(s) \in Names
  BY DEF Main, Aside, Backup, Names

\* The database always has a place among the names.
LEMMA MainIsAName == Main \in Names
  BY DEF Names

\* A file that is to be made is one that nobody holds and that has no name.
LEMMA NextFileIsUnused ==
  ASSUME Unused # {}
  PROVE  /\ NextFile \in Files /\ NextFile # 0
         /\ \A p \in Processes : proc[p].file # NextFile
         /\ \A n \in Names : named[n] # NextFile
<1>1. NextFile \in Unused
  BY DEF NextFile
<1>2. 0 \notin Files
  BY DEF Files
<1> QED
  BY <1>1, <1>2 DEF Unused, Held, Processes

\* A file that has a name, or that is held, is a file, and so is nothing else.
LEMMA FilesAreFiles ==
  ASSUME StorageTypeOK
  PROVE  /\ \A n \in Names : named[n] # 0 => named[n] \in Files
         /\ \A p \in Processes : proc[p] \in Process
         /\ \A x \in Process : x.file # 0 => x.file \in Files
         /\ \A f \in Files : f # 0 /\ f \in 0..MaxFiles
         /\ 0 \in 0..MaxFiles
  BY BoundAssumption DEF StorageTypeOK, Files, Process, Processes

\* Each field of a record may change within its range, and several of them in a step.
Pcs == Guarded \cup {"off", "released", "copy", "rename"}
Goals == {"none", "serve", "probe", "fresh", "inspect"} \cup Actions

LEMMA Fields ==
  ASSUME NEW x \in Process
  PROVE  /\ \A pc \in Pcs : [x EXCEPT !.pc = pc] \in Process
         /\ \A goal \in Goals : [x EXCEPT !.goal = goal] \in Process
         /\ \A seen \in 0..Latest : [x EXCEPT !.seen = seen] \in Process
         /\ \A file \in 0..MaxFiles : [x EXCEPT !.file = file] \in Process
         /\ \A work \in SUBSET Rows : [x EXCEPT !.work = work] \in Process
<1>1. ASSUME NEW pc \in Pcs PROVE [x EXCEPT !.pc = pc] \in Process
  BY DEF Process, Pcs, Guarded
<1>2. ASSUME NEW goal \in Goals PROVE [x EXCEPT !.goal = goal] \in Process
  BY DEF Process, Goals
<1>3. ASSUME NEW seen \in 0..Latest PROVE [x EXCEPT !.seen = seen] \in Process
  BY DEF Process
<1>4. ASSUME NEW file \in 0..MaxFiles PROVE [x EXCEPT !.file = file] \in Process
  BY DEF Process
<1>5. ASSUME NEW work \in SUBSET Rows PROVE [x EXCEPT !.work = work] \in Process
  BY DEF Process
<1> QED
  BY <1>1, <1>2, <1>3, <1>4, <1>5

\* Several fields change together as one after the other.
LEMMA Records ==
  ASSUME NEW x \in Process, NEW pc \in Pcs
  PROVE  /\ \A goal \in Goals : [x EXCEPT !.pc = pc, !.goal = goal] \in Process
         /\ \A seen \in 0..Latest : [x EXCEPT !.pc = pc, !.seen = seen] \in Process
         /\ \A file \in 0..MaxFiles : [x EXCEPT !.pc = pc, !.file = file] \in Process
         /\ \A work \in SUBSET Rows : [x EXCEPT !.pc = pc, !.work = work] \in Process
         /\ \A seen \in 0..Latest, file \in 0..MaxFiles :
              [x EXCEPT !.pc = pc, !.file = file, !.seen = seen] \in Process
         /\ \A goal \in Goals, file \in 0..MaxFiles :
              [x EXCEPT !.pc = pc, !.goal = goal, !.file = file] \in Process
<1>1. PICK y \in Process : y = [x EXCEPT !.pc = pc]
  BY Fields
<1>2. ASSUME NEW goal \in Goals
      PROVE  [x EXCEPT !.pc = pc, !.goal = goal] \in Process
  <2>1. [x EXCEPT !.pc = pc, !.goal = goal] = [y EXCEPT !.goal = goal]
    BY <1>1
  <2> QED
    BY <2>1, Fields
<1>3. ASSUME NEW seen \in 0..Latest
      PROVE  [x EXCEPT !.pc = pc, !.seen = seen] \in Process
  <2>1. [x EXCEPT !.pc = pc, !.seen = seen] = [y EXCEPT !.seen = seen]
    BY <1>1
  <2> QED
    BY <2>1, Fields
<1>4. ASSUME NEW file \in 0..MaxFiles
      PROVE  [x EXCEPT !.pc = pc, !.file = file] \in Process
  <2>1. [x EXCEPT !.pc = pc, !.file = file] = [y EXCEPT !.file = file]
    BY <1>1
  <2> QED
    BY <2>1, Fields
<1>5. ASSUME NEW work \in SUBSET Rows
      PROVE  [x EXCEPT !.pc = pc, !.work = work] \in Process
  <2>1. [x EXCEPT !.pc = pc, !.work = work] = [y EXCEPT !.work = work]
    BY <1>1
  <2> QED
    BY <2>1, Fields
<1>6. ASSUME NEW seen \in 0..Latest, NEW file \in 0..MaxFiles
      PROVE  [x EXCEPT !.pc = pc, !.file = file, !.seen = seen] \in Process
  <2>1. PICK z \in Process : z = [y EXCEPT !.file = file]
    BY Fields
  <2>2. [x EXCEPT !.pc = pc, !.file = file, !.seen = seen] = [z EXCEPT !.seen = seen]
    BY <1>1, <2>1
  <2> QED
    BY <2>2, Fields
<1>7. ASSUME NEW goal \in Goals, NEW file \in 0..MaxFiles
      PROVE  [x EXCEPT !.pc = pc, !.goal = goal, !.file = file] \in Process
  <2>1. PICK z \in Process : z = [y EXCEPT !.goal = goal]
    BY Fields
  <2>2. [x EXCEPT !.pc = pc, !.goal = goal, !.file = file] = [z EXCEPT !.file = file]
    BY <1>1, <2>1
  <2> QED
    BY <2>2, Fields
<1> QED
  BY <1>2, <1>3, <1>4, <1>5, <1>6, <1>7

\* A process that has ended, or that has not started, holds nothing.
LEMMA OffIsProcess ==
  /\ Off \in Process
  /\ Off.pc = "off" /\ Off.seen = 0 /\ Off.file = 0 /\ Off.work = {}
  BY VersionAssumption, BoundAssumption DEF Off, Process

\* While one core has the lock the others have not come past it, and stay so
\* whatever happens to the lock and to core.json.
LEMMA OthersAreOutside ==
  ASSUME StorageInv, NEW c \in Cores, corelock \in {c, Nobody}
  PROVE  \A d \in Cores \ {c} : /\ proc[d].pc \notin Guarded
                                /\ \A holder, json : Locked(d, proc[d], holder, json)
  BY ProcessAssumption DEF StorageInv, LockInv, Locked, Guarded

-----------------------------------------------------------------------------
(***************************************************************************)
(* Steps that touch no file and no name.                                   *)
(***************************************************************************)

\* A process changes its record, and perhaps the lock and core.json.
LEMMA QuietStep ==
  ASSUME StorageInv, NEW p \in Processes, NEW q \in Process,
         proc' = [proc EXCEPT ![p] = q], UNCHANGED <<files, named, folder>>,
         corelock' \in Cores \cup {Nobody}, core_json' \in Cores \cup {Nobody},
         \A c \in Cores \ {p} : Locked(c, proc[c], corelock', core_json'),
         p \in Cores => Locked(p, q, corelock', core_json') /\ Worked(q, files),
         Versed(q, files), q.file \in {0, proc[p].file}
  PROVE  StorageInv'
<1>1. /\ proc \in [Processes -> Process] /\ proc' \in [Processes -> Process]
      /\ proc'[p] = q /\ \A o \in Processes \ {p} : proc'[o] = proc[o]
  BY DEF StorageInv, StorageTypeOK, Processes
<1>2. StorageTypeOK'
  BY <1>1 DEF StorageInv, StorageTypeOK, Processes
<1>3. SchemaInv'
  BY DEF StorageInv, SchemaInv
<1>4. NamesInv'
  BY <1>1 DEF StorageInv, NamesInv
<1>5. LockInv'
  BY <1>1 DEF LockInv, Processes
<1>6. VersedInv'
  BY <1>1 DEF StorageInv, VersedInv
<1>7. WorkInv'
  BY <1>1 DEF StorageInv, WorkInv, Processes
<1> QED
  BY <1>2, <1>3, <1>4, <1>5, <1>6, <1>7 DEF StorageInv

\* The same of a tool, which has no lock and no name.
LEMMA QuietTool ==
  ASSUME StorageInv, NEW p \in Tools, NEW q \in Process,
         proc' = [proc EXCEPT ![p] = q], UNCHANGED <<files, named, folder, corelock, core_json>>,
         Versed(q, files), q.file \in {0, proc[p].file}
  PROVE  StorageInv'
<1>1. p \in Processes /\ p \notin Cores
  BY ProcessAssumption DEF Processes
<1>2. corelock' \in Cores \cup {Nobody} /\ core_json' \in Cores \cup {Nobody}
  BY DEF StorageInv, StorageTypeOK
<1>3. \A c \in Cores : Locked(c, proc[c], corelock', core_json')
  BY DEF StorageInv, LockInv
<1> QED
  BY <1>1, <1>2, <1>3, QuietStep

\* A process may end at any time.
LEMMA EndsKeeps ==
  ASSUME StorageInv, NEW p \in Processes, Ends(p)
  PROVE  StorageInv'
<1>1. corelock' \in Cores \cup {Nobody} /\ core_json' \in Cores \cup {Nobody}
  BY DEF Ends, StorageInv, StorageTypeOK
<1>2. \A c \in Cores \ {p} : Locked(c, proc[c], corelock', core_json')
  BY DEF Ends, StorageInv, LockInv, Locked
<1>3. Locked(p, Off, corelock', core_json') /\ Worked(Off, files) /\ Versed(Off, files)
  BY OffIsProcess DEF Locked, Worked, Versed, Guarded, OverChecked
<1> QED
  BY <1>1, <1>2, <1>3, OffIsProcess, QuietStep DEF Ends

\* An error ends the process, or the probe of a backup.
LEMMA FailsKeeps ==
  ASSUME StorageInv, NEW p \in Processes, proc[p].pc \in Guarded, Fails(p)
  PROVE  StorageInv'
<1>1. CASE proc[p].goal # "probe"
  BY <1>1, EndsKeeps DEF Fails
<1>2. CASE proc[p].goal = "probe"
  <2> DEFINE q == [proc[p] EXCEPT !.pc = "copy", !.file = 0, !.seen = 0]
  <2>1. p \in Tools
    BY <1>2 DEF StorageInv, LockInv, Locked, Processes
  <2>2. proc[p] \in Process /\ 0 \in 0..Latest /\ 0 \in 0..MaxFiles
    BY VersionAssumption, FilesAreFiles DEF StorageInv
  <2>3. q \in Process
    BY <2>2, Records DEF Pcs
  <2>4. q.pc = "copy" /\ q.file = 0 /\ q.seen = 0
    BY <2>2 DEF Process
  <2>5. proc' = [proc EXCEPT ![p] = q]
    BY <1>2 DEF Fails
  <2> HIDE DEF q
  <2>6. Versed(q, files)
    BY <2>4 DEF Versed, OverChecked
  <2> QED
    BY <1>2, <2>1, <2>3, <2>4, <2>5, <2>6, QuietTool DEF Fails
<1> QED
  BY <1>1, <1>2

\* What a core does with the lock and core.json alone.
LEMMA QuietCore ==
  ASSUME StorageInv, NEW c \in Cores,
         \/ StartCore(c) \/ RemoveStaleDiscovery(c) \/ WriteDiscovery(c)
         \/ StopServing(c) \/ ReleaseLock(c) \/ ExitCore(c)
  PROVE  StorageInv'
<1>1. c \in Processes /\ proc[c] \in Process /\ c # Nobody
  BY FilesAreFiles, ProcessAssumption DEF StorageInv, Processes
<1>2. /\ Locked(c, proc[c], corelock, core_json) /\ Worked(proc[c], files)
      /\ Versed(proc[c], files)
  BY <1>1 DEF StorageInv, LockInv, WorkInv, VersedInv
<1>3. corelock \in Cores \cup {Nobody} /\ core_json \in Cores \cup {Nobody}
  BY DEF StorageInv, StorageTypeOK
<1>4. CASE StartCore(c)
  <2> DEFINE q == [proc[c] EXCEPT !.pc = "locked", !.goal = "serve"]
  <2>1. q \in Process
    BY <1>1, Records DEF Pcs, Guarded, Goals
  <2>2. /\ q.pc = "locked" /\ q.goal = "serve" /\ q.file = proc[c].file
        /\ q.seen = proc[c].seen /\ q.work = proc[c].work
    BY <1>1 DEF Process
  <2>3. proc' = [proc EXCEPT ![c] = q]
    BY <1>4 DEF StartCore
  <2> HIDE DEF q
  <2>4. Locked(c, q, corelock', core_json')
    BY <1>4, <2>2 DEF StartCore, Locked, Guarded
  <2>5. Worked(q, files) /\ Versed(q, files)
    BY <1>2, <1>4, <2>2 DEF StartCore, At, Worked, Versed, OverChecked
  <2>6. \A d \in Cores \ {c} : Locked(d, proc[d], corelock', core_json')
    BY <1>4, OthersAreOutside DEF StartCore
  <2> QED
    BY <1>1, <1>3, <1>4, <2>1, <2>2, <2>3, <2>4, <2>5, <2>6, QuietStep DEF StartCore
<1>5. CASE RemoveStaleDiscovery(c)
  <2> DEFINE q == [proc[c] EXCEPT !.pc = "open", !.goal = "serve"]
  <2>1. q \in Process
    BY <1>1, Records DEF Pcs, Guarded, Goals
  <2>2. /\ q.pc = "open" /\ q.goal = "serve" /\ q.file = proc[c].file
        /\ q.seen = proc[c].seen /\ q.work = proc[c].work
    BY <1>1 DEF Process
  <2>3. proc' = [proc EXCEPT ![c] = q]
    BY <1>5 DEF RemoveStaleDiscovery, Opens
  <2> HIDE DEF q
  <2>4. corelock = c /\ Locked(c, q, corelock', core_json')
    BY <1>2, <1>5, <2>2 DEF RemoveStaleDiscovery, At, Locked, Guarded
  <2>5. Worked(q, files) /\ Versed(q, files)
    BY <1>2, <1>5, <2>2 DEF RemoveStaleDiscovery, At, Worked, Versed, OverChecked
  <2>6. \A d \in Cores \ {c} : Locked(d, proc[d], corelock', core_json')
    BY <2>4, OthersAreOutside
  <2> QED
    BY <1>1, <1>3, <1>5, <2>1, <2>2, <2>3, <2>4, <2>5, <2>6, QuietStep
       DEF RemoveStaleDiscovery
<1>6. CASE WriteDiscovery(c)
  <2> DEFINE q == [proc[c] EXCEPT !.pc = "serving"]
  <2>1. q \in Process
    BY <1>1, Fields DEF Pcs, Guarded
  <2>2. /\ q.pc = "serving" /\ q.goal = proc[c].goal /\ q.file = proc[c].file
        /\ q.seen = proc[c].seen /\ q.work = proc[c].work
    BY <1>1 DEF Process
  <2>3. proc' = [proc EXCEPT ![c] = q]
    BY <1>6 DEF WriteDiscovery, Goes
  <2> HIDE DEF q
  <2>4. corelock = c /\ Locked(c, q, corelock', core_json')
    BY <1>2, <1>6, <2>2 DEF WriteDiscovery, At, Locked, Guarded
  <2>5. Worked(q, files) /\ Versed(q, files)
    BY <1>2, <1>6, <2>2 DEF WriteDiscovery, At, Worked, Versed, OverChecked
  <2>6. \A d \in Cores \ {c} : Locked(d, proc[d], corelock', core_json')
    BY <2>4, OthersAreOutside
  <2> QED
    BY <1>1, <1>3, <1>6, <2>1, <2>2, <2>3, <2>4, <2>5, <2>6, QuietStep DEF WriteDiscovery
<1>7. CASE StopServing(c)
  <2> DEFINE q == [proc[c] EXCEPT !.pc = "removed", !.work = {}]
  <2>1. q \in Process
    BY <1>1, Records DEF Pcs, Guarded, Process
  <2>2. /\ q.pc = "removed" /\ q.goal = proc[c].goal /\ q.file = proc[c].file
        /\ q.seen = proc[c].seen /\ q.work = {}
    BY <1>1 DEF Process
  <2>3. proc' = [proc EXCEPT ![c] = q]
    BY <1>7 DEF StopServing
  <2> HIDE DEF q
  <2>4. corelock = c /\ Locked(c, q, corelock', core_json')
    BY <1>2, <1>7, <2>2 DEF StopServing, At, Locked, Guarded
  <2>5. Worked(q, files) /\ Versed(q, files)
    BY <1>2, <1>7, <2>2 DEF StopServing, At, Worked, Versed, OverChecked
  <2>6. \A d \in Cores \ {c} : Locked(d, proc[d], corelock', core_json')
    BY <2>4, OthersAreOutside
  <2> QED
    BY <1>1, <1>3, <1>7, <2>1, <2>2, <2>3, <2>4, <2>5, <2>6, QuietStep DEF StopServing
<1>8. CASE ReleaseLock(c)
  <2> DEFINE q == [proc[c] EXCEPT !.pc = "released"]
  <2>1. q \in Process
    BY <1>1, Fields DEF Pcs, Guarded
  <2>2. /\ q.pc = "released" /\ q.file = proc[c].file
        /\ q.seen = proc[c].seen /\ q.work = proc[c].work
    BY <1>1 DEF Process
  <2>3. proc' = [proc EXCEPT ![c] = q]
    BY <1>8 DEF ReleaseLock, Goes
  <2> HIDE DEF q
  <2>4. corelock = c /\ Locked(c, q, corelock', core_json')
    BY <1>2, <1>8, <2>2 DEF ReleaseLock, At, Locked, Guarded
  <2>5. Worked(q, files) /\ Versed(q, files)
    BY <1>2, <1>8, <2>2 DEF ReleaseLock, At, Worked, Versed, OverChecked
  <2>6. \A d \in Cores \ {c} : Locked(d, proc[d], corelock', core_json')
    BY <2>4, OthersAreOutside
  <2> QED
    BY <1>1, <1>3, <1>8, <2>1, <2>2, <2>3, <2>4, <2>5, <2>6, QuietStep DEF ReleaseLock
<1>9. CASE ExitCore(c)
  BY <1>1, <1>9, EndsKeeps DEF ExitCore
<1> QED
  BY <1>4, <1>5, <1>6, <1>7, <1>8, <1>9

\* What a tool does with its record alone.
LEMMA QuietToolSteps ==
  ASSUME StorageInv, NEW u \in Tools,
         \/ \E action \in Actions : StartTool(u, action)
         \/ OpenAgain(u) \/ InspectFresh(u)
  PROVE  StorageInv'
<1>1. u \in Processes /\ proc[u] \in Process
  BY FilesAreFiles DEF StorageInv, Processes
<1>2. Versed(proc[u], files) /\ 0 \in 0..MaxFiles
  BY <1>1, FilesAreFiles DEF StorageInv, VersedInv
<1>3. ASSUME NEW pc \in {"open", "rename"},
             NEW goal \in {"probe", "inspect"} \cup Actions, NEW q \in Process,
             proc[u].pc \in {"off", "opened"},
             UNCHANGED <<files, named, folder, corelock, core_json>>,
             proc' = [proc EXCEPT ![u] = q], q.pc = pc, q.seen = proc[u].seen,
             q.file \in {0, proc[u].file}
      PROVE  StorageInv'
  <2>1. Versed(q, files)
    BY <1>2, <1>3 DEF Versed, OverChecked
  <2> QED
    BY <1>3, <2>1, QuietTool
<1>4. ASSUME NEW action \in Actions, StartTool(u, action)
      PROVE  StorageInv'
  <2>1. CASE action = "reset"
    <3> DEFINE q == [proc[u] EXCEPT !.pc = "rename", !.goal = action]
    <3>1. q \in Process
      BY <1>1, Records DEF Pcs, Goals
    <3>2. q.pc = "rename" /\ q.seen = proc[u].seen /\ q.file = proc[u].file
      BY <1>1 DEF Process
    <3>3. proc' = [proc EXCEPT ![u] = q]
      BY <1>4, <2>1 DEF StartTool
    <3> HIDE DEF q
    <3> QED
      BY <1>3, <1>4, <3>1, <3>2, <3>3 DEF StartTool, At
  <2>2. CASE action # "reset"
    <3> DEFINE goal == IF action = "backup" THEN "probe" ELSE action
               q == [proc[u] EXCEPT !.pc = "open", !.goal = goal]
    <3>0. goal \in {"probe", "inspect"} \cup Actions
      OBVIOUS
    <3>1. q \in Process
      BY <1>1, Records DEF Pcs, Guarded, Goals
    <3>2. q.pc = "open" /\ q.seen = proc[u].seen /\ q.file = proc[u].file
      BY <1>1 DEF Process
    <3>3. proc' = [proc EXCEPT ![u] = q]
      BY <1>4, <2>2 DEF StartTool, Opens
    <3> HIDE DEF q, goal
    <3> QED
      BY <1>3, <1>4, <3>0, <3>1, <3>2, <3>3 DEF StartTool, At
  <2> QED
    BY <2>1, <2>2
<1>5. CASE OpenAgain(u)
  <2> DEFINE q == [proc[u] EXCEPT !.pc = "open", !.goal = "backup", !.file = 0]
  <2>1. q \in Process
    BY <1>1, <1>2, Records DEF Pcs, Guarded, Goals, Actions
  <2>2. q.pc = "open" /\ q.seen = proc[u].seen /\ q.file = 0
    BY <1>1 DEF Process
  <2>3. proc' = [proc EXCEPT ![u] = q]
    BY <1>5 DEF OpenAgain
  <2> HIDE DEF q
  <2> QED
    BY <1>3, <1>5, <2>1, <2>2, <2>3 DEF OpenAgain, Wants, Actions
<1>6. CASE InspectFresh(u)
  <2> DEFINE q == [proc[u] EXCEPT !.pc = "open", !.goal = "inspect"]
  <2>1. q \in Process
    BY <1>1, Records DEF Pcs, Guarded, Goals
  <2>2. q.pc = "open" /\ q.seen = proc[u].seen /\ q.file = proc[u].file
    BY <1>1 DEF Process
  <2>3. proc' = [proc EXCEPT ![u] = q]
    BY <1>6 DEF InspectFresh, Opens
  <2> HIDE DEF q
  <2> QED
    BY <1>3, <1>6, <2>1, <2>2, <2>3 DEF InspectFresh, Wants
<1> QED
  BY <1>4, <1>5, <1>6

-----------------------------------------------------------------------------
(***************************************************************************)
(* Steps on files.                                                         *)
(***************************************************************************)

\* The contents of a file may change field by field as well.
LEMMA StoreContents ==
  ASSUME NEW x \in FileContents
  PROVE  /\ \A damage \in {"none", "indexes", "pages"} : [x EXCEPT !.damage = damage] \in FileContents
         /\ \A table \in [Rows -> {"none", "busy", "done", "interrupted"}] :
              [x EXCEPT !.rows = table] \in FileContents
         /\ \A m, k \in 0..Latest : [x EXCEPT !.version = m, !.schema = k] \in FileContents
<1>1. ASSUME NEW damage \in {"none", "indexes", "pages"}
      PROVE  [x EXCEPT !.damage = damage] \in FileContents
  BY DEF FileContents
<1>2. ASSUME NEW table \in [Rows -> {"none", "busy", "done", "interrupted"}]
      PROVE  [x EXCEPT !.rows = table] \in FileContents
  BY DEF FileContents
<1>3. ASSUME NEW m \in 0..Latest, NEW k \in 0..Latest
      PROVE  [x EXCEPT !.version = m, !.schema = k] \in FileContents
  <2>1. PICK y \in FileContents : y = [x EXCEPT !.version = m]
    BY DEF FileContents
  <2>2. [y EXCEPT !.schema = k] \in FileContents
    BY DEF FileContents
  <2>3. [x EXCEPT !.version = m, !.schema = k] = [y EXCEPT !.schema = k]
    BY <2>1
  <2> QED
    BY <2>2, <2>3
<1> QED
  BY <1>1, <1>2, <1>3

\* A new database has seen no migration.
LEMMA EmptyIsContents ==
  Empty \in FileContents /\ Empty.version = 0 /\ Empty.schema = 0 /\ Honest(Empty)
  BY VersionAssumption DEF Empty, FileContents, Honest

\* Whose file has become no older is as well off as before.
LEMMA StillVersed ==
  ASSUME files \in [Files -> FileContents], files' \in [Files -> FileContents],
         NEW x \in Process, Versed(x, files), x.file # 0 => x.file \in Files,
         x.file # 0 => files'[x.file].schema >= files[x.file].schema
  PROVE  Versed(x, files')
<1>1. CASE x.file = 0
  BY <1>1 DEF Versed
<1>2. CASE x.file # 0
  <2>1. PICK v \in 0..Latest, w \in 0..Latest, s \in 0..Latest :
           v = files[x.file].schema /\ w = files'[x.file].schema /\ s = x.seen
    BY <1>2 DEF FileContents, Process
  <2>2. w >= v
    BY <1>2, <2>1
  <2>3. (v = Latest => w = Latest) /\ (s <= v => s <= w)
    BY <2>2, VersionAssumption
  <2> QED
    BY <1>2, <2>1, <2>3 DEF Versed
<1> QED
  BY <1>1, <1>2

\* A process changes its record and the files.
LEMMA FileStep ==
  ASSUME StorageInv, NEW p \in Processes, NEW q \in Process,
         proc' = [proc EXCEPT ![p] = q], UNCHANGED <<corelock, core_json>>,
         files' \in [Files -> FileContents], named' \in [Names -> 0..MaxFiles], folder' \in BOOLEAN,
         SchemaInv', NamesInv', Versed(q, files'),
         p \in Cores => Locked(p, q, corelock, core_json) /\ Worked(q, files'),
         \A o \in Processes \ {p} :
            proc[o].file # 0 => files'[proc[o].file].schema >= files[proc[o].file].schema,
         \A c \in Cores \ {p} :
            proc[c].work = {} \/ files'[proc[c].file].rows = files[proc[c].file].rows
  PROVE  StorageInv'
<1>1. /\ proc \in [Processes -> Process] /\ proc' \in [Processes -> Process]
      /\ proc'[p] = q /\ \A o \in Processes \ {p} : proc'[o] = proc[o]
  BY DEF StorageInv, StorageTypeOK, Processes
<1>2. StorageTypeOK'
  BY <1>1 DEF StorageInv, StorageTypeOK, Processes
<1>3. LockInv'
  BY <1>1 DEF StorageInv, LockInv, Processes
<1>4. VersedInv'
  <2>1. ASSUME NEW o \in Processes \ {p} PROVE Versed(proc[o], files')
    <3>1. Versed(proc[o], files) /\ files \in [Files -> FileContents] /\ proc[o] \in Process
      BY FilesAreFiles DEF StorageInv, VersedInv, StorageTypeOK
    <3>2. proc[o].file # 0 => proc[o].file \in Files
      BY <3>1, FilesAreFiles DEF StorageInv
    <3> QED
      BY <3>1, <3>2, StillVersed
  <2> QED
    BY <1>1, <2>1 DEF VersedInv
<1>5. WorkInv'
  <2>1. ASSUME NEW c \in Cores \ {p} PROVE Worked(proc[c], files')
    BY DEF StorageInv, WorkInv, Worked
  <2> QED
    BY <1>1, <2>1 DEF WorkInv, Processes
<1> QED
  BY <1>2, <1>3, <1>4, <1>5 DEF StorageInv

\* A process changes its record and the file that it has open; the names stay.
LEMMA OwnFileStep ==
  ASSUME StorageInv, NEW p \in Processes, NEW q \in Process, NEW g \in FileContents,
         proc[p].file # 0, q.file \in {0, proc[p].file},
         proc' = [proc EXCEPT ![p] = q], UNCHANGED <<named, folder, corelock, core_json>>,
         files' = [files EXCEPT ![proc[p].file] = g],
         Honest(g), g.schema >= files[proc[p].file].schema, Versed(q, files'),
         p \in Cores => Locked(p, q, corelock, core_json) /\ Worked(q, files'),
         \A c \in Cores \ {p} : proc[c].work = {} \/ g.rows = files[proc[p].file].rows
  PROVE  StorageInv'
<1>1. /\ proc \in [Processes -> Process] /\ proc' \in [Processes -> Process]
      /\ proc'[p] = q /\ \A o \in Processes \ {p} : proc'[o] = proc[o]
  BY DEF StorageInv, StorageTypeOK, Processes
<1>2. PICK f \in Files : f = proc[p].file
  BY FilesAreFiles DEF StorageInv
<1>3. /\ files \in [Files -> FileContents] /\ files' \in [Files -> FileContents]
      /\ files'[f] = g /\ \A h \in Files \ {f} : files'[h] = files[h]
  BY <1>2 DEF StorageInv, StorageTypeOK
<1>4. SchemaInv'
  BY <1>3 DEF StorageInv, SchemaInv
<1>5. NamesInv'
  BY <1>1 DEF StorageInv, NamesInv
<1>6. ASSUME NEW o \in Processes \ {p}, proc[o].file # 0
      PROVE  files'[proc[o].file].schema >= files[proc[o].file].schema
  <2>1. proc[o].file \in Files
    BY <1>1, <1>6, FilesAreFiles DEF StorageInv
  <2>2. files[proc[o].file].schema \in Nat
    BY <1>3, <2>1, VersionAssumption DEF FileContents
  <2> QED
    BY <1>2, <1>3, <2>1, <2>2
<1>7. ASSUME NEW c \in Cores \ {p}, proc[c].work # {}
      PROVE  files'[proc[c].file].rows = files[proc[c].file].rows
  <2>1. c \in Processes /\ Worked(proc[c], files) /\ Versed(proc[c], files)
    BY DEF StorageInv, WorkInv, VersedInv, Processes
  <2>2. proc[c].file # 0
    BY <1>7, <2>1 DEF Worked, Versed, OverChecked
  <2>3. proc[c].file \in Files
    BY <2>1, <2>2, <1>1, FilesAreFiles DEF StorageInv
  <2> QED
    BY <1>2, <1>3, <1>7, <2>3
<1>8. named' \in [Names -> 0..MaxFiles] /\ folder' \in BOOLEAN
  BY DEF StorageInv, StorageTypeOK
<1> QED
  BY <1>3, <1>4, <1>5, <1>6, <1>7, <1>8, FileStep

\* Damage changes no row and no version.
LEMMA DamageFileKeeps ==
  ASSUME StorageInv, NEW damage \in {"indexes", "pages"}, DamageFile(damage)
  PROVE  StorageInv'
<1>1. PICK f \in Files : f = named[Main]
  BY MainIsAName, FilesAreFiles DEF DamageFile, StorageInv
<1> DEFINE g == [files[f] EXCEPT !.damage = damage]
<1>2. files \in [Files -> FileContents] /\ files[f] \in FileContents
  BY DEF StorageInv, StorageTypeOK
<1>3. g \in FileContents
  BY <1>2, StoreContents
<1>4. /\ g.version = files[f].version /\ g.schema = files[f].schema
      /\ g.rows = files[f].rows
  BY <1>2 DEF FileContents
<1>5. files' = [files EXCEPT ![f] = g]
  BY <1>1 DEF DamageFile
<1> HIDE DEF g
<1>6. /\ files' \in [Files -> FileContents]
      /\ \A h \in Files : /\ files'[h].version = files[h].version
                          /\ files'[h].schema = files[h].schema
                          /\ files'[h].rows = files[h].rows
  BY <1>2, <1>3, <1>4, <1>5
<1>7. StorageTypeOK' /\ SchemaInv' /\ NamesInv' /\ LockInv'
  BY <1>6 DEF DamageFile, StorageInv, StorageTypeOK, SchemaInv, Honest, NamesInv, LockInv
<1>8. ASSUME NEW p \in Processes
      PROVE  Versed(proc[p], files')
  <2>1. Versed(proc[p], files) /\ proc[p] \in Process
    BY FilesAreFiles DEF StorageInv, VersedInv
  <2>2. proc[p].file # 0 => proc[p].file \in Files
    BY <2>1, FilesAreFiles DEF StorageInv
  <2>3. proc[p].file # 0 => files[proc[p].file].schema \in Nat
    BY <1>2, <2>2, VersionAssumption DEF FileContents
  <2> QED
    BY <1>2, <1>6, <2>1, <2>2, <2>3, StillVersed
<1>9. ASSUME NEW c \in Cores
      PROVE  Worked(proc[c], files')
  <2>1. c \in Processes /\ Worked(proc[c], files) /\ Versed(proc[c], files)
    BY DEF StorageInv, WorkInv, VersedInv, Processes
  <2>2. proc[c].work # {} => proc[c].file \in Files
    BY <2>1, FilesAreFiles DEF StorageInv, Worked, Versed, OverChecked
  <2> QED
    BY <1>6, <2>1, <2>2 DEF Worked
<1> QED
  BY <1>7, <1>8, <1>9 DEF DamageFile, StorageInv, VersedInv, WorkInv

\* A migration makes no file older, and a version that it writes back is the rebuild's.
LEMMA MigrateKeeps ==
  ASSUME StorageInv, NEW p \in Processes, Migrate(p)
  PROVE  StorageInv'
<1> DEFINE f == proc[p].file
           m == proc[p].seen + 1
           k == IF files[f].schema < m THEN m ELSE files[f].schema
           g == [files[f] EXCEPT !.version = m, !.schema = k]
           q == [proc[p] EXCEPT !.seen = m]
<1>1. /\ proc[p] \in Process /\ Versed(proc[p], files) /\ proc[p].pc = "migrate"
      /\ m <= Latest /\ Applies(files[f], m)
  BY FilesAreFiles DEF StorageInv, VersedInv, Migrate, At
<1>2. f # 0 /\ f \in Files
  BY <1>1, FilesAreFiles DEF StorageInv, Versed
<1>3. files[f] \in FileContents /\ Honest(files[f])
  BY <1>2 DEF StorageInv, StorageTypeOK, SchemaInv
<1>4. /\ m \in 0..Latest /\ k \in 0..Latest /\ m <= k /\ files[f].schema <= k
      /\ k = m \/ (m = Rebuild /\ k > Rebuild)
  <2>1. PICK v \in 0..Latest, s \in 0..Latest : v = files[f].schema /\ s = proc[p].seen
    BY <1>1, <1>3 DEF FileContents, Process
  <2>2. s + 1 \in 0..Latest
    BY <1>1, <2>1, VersionAssumption
  <2>3. v = s \/ (s + 1 = Rebuild /\ v >= Rebuild)
    BY <1>1, <2>1, VersionAssumption DEF Applies
  <2>4. k = IF v < s + 1 THEN s + 1 ELSE v
    BY <2>1
  <2> HIDE DEF k
  <2> QED
    BY <2>1, <2>2, <2>3, <2>4, VersionAssumption
<1>5. g \in FileContents /\ g.version = m /\ g.schema = k /\ g.rows = files[f].rows
  <2>1. g \in FileContents
    BY <1>3, <1>4, StoreContents
  <2> QED
    BY <1>3, <2>1 DEF FileContents
<1>6. /\ q \in Process /\ q.pc = "migrate" /\ q.goal = proc[p].goal
      /\ q.seen = m /\ q.file = f /\ q.work = proc[p].work
  <2>1. q \in Process
    BY <1>1, <1>4, Fields
  <2> QED
    BY <1>1, <2>1 DEF Process
<1>7. files' = [files EXCEPT ![f] = g]
  BY <1>2, <1>3 DEF Migrate, StorageInv, StorageTypeOK
<1>8. proc' = [proc EXCEPT ![p] = q] /\ UNCHANGED <<named, folder, corelock, core_json>>
  BY DEF Migrate
<1>9. files'[f] = g
  BY <1>2, <1>7 DEF StorageInv, StorageTypeOK
<1> HIDE DEF f, m, k, g, q
<1>10. g.schema >= files[f].schema /\ Honest(g)
  <2>1. files[f].schema \in 0..Latest
    BY <1>3 DEF FileContents
  <2> QED
    BY <1>4, <1>5, <2>1, VersionAssumption DEF Honest
<1>11. Versed(q, files')
  BY <1>2, <1>4, <1>5, <1>6, <1>9 DEF Versed, OverChecked
<1>12. p \in Cores => Locked(p, q, corelock, core_json) /\ Worked(q, files')
  <2>1. p \in Cores => Locked(p, proc[p], corelock, core_json) /\ Worked(proc[p], files)
    BY DEF StorageInv, LockInv, WorkInv
  <2> QED
    BY <1>1, <1>6, <2>1 DEF Locked, Worked, Guarded
<1> QED
  BY <1>2, <1>5, <1>6, <1>7, <1>8, <1>10, <1>11, <1>12, OwnFileStep DEF f

\* REINDEX changes no row and no version.
LEMMA ReindexKeeps ==
  ASSUME StorageInv, NEW u \in Tools, Reindex(u)
  PROVE  StorageInv'
<1> DEFINE f == proc[u].file
           g == [files[f] EXCEPT !.damage = "none"]
<1>1. u \in Processes /\ u \notin Cores
  BY ProcessAssumption DEF Processes
<1>2. proc[u] \in Process /\ f # 0 /\ f \in Files
  BY <1>1, FilesAreFiles DEF StorageInv, VersedInv, Versed, OverChecked, Reindex, Wants
<1>3. files[f] \in FileContents /\ Honest(files[f])
  BY <1>2 DEF StorageInv, StorageTypeOK, SchemaInv
<1>4. /\ g \in FileContents /\ g.version = files[f].version
      /\ g.schema = files[f].schema /\ g.rows = files[f].rows
  <2>1. g \in FileContents
    BY <1>3, StoreContents
  <2> QED
    BY <1>3, <2>1 DEF FileContents
<1>5. files' = [files EXCEPT ![f] = g] /\ proc' = [proc EXCEPT ![u] = Off]
  BY DEF Reindex
<1> HIDE DEF g
<1>6. Honest(g) /\ g.schema >= files[f].schema
  BY <1>3, <1>4, VersionAssumption DEF FileContents, Honest
<1>7. Versed(Off, files')
  BY OffIsProcess DEF Versed, OverChecked
<1> QED
  BY <1>1, <1>2, <1>4, <1>5, <1>6, <1>7, OffIsProcess, OwnFileStep DEF Reindex

\* A core that has the file open to serve it is the only one with work.
LEMMA ServersWorkAlone ==
  ASSUME StorageInv, NEW c \in Cores, proc[c].pc \in Guarded
  PROVE  \A d \in Cores \ {c} : proc[d].work = {}
<1>1. corelock = c
  BY DEF StorageInv, LockInv, Locked
<1> QED
  BY <1>1, OthersAreOutside DEF StorageInv, WorkInv, Worked, Guarded

\* A core changes the work in its file, whose contents become g.
LEMMA RowsStep ==
  ASSUME StorageInv, NEW c \in Cores, NEW q \in Process, NEW g \in FileContents,
         proc[c].pc \in {"opened", "serving"}, proc[c].pc \in Guarded,
         proc' = [proc EXCEPT ![c] = q], UNCHANGED <<named, folder, corelock, core_json>>,
         files' = [files EXCEPT ![proc[c].file] = g],
         g.version = files[proc[c].file].version, g.schema = files[proc[c].file].schema,
         q.pc = proc[c].pc \/ q.pc = "recovered",
         q.goal = proc[c].goal, q.seen = proc[c].seen, q.file = proc[c].file,
         q.work # {} => q.pc = "serving", \A r \in q.work : g.rows[r] = "busy"
  PROVE  StorageInv'
<1> DEFINE f == proc[c].file
<1>1. c \in Processes /\ proc[c] \in Process /\ Versed(proc[c], files)
  BY FilesAreFiles DEF StorageInv, VersedInv, Processes
<1>2. f # 0 /\ f \in Files
  BY <1>1, FilesAreFiles DEF StorageInv, Versed, OverChecked
<1>3. files[f] \in FileContents /\ Honest(files[f])
  BY <1>2 DEF StorageInv, StorageTypeOK, SchemaInv
<1>4. files'[f] = g
  BY <1>2 DEF StorageInv, StorageTypeOK
<1>5. Honest(g) /\ g.schema >= files[f].schema
  BY <1>3, VersionAssumption DEF FileContents, Honest
<1>6. Versed(q, files')
  BY <1>1, <1>2, <1>4 DEF Versed, OverChecked
<1>7. Locked(c, proc[c], corelock, core_json)
  BY DEF StorageInv, LockInv
<1>8. Locked(c, q, corelock, core_json)
  BY <1>7 DEF Locked, Guarded
<1>9. Worked(q, files')
  BY <1>4 DEF Worked
<1>10. \A d \in Cores \ {c} : proc[d].work = {}
  BY ServersWorkAlone
<1> QED
  BY <1>1, <1>2, <1>5, <1>6, <1>8, <1>9, <1>10, OwnFileStep

\* A database with other work is one all the same.
LEMMA OtherRows ==
  ASSUME NEW x \in FileContents, NEW table \in [Rows -> {"none", "busy", "done", "interrupted"}]
  PROVE  \E g \in FileContents : /\ g = [x EXCEPT !.rows = table] /\ g.rows = table
                                 /\ g.version = x.version /\ g.schema = x.schema
<1>1. [x EXCEPT !.rows = table] \in FileContents
  BY StoreContents
<1>2. PICK g \in FileContents : g = [x EXCEPT !.rows = table]
  BY <1>1
<1>3. g.rows = table /\ g.version = x.version /\ g.schema = x.schema
  BY <1>2 DEF FileContents
<1> QED
  BY <1>2, <1>3

\* The startup recovery, and the work of a core.
LEMMA CoreWorkKeeps ==
  ASSUME StorageInv, NEW c \in Cores,
         RecoverInterrupted(c) \/ \E r \in Rows : BeginWork(c, r) \/ FinishWork(c, r)
  PROVE  StorageInv'
<1> DEFINE f == proc[c].file
<1>1. /\ c \in Processes /\ proc[c] \in Process
      /\ Versed(proc[c], files) /\ Worked(proc[c], files)
      /\ proc[c].pc \in {"opened", "serving"} /\ proc[c].pc \in Guarded
  BY FilesAreFiles
     DEF StorageInv, VersedInv, WorkInv, Processes, RecoverInterrupted, BeginWork, FinishWork,
         Wants, At, Guarded
<1>2. f # 0 /\ f \in Files
  BY <1>1, FilesAreFiles DEF StorageInv, Versed, OverChecked
<1>3. /\ files[f] \in FileContents /\ files \in [Files -> FileContents]
      /\ files[f].rows \in [Rows -> {"none", "busy", "done", "interrupted"}]
  BY <1>2 DEF StorageInv, StorageTypeOK, FileContents
<1>4. CASE RecoverInterrupted(c)
  <2> DEFINE table == [r \in Rows |-> IF files[f].rows[r] = "busy" THEN "interrupted"
                                     ELSE files[f].rows[r]]
             q == [proc[c] EXCEPT !.pc = "recovered"]
  <2>1. q \in Process
    BY <1>1, Fields DEF Pcs, Guarded
  <2>2. /\ q.pc = "recovered" /\ q.goal = proc[c].goal /\ q.seen = proc[c].seen
        /\ q.file = f /\ q.work = proc[c].work
    BY <1>1 DEF Process
  <2>3. table \in [Rows -> {"none", "busy", "done", "interrupted"}]
    BY <1>3
  <2>4. PICK g \in FileContents : /\ g = [files[f] EXCEPT !.rows = table] /\ g.rows = table
                                  /\ g.version = files[f].version /\ g.schema = files[f].schema
    BY <1>3, <2>3, OtherRows
  <2>5. files' = [files EXCEPT ![f] = g]
    BY <1>2, <1>3, <1>4, <2>4 DEF RecoverInterrupted
  <2>6. proc' = [proc EXCEPT ![c] = q]
    BY <1>4 DEF RecoverInterrupted, Goes
  <2>7. proc[c].work = {}
    BY <1>1, <1>4 DEF RecoverInterrupted, Wants, Worked
  <2>9. UNCHANGED <<named, folder, corelock, core_json>>
    BY <1>4 DEF RecoverInterrupted
  <2> HIDE DEF table, q
  <2>10. /\ g.version = files[f].version /\ g.schema = files[f].schema /\ g.rows = table
    BY <2>4
  <2>11. (q.work # {} => q.pc = "serving") /\ \A s \in q.work : g.rows[s] = "busy"
    BY <2>10, <2>2, <2>7
  <2> QED
    BY <1>1, <2>1, <2>2, <2>5, <2>6, <2>9, <2>10, <2>11, RowsStep
<1>5. ASSUME NEW r \in Rows, BeginWork(c, r)
      PROVE  StorageInv'
  <2> DEFINE table == [files[f].rows EXCEPT ![r] = "busy"]
             work == proc[c].work \cup {r}
             q == [proc[c] EXCEPT !.work = work]
  <2>1. q \in Process
    <3>1. work \in SUBSET Rows
      BY <1>1 DEF Process
    <3> QED
      BY <1>1, <3>1, Fields
  <2>2. /\ q.pc = proc[c].pc /\ q.goal = proc[c].goal /\ q.seen = proc[c].seen
        /\ q.file = f /\ q.work = work
    BY <1>1 DEF Process
  <2>3. table \in [Rows -> {"none", "busy", "done", "interrupted"}]
    BY <1>3
  <2>4. PICK g \in FileContents : /\ g = [files[f] EXCEPT !.rows = table] /\ g.rows = table
                                  /\ g.version = files[f].version /\ g.schema = files[f].schema
    BY <1>3, <2>3, OtherRows
  <2>5. files' = [files EXCEPT ![f] = g]
    BY <1>2, <1>3, <1>5, <2>4 DEF BeginWork
  <2>6. proc' = [proc EXCEPT ![c] = q]
    BY <1>5 DEF BeginWork
  <2>7. \A s \in work : table[s] = "busy"
    BY <1>1, <1>3 DEF Worked, Process
  <2>8. q.pc = "serving"
    BY <1>5, <2>2 DEF BeginWork, At
  <2>9. UNCHANGED <<named, folder, corelock, core_json>>
    BY <1>5 DEF BeginWork
  <2> HIDE DEF table, q, work
  <2>10. /\ g.version = files[f].version /\ g.schema = files[f].schema /\ g.rows = table
    BY <2>4
  <2>11. (q.work # {} => q.pc = "serving") /\ \A s \in q.work : g.rows[s] = "busy"
    BY <2>10, <2>2, <2>7, <2>8
  <2> QED
    BY <1>1, <2>1, <2>2, <2>5, <2>6, <2>9, <2>10, <2>11, RowsStep
<1>6. ASSUME NEW r \in Rows, FinishWork(c, r)
      PROVE  StorageInv'
  <2> DEFINE table == [files[f].rows EXCEPT ![r] = "done"]
             work == proc[c].work \ {r}
             q == [proc[c] EXCEPT !.work = work]
  <2>1. q \in Process
    <3>1. work \in SUBSET Rows
      BY <1>1 DEF Process
    <3> QED
      BY <1>1, <3>1, Fields
  <2>2. /\ q.pc = proc[c].pc /\ q.goal = proc[c].goal /\ q.seen = proc[c].seen
        /\ q.file = f /\ q.work = work
    BY <1>1 DEF Process
  <2>3. table \in [Rows -> {"none", "busy", "done", "interrupted"}]
    BY <1>3
  <2>4. PICK g \in FileContents : /\ g = [files[f] EXCEPT !.rows = table] /\ g.rows = table
                                  /\ g.version = files[f].version /\ g.schema = files[f].schema
    BY <1>3, <2>3, OtherRows
  <2>5. files' = [files EXCEPT ![f] = g]
    BY <1>2, <1>3, <1>6, <2>4 DEF FinishWork
  <2>6. proc' = [proc EXCEPT ![c] = q]
    BY <1>6 DEF FinishWork
  <2>7. \A s \in work : table[s] = "busy"
    BY <1>1, <1>3 DEF Worked, Process
  <2>8. q.pc = "serving"
    BY <1>6, <2>2 DEF FinishWork, At
  <2>9. UNCHANGED <<named, folder, corelock, core_json>>
    BY <1>6 DEF FinishWork
  <2> HIDE DEF table, q, work
  <2>10. /\ g.version = files[f].version /\ g.schema = files[f].schema /\ g.rows = table
    BY <2>4
  <2>11. (q.work # {} => q.pc = "serving") /\ \A s \in q.work : g.rows[s] = "busy"
    BY <2>10, <2>2, <2>7, <2>8
  <2> QED
    BY <1>1, <2>1, <2>2, <2>5, <2>6, <2>9, <2>10, <2>11, RowsStep
<1> QED
  BY <1>4, <1>5, <1>6

\* A process writes a file that nobody holds open, and may give it a name.
LEMMA UnheldFileStep ==
  ASSUME StorageInv, NEW p \in Processes, NEW q \in Process, NEW f \in Files, NEW g \in FileContents,
         \A o \in Processes : proc[o].file # f,
         proc' = [proc EXCEPT ![p] = q], UNCHANGED <<corelock, core_json>>,
         files' = [files EXCEPT ![f] = g], Honest(g),
         named' \in [Names -> 0..MaxFiles], folder' \in BOOLEAN, NamesInv', Versed(q, files'),
         p \in Cores => Locked(p, q, corelock, core_json) /\ Worked(q, files')
  PROVE  StorageInv'
<1>1. /\ files \in [Files -> FileContents] /\ files' \in [Files -> FileContents]
      /\ files'[f] = g /\ \A h \in Files \ {f} : files'[h] = files[h]
  BY DEF StorageInv, StorageTypeOK
<1>2. SchemaInv'
  BY <1>1 DEF StorageInv, SchemaInv
<1>3. \A o \in Processes : proc[o].file # 0 => /\ proc[o].file \in Files
                                              /\ files'[proc[o].file] = files[proc[o].file]
  BY <1>1, FilesAreFiles DEF StorageInv
<1>4. ASSUME NEW o \in Processes \ {p}, proc[o].file # 0
      PROVE  files'[proc[o].file].schema >= files[proc[o].file].schema
  <2>1. files[proc[o].file].schema \in Nat
    BY <1>1, <1>3, <1>4, VersionAssumption DEF FileContents
  <2> QED
    BY <1>3, <1>4, <2>1
<1>5. ASSUME NEW c \in Cores \ {p}, proc[c].work # {}
      PROVE  files'[proc[c].file].rows = files[proc[c].file].rows
  <2>1. c \in Processes /\ Worked(proc[c], files) /\ Versed(proc[c], files)
    BY DEF StorageInv, WorkInv, VersedInv, Processes
  <2> QED
    BY <1>3, <1>5, <2>1 DEF Worked, Versed, OverChecked
<1> QED
  BY <1>1, <1>2, <1>4, <1>5, FileStep

\* Giving a name to a file that has no other and that nobody else holds keeps names apart.
LEMMA NamesStep ==
  ASSUME StorageInv, NEW p \in Processes, NEW n \in Names, NEW f \in 0..MaxFiles,
         named' = [named EXCEPT ![n] = f], \A m \in Names \ {n} : named[m] # f,
         \A o \in Processes \ {p} : proc'[o] = proc[o] /\ proc[o].file # f,
         \A s \in Seconds : proc'[p].file # 0 => proc'[p].file # named'[Backup(s)]
  PROVE  NamesInv' /\ named' \in [Names -> 0..MaxFiles]
<1>1. /\ named \in [Names -> 0..MaxFiles] /\ named' \in [Names -> 0..MaxFiles]
      /\ named'[n] = f /\ \A m \in Names \ {n} : named'[m] = named[m]
  BY DEF StorageInv, StorageTypeOK
<1>2. \A m, k \in Names : named'[m] # 0 /\ named'[m] = named'[k] => m = k
  BY <1>1 DEF StorageInv, NamesInv
<1>3. ASSUME NEW o \in Processes, NEW s \in Seconds, proc'[o].file # 0
      PROVE  proc'[o].file # named'[Backup(s)]
  <2>1. CASE o = p
    BY <1>3, <2>1
  <2>2. CASE o # p
    BY <1>1, <1>3, <2>2, NamesDiffer DEF StorageInv, NamesInv
  <2> QED
    BY <2>1, <2>2
<1> QED
  BY <1>1, <1>2, <1>3 DEF NamesInv

\* The database that is served has the latest tables.
LEMMA QuickCheckKeeps ==
  ASSUME StorageInv, NEW p \in Processes, QuickCheck(p)
  PROVE  StorageInv'
<1> DEFINE q == [proc[p] EXCEPT !.pc = "opened", !.seen = 0]
<1>1. proc[p] \in Process /\ Versed(proc[p], files) /\ proc[p].pc = "migrate"
  BY FilesAreFiles DEF StorageInv, VersedInv, QuickCheck, At
<1>2. proc[p].file # 0 /\ files[proc[p].file].schema = Latest
  <2>1. proc[p].file # 0 /\ Latest <= files[proc[p].file].schema
    BY <1>1 DEF Versed, QuickCheck
  <2>2. files[proc[p].file].schema \in 0..Latest
    BY <1>1, <2>1, FilesAreFiles DEF StorageInv, StorageTypeOK, FileContents
  <2> QED
    BY <2>1, <2>2, VersionAssumption
<1>3. q \in Process
  <2>1. "opened" \in Pcs /\ 0 \in 0..Latest
    BY VersionAssumption DEF Pcs, Guarded
  <2> QED
    BY <1>1, <2>1, Records
<1>4. /\ q.pc = "opened" /\ q.goal = proc[p].goal /\ q.seen = 0
      /\ q.file = proc[p].file /\ q.work = proc[p].work
  BY <1>1 DEF Process
<1>5. proc' = [proc EXCEPT ![p] = q] /\ UNCHANGED <<files, named, folder, corelock, core_json>>
  BY DEF QuickCheck
<1> HIDE DEF q
<1>6. Versed(q, files)
  BY <1>2, <1>4 DEF Versed, OverChecked
<1>7. p \in Cores => Locked(p, q, corelock, core_json) /\ Worked(q, files)
  <2>1. p \in Cores => Locked(p, proc[p], corelock, core_json) /\ Worked(proc[p], files)
    BY DEF StorageInv, LockInv, WorkInv
  <2> QED
    BY <1>1, <1>4, <2>1 DEF Locked, Worked, Guarded
<1>8. /\ corelock \in Cores \cup {Nobody} /\ core_json \in Cores \cup {Nobody}
      /\ \A c \in Cores \ {p} : Locked(c, proc[c], corelock, core_json)
  BY DEF StorageInv, StorageTypeOK, LockInv
<1> QED
  BY <1>3, <1>4, <1>5, <1>6, <1>7, <1>8, QuietStep

\* Whoever is about to migrate has no work, and the lock if it is a core.
LEMMA OpensGuarded ==
  ASSUME StorageInv, NEW p \in Processes, proc[p].pc = "open", NEW q \in Process,
         q.pc = "migrate", q.goal = proc[p].goal, q.work = proc[p].work, NEW fs
  PROVE  p \in Cores => Locked(p, q, corelock, core_json) /\ Worked(q, fs)
<1>1. p \in Cores => Locked(p, proc[p], corelock, core_json) /\ Worked(proc[p], files)
  BY DEF StorageInv, LockInv, WorkInv
<1> QED
  BY <1>1 DEF Locked, Worked, Guarded

\* A database is opened, or made.
LEMMA OpenFileKeeps ==
  ASSUME StorageInv, NEW p \in Processes, OpenFile(p)
  PROVE  StorageInv'
<1>1. /\ proc[p] \in Process /\ Versed(proc[p], files) /\ proc[p].pc = "open"
      /\ proc[p].seen = 0
  BY FilesAreFiles DEF StorageInv, VersedInv, Versed, OpenFile, At
<1>2. folder' \in BOOLEAN /\ UNCHANGED <<corelock, core_json>>
  BY DEF OpenFile, StorageInv, StorageTypeOK
<1>3. files \in [Files -> FileContents] /\ named \in [Names -> 0..MaxFiles]
  BY DEF StorageInv, StorageTypeOK
<1>4. CASE /\ named[Main] # 0 /\ UNCHANGED <<files, named>>
           /\ proc' = [proc EXCEPT ![p].pc = "migrate", ![p].file = named[Main],
                                   ![p].seen = files[named[Main]].version]
  <2> DEFINE f == named[Main]
             v == files[f].version
             q == [proc[p] EXCEPT !.pc = "migrate", !.file = f, !.seen = v]
  <2>1. f # 0 /\ f \in Files /\ f \in 0..MaxFiles /\ v \in 0..Latest
    BY <1>3, <1>4, MainIsAName, FilesAreFiles DEF StorageInv, FileContents
  <2>11. v <= files[f].schema
    <3>1. v \in 0..Latest /\ files[f].schema \in 0..Latest /\ Honest(files[f])
      BY <1>3, <2>1 DEF StorageInv, SchemaInv, FileContents
    <3> QED
      BY <3>1, VersionAssumption DEF Honest
  <2>2. q \in Process
    BY <1>1, <2>1, Records DEF Pcs, Guarded
  <2>3. /\ q.pc = "migrate" /\ q.goal = proc[p].goal /\ q.seen = v
        /\ q.file = f /\ q.work = proc[p].work
    BY <1>1 DEF Process
  <2>4. proc' = [proc EXCEPT ![p] = q] /\ UNCHANGED <<files, named>>
    BY <1>4
  <2> HIDE DEF q
  <2>5. Versed(q, files')
    BY <2>1, <2>3, <2>4, <2>11 DEF Versed, OverChecked
  <2>6. p \in Cores => Locked(p, q, corelock, core_json) /\ Worked(q, files')
    BY <1>1, <2>2, <2>3, OpensGuarded
  <2>7. /\ proc'[p] = q /\ \A o \in Processes \ {p} : proc'[o] = proc[o]
    BY <2>4 DEF StorageInv, StorageTypeOK, Processes
  <2>8. \A s \in Seconds : f # named[Backup(s)]
    BY <2>1, MainIsAName, NamesDiffer DEF StorageInv, NamesInv
  <2>9. NamesInv' /\ SchemaInv'
    BY <2>3, <2>4, <2>7, <2>8 DEF StorageInv, NamesInv, SchemaInv, Honest
  <2>10. \A o \in Processes \ {p} :
           proc[o].file # 0 => files'[proc[o].file].schema >= files[proc[o].file].schema
    <3>1. ASSUME NEW o \in Processes, proc[o].file # 0
          PROVE  files[proc[o].file].schema \in Nat
      BY <1>3, <3>1, FilesAreFiles, VersionAssumption DEF StorageInv, FileContents
    <3> QED
      BY <2>4, <3>1
  <2> QED
    BY <1>2, <1>3, <2>2, <2>4, <2>5, <2>6, <2>9, <2>10, FileStep
<1>5. CASE /\ named[Main] = 0 /\ Unused # {}
           /\ named' = [named EXCEPT ![Main] = NextFile]
           /\ files' = [files EXCEPT ![NextFile] = Empty]
           /\ proc' = [proc EXCEPT ![p].pc = "migrate", ![p].file = NextFile]
  <2> DEFINE f == NextFile
             q == [proc[p] EXCEPT !.pc = "migrate", !.file = f]
  <2>1. /\ f # 0 /\ f \in Files /\ f \in 0..MaxFiles
        /\ \A o \in Processes : proc[o].file # f
        /\ \A n \in Names : named[n] # f
    BY <1>5, NextFileIsUnused, FilesAreFiles DEF StorageInv
  <2>2. q \in Process
    BY <1>1, <2>1, Records DEF Pcs, Guarded
  <2>3. /\ q.pc = "migrate" /\ q.goal = proc[p].goal /\ q.seen = 0
        /\ q.file = f /\ q.work = proc[p].work
    BY <1>1 DEF Process
  <2>4. /\ proc' = [proc EXCEPT ![p] = q] /\ named' = [named EXCEPT ![Main] = f]
        /\ files' = [files EXCEPT ![f] = Empty]
    BY <1>5
  <2> HIDE DEF q, f
  <2>5. files'[f] = Empty
    BY <1>3, <2>1, <2>4
  <2>6. Versed(q, files')
    BY <2>1, <2>3, <2>5, EmptyIsContents DEF Versed, OverChecked
  <2>7. p \in Cores => Locked(p, q, corelock, core_json) /\ Worked(q, files')
    BY <1>1, <2>2, <2>3, OpensGuarded
  <2>8. \A s \in Seconds : named'[Backup(s)] # f
    BY <1>3, <2>1, <2>4, NamesDiffer
  <2>9. NamesInv' /\ named' \in [Names -> 0..MaxFiles]
    <3>1. proc'[p] = q /\ \A o \in Processes \ {p} : proc'[o] = proc[o]
      BY <2>4 DEF StorageInv, StorageTypeOK, Processes
    <3>2. \A s \in Seconds : proc'[p].file # 0 => proc'[p].file # named'[Backup(s)]
      BY <2>3, <2>8, <3>1
    <3> QED
      BY <2>1, <2>4, <3>1, <3>2, MainIsAName, NamesStep
  <2> QED
    BY <1>2, <2>1, <2>2, <2>4, <2>6, <2>7, <2>9, EmptyIsContents, UnheldFileStep
<1> QED
  BY <1>4, <1>5 DEF OpenFile

\* VACUUM INTO makes a file of its own.
LEMMA VacuumIntoKeeps ==
  ASSUME StorageInv, NEW u \in Tools, NEW second \in Seconds, VacuumInto(u, second)
  PROVE  StorageInv'
<1> DEFINE f == NextFile
           g == [files[proc[u].file] EXCEPT !.damage = "none"]
           q == [proc[u] EXCEPT !.pc = "open", !.goal = "inspect"]
<1>1. u \in Processes /\ u \notin Cores
  BY ProcessAssumption DEF Processes
<1>2. proc[u] \in Process /\ Versed(proc[u], files) /\ proc[u].pc = "opened"
  BY <1>1, FilesAreFiles DEF StorageInv, VersedInv, VacuumInto, Wants
<1>3. proc[u].file \in Files /\ proc[u].file # 0
  BY <1>1, <1>2, FilesAreFiles DEF StorageInv, Versed, OverChecked
<1>4. /\ files[proc[u].file] \in FileContents
      /\ Honest(files[proc[u].file])
  BY <1>3 DEF StorageInv, StorageTypeOK, SchemaInv
<1>5. g \in FileContents /\ Honest(g)
  <2>1. g \in FileContents
    BY <1>4, StoreContents
  <2> QED
    BY <1>4, <2>1 DEF FileContents, Honest
<1>6. /\ f \in Files /\ f \in 0..MaxFiles
      /\ \A o \in Processes : proc[o].file # f
      /\ \A n \in Names : named[n] # f
  BY NextFileIsUnused, FilesAreFiles DEF StorageInv, VacuumInto
<1>7. q \in Process
  <2>1. "open" \in Pcs /\ "inspect" \in Goals
    BY DEF Pcs, Guarded, Goals
  <2> QED
    BY <1>2, <2>1, Records
<1>8. q.pc = "open" /\ q.seen = proc[u].seen /\ q.file = proc[u].file
  BY <1>2 DEF Process
<1>9. /\ proc' = [proc EXCEPT ![u] = q] /\ named' = [named EXCEPT ![Backup(second)] = f]
      /\ files' = [files EXCEPT ![f] = g]
      /\ folder' \in BOOLEAN /\ UNCHANGED <<corelock, core_json>>
  BY DEF VacuumInto, Opens
<1> HIDE DEF f, g, q
<1>10. Versed(q, files')
  BY <1>2, <1>8 DEF Versed, OverChecked
<1>11. NamesInv' /\ named' \in [Names -> 0..MaxFiles]
  <2>1. Backup(second) \in Names
    BY NamesDiffer
  <2>2. proc'[u] = q /\ \A o \in Processes \ {u} : proc'[o] = proc[o]
    BY <1>1, <1>9 DEF StorageInv, StorageTypeOK, Processes
  <2>3. \A s \in Seconds : proc'[u].file # 0 => proc'[u].file # named'[Backup(s)]
    BY <1>1, <1>6, <1>8, <1>9, <2>2, NamesDiffer DEF StorageInv, NamesInv, StorageTypeOK
  <2> QED
    BY <1>1, <1>6, <1>9, <2>1, <2>2, <2>3, NamesStep
<1> QED
  BY <1>1, <1>5, <1>6, <1>7, <1>9, <1>10, <1>11, UnheldFileStep

\* The raw copy goes over a backup, which nobody holds, or makes a file.
LEMMA CopyRawKeeps ==
  ASSUME StorageInv, NEW u \in Tools, NEW second \in Seconds, CopyRaw(u, second)
  PROVE  StorageInv'
<1> DEFINE b == Backup(second)
           f == IF named[b] # 0 THEN named[b] ELSE NextFile
           g == files[named[Main]]
           q == [proc[u] EXCEPT !.pc = "open", !.goal = "inspect"]
<1>1. u \in Processes /\ u \notin Cores
  BY ProcessAssumption DEF Processes
<1>2. proc[u] \in Process /\ Versed(proc[u], files) /\ proc[u].pc = "copy"
  BY <1>1, FilesAreFiles DEF StorageInv, VersedInv, CopyRaw, At
<1>3. named[Main] \in Files /\ b \in Names /\ b # Main
  BY MainIsAName, FilesAreFiles, NamesDiffer DEF StorageInv, CopyRaw
<1>4. g \in FileContents /\ Honest(g)
  BY <1>3 DEF StorageInv, StorageTypeOK, SchemaInv
<1>5. /\ f \in Files /\ f \in 0..MaxFiles
      /\ \A o \in Processes : proc[o].file # f
      /\ \A n \in Names \ {b} : named[n] # f
  <2>1. CASE named[b] # 0
    <3>1. f \in Files /\ f = named[b] /\ f \in 0..MaxFiles /\ f # 0
      BY <1>3, <2>1, FilesAreFiles DEF StorageInv
    <3>2. \A o \in Processes : proc[o].file # f
      BY <3>1 DEF StorageInv, NamesInv
    <3>3. \A n \in Names \ {b} : named[n] # f
      BY <1>3, <3>1 DEF StorageInv, NamesInv
    <3> QED
      BY <3>1, <3>2, <3>3
  <2>2. CASE named[b] = 0
    BY <2>2, NextFileIsUnused, FilesAreFiles DEF StorageInv, CopyRaw
  <2> QED
    BY <2>1, <2>2
<1>6. q \in Process
  <2>1. "open" \in Pcs /\ "inspect" \in Goals
    BY DEF Pcs, Guarded, Goals
  <2> QED
    BY <1>2, <2>1, Records
<1>7. q.pc = "open" /\ q.seen = proc[u].seen /\ q.file = proc[u].file
  BY <1>2 DEF Process
<1>8. /\ proc' = [proc EXCEPT ![u] = q] /\ named' = [named EXCEPT ![b] = f]
      /\ files' = [files EXCEPT ![f] = g]
      /\ UNCHANGED <<folder, corelock, core_json>>
  BY DEF CopyRaw, Opens
<1> HIDE DEF f, g, q
<1>9. Versed(q, files') /\ folder' \in BOOLEAN
  BY <1>2, <1>7, <1>8 DEF Versed, OverChecked, StorageInv, StorageTypeOK
<1>10. NamesInv' /\ named' \in [Names -> 0..MaxFiles]
  <2>1. proc'[u] = q /\ \A o \in Processes \ {u} : proc'[o] = proc[o]
    BY <1>1, <1>8 DEF StorageInv, StorageTypeOK, Processes
  <2>2. \A s \in Seconds : proc'[u].file # 0 => proc'[u].file # named'[Backup(s)]
    BY <1>1, <1>5, <1>7, <1>8, <2>1, NamesDiffer DEF StorageInv, NamesInv, StorageTypeOK
  <2> HIDE DEF b
  <2> QED
    BY <1>1, <1>3, <1>5, <1>8, <2>1, <2>2, NamesStep
<1> QED
  BY <1>1, <1>4, <1>5, <1>6, <1>8, <1>9, <1>10, UnheldFileStep

\* The names stay apart when the database takes the name of an older one.
LEMMA AsideNames ==
  ASSUME StorageInv, NEW second \in Seconds,
         named' = IF named[Main] = 0 THEN named
                  ELSE [named EXCEPT ![Main] = 0, ![Aside(second)] = named[Main]]
  PROVE  /\ named' \in [Names -> 0..MaxFiles]
         /\ \A n, m \in Names : named'[n] # 0 /\ named'[n] = named'[m] => n = m
         /\ \A s \in Seconds : named'[Backup(s)] = named[Backup(s)]
<1>1. /\ named \in [Names -> 0..MaxFiles] /\ 0 \in 0..MaxFiles
      /\ \A n, m \in Names : named[n] # 0 /\ named[n] = named[m] => n = m
  BY FilesAreFiles DEF StorageInv, StorageTypeOK, NamesInv
<1>2. CASE named[Main] = 0
  BY <1>1, <1>2, NamesDiffer
<1>3. CASE named[Main] # 0
  <2>1. /\ Main \in Names /\ Aside(second) \in Names /\ Main # Aside(second)
        /\ \A s \in Seconds : /\ Backup(s) \in Names /\ Backup(s) # Main
                              /\ Backup(s) # Aside(second)
    BY NamesDiffer
  <2>2. /\ named'[Main] = 0 /\ named'[Aside(second)] = named[Main]
        /\ \A n \in Names \ {Main, Aside(second)} : named'[n] = named[n]
        /\ named' \in [Names -> 0..MaxFiles]
    BY <1>1, <1>3, <2>1
  <2>3. \A n, m \in Names : named'[n] # 0 /\ named'[n] = named'[m] => n = m
    BY <1>1, <2>1, <2>2
  <2> QED
    BY <2>1, <2>2, <2>3
<1> QED
  BY <1>2, <1>3

\* The damaged file takes another name, and the file of that name is lost.
LEMMA MoveAsideKeeps ==
  ASSUME StorageInv, NEW u \in Tools, NEW second \in Seconds, MoveAside(u, second)
  PROVE  StorageInv'
<1> DEFINE replaced == IF named[Main] = 0 THEN 0 ELSE named[Aside(second)]
           q == [proc[u] EXCEPT !.pc = "open", !.goal = "fresh"]
<1>1. u \in Processes /\ u \notin Cores
  BY ProcessAssumption DEF Processes
<1>2. proc[u] \in Process /\ Versed(proc[u], files) /\ proc[u].pc = "rename"
  BY <1>1, FilesAreFiles DEF StorageInv, VersedInv, MoveAside, At
<1>3. q \in Process
  <2>1. "open" \in Pcs /\ "fresh" \in Goals
    BY DEF Pcs, Guarded, Goals
  <2> QED
    BY <1>2, <2>1, Records
<1>4. q.pc = "open" /\ q.seen = proc[u].seen /\ q.file = proc[u].file
  BY <1>2 DEF Process
<1>5. /\ proc' = [proc EXCEPT ![u] = q] /\ UNCHANGED <<folder, corelock, core_json>>
      /\ files' = [f \in Files |-> IF f = replaced /\ f \notin Held THEN Empty ELSE files[f]]
  BY DEF MoveAside, Opens
<1>6. /\ named' \in [Names -> 0..MaxFiles]
      /\ \A n, m \in Names : named'[n] # 0 /\ named'[n] = named'[m] => n = m
      /\ \A s \in Seconds : named'[Backup(s)] = named[Backup(s)]
  BY AsideNames DEF MoveAside
<1> HIDE DEF replaced, q
<1>7. \A o \in Processes : proc'[o].file = proc[o].file
  BY <1>1, <1>4, <1>5 DEF StorageInv, StorageTypeOK, Processes
<1>8. NamesInv'
  BY <1>6, <1>7 DEF StorageInv, NamesInv
<1>9. Versed(q, files') /\ folder' \in BOOLEAN
  BY <1>2, <1>4, <1>5 DEF Versed, OverChecked, StorageInv, StorageTypeOK
<1>10. files \in [Files -> FileContents] /\ Empty \in FileContents /\ Honest(Empty)
  BY EmptyIsContents DEF StorageInv, StorageTypeOK
<1>11. CASE replaced \in Files /\ replaced \notin Held
  <2>1. files' = [files EXCEPT ![replaced] = Empty]
    BY <1>5, <1>10, <1>11
  <2>2. \A o \in Processes : proc[o].file # replaced
    BY <1>11 DEF Held, Processes, Files
  <2> QED
    BY <1>1, <1>3, <1>5, <1>6, <1>8, <1>9, <1>10, <1>11, <2>1, <2>2, UnheldFileStep
<1>12. CASE ~(replaced \in Files /\ replaced \notin Held)
  <2>1. files' = files
    BY <1>5, <1>10, <1>12
  <2>2. \A o \in Processes \ {u} :
          proc[o].file # 0 => files'[proc[o].file].schema >= files[proc[o].file].schema
    <3>1. ASSUME NEW o \in Processes, proc[o].file # 0
          PROVE  files[proc[o].file].schema \in Nat
      BY <1>10, <3>1, FilesAreFiles, VersionAssumption DEF StorageInv, FileContents
    <3> QED
      BY <2>1, <3>1
  <2>3. SchemaInv' /\ files' \in [Files -> FileContents]
    BY <1>10, <2>1 DEF StorageInv, SchemaInv
  <2> QED
    BY <1>1, <1>3, <1>5, <1>6, <1>8, <1>9, <2>1, <2>2, <2>3, FileStep
<1> QED
  BY <1>11, <1>12

-----------------------------------------------------------------------------
(***************************************************************************)
(* The theorems.                                                           *)
(***************************************************************************)

\* Nobody runs at the start.
LEMMA InvInit == StorageInit => StorageInv
<1> SUFFICES ASSUME StorageInit PROVE StorageInv
  OBVIOUS
<1>1. /\ Off \in Process /\ Empty \in FileContents
      /\ \A p \in Processes : proc[p] = Off
      /\ proc = [p \in Cores \cup Tools |-> Off]
  BY OffIsProcess, EmptyIsContents DEF StorageInit, Processes
<1>2. files \in [Files -> FileContents] /\ SchemaInv
  <2>1. CASE files = [f \in Files |-> Empty]
    BY <1>1, <2>1, EmptyIsContents DEF SchemaInv
  <2>2. ASSUME NEW v \in 1..Latest, NEW table \in [Rows -> {"none", "busy"}],
               files = [f \in Files |-> IF f = 1 THEN [Empty EXCEPT !.version = v, !.schema = v,
                                                                   !.rows = table]
                                       ELSE Empty]
        PROVE  files \in [Files -> FileContents] /\ SchemaInv
    <3>1. v \in 0..Latest /\ table \in [Rows -> {"none", "busy", "done", "interrupted"}]
      BY VersionAssumption
    <3>2. PICK x \in FileContents : x = [Empty EXCEPT !.version = v, !.schema = v]
      BY <1>1, <3>1, StoreContents
    <3>3. x.version = v /\ x.schema = v
      BY <3>2 DEF Empty
    <3>4. PICK y \in FileContents : y = [x EXCEPT !.rows = table] /\ y.version = v /\ y.schema = v
      BY <3>1, <3>3, OtherRows
    <3>5. y = [Empty EXCEPT !.version = v, !.schema = v, !.rows = table]
      BY <3>2, <3>4
    <3>6. files = [f \in Files |-> IF f = 1 THEN y ELSE Empty]
      BY <2>2, <3>5
    <3> QED
      BY <1>1, <3>4, <3>6, EmptyIsContents DEF SchemaInv, Honest
  <2> QED
    BY <2>1, <2>2 DEF StorageInit
<1>3. /\ named \in [Names -> 0..MaxFiles]
      /\ \A n, m \in Names : named[n] # 0 /\ named[n] = named[m] => n = m
  <2>1. 0 \in 0..MaxFiles /\ 1 \in 0..MaxFiles
    BY BoundAssumption
  <2>2. CASE named = [n \in Names |-> 0]
    BY <2>1, <2>2
  <2>3. CASE named = [n \in Names |-> IF n = Main THEN 1 ELSE 0]
    BY <2>1, <2>3
  <2> QED
    BY <2>2, <2>3 DEF StorageInit
<1>4. StorageTypeOK
  BY <1>1, <1>2, <1>3 DEF StorageInit, StorageTypeOK
<1>5. NamesInv /\ LockInv /\ VersedInv /\ WorkInv
  BY <1>1, <1>3, OffIsProcess
     DEF NamesInv, LockInv, VersedInv, WorkInv, Locked, Versed, Worked, Guarded, OverChecked,
         Processes
<1> QED
  BY <1>2, <1>4, <1>5 DEF StorageInv

\* Every step keeps the invariant.
LEMMA InvStep ==
  ASSUME StorageInv, StorageNext
  PROVE  StorageInv'
<1>1. Cores \subseteq Processes /\ Tools \subseteq Processes
  BY DEF Processes
<1>2. ASSUME NEW c \in Cores, CoreStep(c)
      PROVE  StorageInv'
  BY <1>2, QuietCore, CoreWorkKeeps DEF CoreStep
<1>3. ASSUME NEW u \in Tools, ToolStep(u)
      PROVE  StorageInv'
  <2>1. CASE CopyFails(u) \/ MoveFails(u) \/ Inspected(u)
    BY <1>1, <2>1, EndsKeeps DEF CopyFails, MoveFails, Inspected
  <2>2. ASSUME NEW second \in Seconds, BackupExists(u, second)
        PROVE  StorageInv'
    BY <1>1, <2>2, FailsKeeps DEF BackupExists, Wants, Guarded
  <2> QED
    BY <1>3, <2>1, <2>2, QuietToolSteps, VacuumIntoKeeps, CopyRawKeeps, MoveAsideKeeps,
       ReindexKeeps DEF ToolStep
<1>4. ASSUME NEW p \in Processes, OpenStep(p) \/ KillProcess(p)
      PROVE  StorageInv'
  <2>1. CASE OpenFails(p) \/ MigrationFails(p) \/ QuickCheckFails(p)
    BY <2>1, FailsKeeps DEF OpenFails, MigrationFails, QuickCheckFails, At, Guarded
  <2>2. CASE NothingThere(p) \/ KillProcess(p)
    BY <2>2, EndsKeeps DEF NothingThere, KillProcess
  <2> QED
    BY <1>4, <2>1, <2>2, OpenFileKeeps, MigrateKeeps, QuickCheckKeeps DEF OpenStep
<1> QED
  BY <1>2, <1>3, <1>4, DamageFileKeeps DEF StorageNext, Processes

\* The invariant holds of every behaviour.
LEMMA StorageInvariance == StorageSpec => []StorageInv
<1>1. StorageInv /\ UNCHANGED storageVars => StorageInv'
  BY DEF StorageInv, StorageTypeOK, SchemaInv, NamesInv, LockInv, VersedInv, WorkInv, storageVars
<1>2. StorageInv /\ [StorageNext]_storageVars => StorageInv'
  BY <1>1, InvStep
<1> QED
  BY InvInit, <1>2, PTL DEF StorageSpec

\* The variables keep their types.
THEOREM StorageTypes == StorageSpec => []StorageTypeOK
<1>1. StorageInv => StorageTypeOK
  BY DEF StorageInv
<1> QED
  BY <1>1, StorageInvariance, PTL

\* A core that serves can be found, however cores stop, are killed and start.
THEOREM Found == StorageSpec => []DiscoveryNamesTheServingCore
<1>1. StorageInv => DiscoveryNamesTheServingCore
  BY DEF StorageInv, LockInv, Locked, DiscoveryNamesTheServingCore, At
<1> QED
  BY <1>1, StorageInvariance, PTL

\* No version claims a migration that the tables have not seen, and none is behind
\* them but that of a repeated rebuild; a core serves the latest tables only.
THEOREM Versions == StorageSpec => []VersionsNeverRunAhead
<1>1. StorageInv => VersionsNeverRunAhead
  <2> SUFFICES ASSUME StorageInv PROVE VersionsNeverRunAhead
    OBVIOUS
  <2>1. \A n \in Names : named[n] # 0 => Honest(files[named[n]])
    BY FilesAreFiles DEF StorageInv, SchemaInv
  <2>2. ASSUME NEW c \in Cores, At(c, "serving")
        PROVE  files[proc[c].file].schema = Latest
    <3>1. c \in Processes /\ Versed(proc[c], files)
      BY DEF StorageInv, VersedInv, Processes
    <3> QED
      BY <2>2, <3>1 DEF Versed, At, OverChecked
  <2> QED
    BY <2>1, <2>2 DEF VersionsNeverRunAhead, Honest
<1> QED
  BY <1>1, StorageInvariance, PTL

-----------------------------------------------------------------------------
(***************************************************************************)
(* Where an open file cannot be renamed.                                   *)
(***************************************************************************)

\* Who does not open the file holds the one that it held, or none.
LEMMA FilesStay ==
  ASSUME StorageInv, StorageNext, \A p \in Processes : ~OpenFile(p)
  PROVE  \A o \in Processes : proc'[o].file \in {0, proc[o].file}
<1> USE DEF Goes, Opens
<1>1. /\ Cores \subseteq Processes /\ Tools \subseteq Processes
      /\ proc \in [Processes -> Process] /\ Off.file = 0
  BY OffIsProcess DEF Processes, StorageInv, StorageTypeOK
<1>2. \A x \in Process : DOMAIN x = {"pc", "goal", "seen", "file", "work"}
  BY DEF Process
<1>3. ASSUME NEW p \in Processes, Ends(p) \/ Fails(p)
      PROVE  \A o \in Processes : proc'[o].file \in {0, proc[o].file}
  BY <1>1, <1>2, <1>3 DEF Ends, Fails
<1>4. ASSUME NEW c \in Cores, CoreStep(c)
      PROVE  \A o \in Processes : proc'[o].file \in {0, proc[o].file}
  <2>1. CASE ExitCore(c)
    BY <1>1, <1>3, <2>1 DEF ExitCore
  <2>2. CASE StartCore(c) \/ RemoveStaleDiscovery(c)
    BY <1>1, <1>2, <2>2 DEF StartCore, RemoveStaleDiscovery
  <2>3. CASE RecoverInterrupted(c) \/ WriteDiscovery(c) \/ ReleaseLock(c)
    BY <1>1, <1>2, <2>3 DEF RecoverInterrupted, WriteDiscovery, ReleaseLock
  <2>4. CASE StopServing(c)
    BY <1>1, <1>2, <2>4 DEF StopServing
  <2>5. ASSUME NEW r \in Rows, BeginWork(c, r) \/ FinishWork(c, r)
        PROVE  \A o \in Processes : proc'[o].file \in {0, proc[o].file}
    BY <1>1, <1>2, <2>5 DEF BeginWork, FinishWork
  <2> QED
    BY <1>4, <2>1, <2>2, <2>3, <2>4, <2>5 DEF CoreStep
<1>5. ASSUME NEW u \in Tools, ToolStep(u)
      PROVE  \A o \in Processes : proc'[o].file \in {0, proc[o].file}
  <2>1. CASE CopyFails(u) \/ MoveFails(u) \/ Inspected(u)
    BY <1>1, <1>3, <2>1 DEF CopyFails, MoveFails, Inspected
  <2>2. ASSUME NEW second \in Seconds, BackupExists(u, second)
        PROVE  \A o \in Processes : proc'[o].file \in {0, proc[o].file}
    BY <1>1, <1>3, <2>2 DEF BackupExists
  <2>3. ASSUME NEW second \in Seconds,
               VacuumInto(u, second) \/ CopyRaw(u, second) \/ MoveAside(u, second)
        PROVE  \A o \in Processes : proc'[o].file \in {0, proc[o].file}
    BY <1>1, <1>2, <2>3 DEF VacuumInto, CopyRaw, MoveAside
  <2>4. ASSUME NEW action \in Actions, StartTool(u, action)
        PROVE  \A o \in Processes : proc'[o].file \in {0, proc[o].file}
    BY <1>1, <1>2, <2>4 DEF StartTool
  <2>5. CASE OpenAgain(u) \/ Reindex(u) \/ InspectFresh(u)
    BY <1>1, <1>2, <2>5 DEF OpenAgain, Reindex, InspectFresh
  <2> QED
    BY <1>5, <2>1, <2>2, <2>3, <2>4, <2>5 DEF ToolStep
<1>6. ASSUME NEW p \in Processes, OpenStep(p) \/ KillProcess(p)
      PROVE  \A o \in Processes : proc'[o].file \in {0, proc[o].file}
  <2>1. CASE OpenFails(p) \/ MigrationFails(p) \/ QuickCheckFails(p) \/ NothingThere(p) \/ KillProcess(p)
    BY <1>3, <2>1 DEF OpenFails, MigrationFails, QuickCheckFails, NothingThere, KillProcess
  <2>2. CASE Migrate(p) \/ QuickCheck(p)
    BY <1>1, <1>2, <2>2 DEF Migrate, QuickCheck
  <2> QED
    BY <1>6, <2>1, <2>2 DEF OpenStep
<1> QED
  BY <1>1, <1>4, <1>5, <1>6 DEF StorageNext, DamageFile, Processes

\* Only who opens a fresh database, or moves one aside, changes what the name means.
LEMMA NameStays ==
  ASSUME StorageInv, StorageNext, \A p \in Processes : ~OpenFile(p),
         \A u \in Tools, second \in Seconds : ~MoveAside(u, second)
  PROVE  named'[Main] = named[Main]
<1>1. named \in [Names -> 0..MaxFiles] /\ Main \in Names
  BY MainIsAName DEF StorageInv, StorageTypeOK
<1>2. ASSUME NEW p \in Processes, Ends(p) \/ Fails(p)
      PROVE  named' = named
  BY <1>2 DEF Ends, Fails
<1>3. ASSUME NEW c \in Cores, CoreStep(c)
      PROVE  named' = named
  BY <1>2, <1>3
     DEF CoreStep, StartCore, RemoveStaleDiscovery, RecoverInterrupted, WriteDiscovery,
         BeginWork, FinishWork, StopServing, ReleaseLock, ExitCore, Processes
<1>4. ASSUME NEW u \in Tools, ToolStep(u)
      PROVE  named'[Main] = named[Main]
  <2>1. ASSUME NEW second \in Seconds, VacuumInto(u, second) \/ CopyRaw(u, second)
        PROVE  named'[Main] = named[Main]
    BY <1>1, <2>1, NamesDiffer DEF VacuumInto, CopyRaw
  <2>2. ASSUME NEW second \in Seconds, BackupExists(u, second)
        PROVE  named'[Main] = named[Main]
    BY <1>2, <2>2 DEF BackupExists, Processes
  <2>3. CASE CopyFails(u) \/ MoveFails(u) \/ Inspected(u)
    BY <1>2, <2>3 DEF CopyFails, MoveFails, Inspected, Processes
  <2>4. CASE \/ \E action \in Actions : StartTool(u, action)
             \/ OpenAgain(u) \/ Reindex(u) \/ InspectFresh(u)
    BY <2>4 DEF StartTool, OpenAgain, Reindex, InspectFresh
  <2> QED
    BY <1>4, <2>1, <2>2, <2>3, <2>4 DEF ToolStep
<1>5. ASSUME NEW p \in Processes, OpenStep(p) \/ KillProcess(p)
      PROVE  named' = named
  BY <1>2, <1>5
     DEF OpenStep, OpenFails, NothingThere, Migrate, MigrationFails, QuickCheck,
         QuickCheckFails, KillProcess
<1> QED
  BY <1>3, <1>4, <1>5 DEF StorageNext, DamageFile, Processes

\* What is open is the database.
LEMMA OpenStepKeeps ==
  ASSUME ~OpenFilesMove, StorageInv, OpenInv, StorageNext
  PROVE  OpenInv'
<1>1. /\ proc \in [Processes -> Process] /\ named \in [Names -> 0..MaxFiles]
      /\ Tools \subseteq Processes /\ Main \in Names
  BY MainIsAName DEF StorageInv, StorageTypeOK, Processes
<1>2. ASSUME NEW p \in Processes, OpenFile(p)
      PROVE  OpenInv'
  <2>1. /\ \A o \in Processes \ {p} : proc'[o].file = proc[o].file
        /\ proc'[p].file = named'[Main]
    BY <1>1, <1>2 DEF OpenFile, Process
  <2>2. \A o \in Processes : proc[o].file # 0 => named'[Main] = named[Main]
    BY <1>2 DEF OpenFile, OpenInv
  <2> QED
    BY <2>1, <2>2 DEF OpenInv
<1>3. ASSUME NEW u \in Tools, NEW second \in Seconds, MoveAside(u, second)
      PROVE  OpenInv'
  <2>1. named[Main] \notin Held
    BY <1>3 DEF MoveAside
  <2>2. \A o \in Processes : proc[o].file = 0
    BY <2>1 DEF OpenInv, Held, Processes
  <2>3. \A o \in Processes : proc'[o].file = proc[o].file
    BY <1>1, <1>3 DEF MoveAside, Opens, Process
  <2> QED
    BY <2>2, <2>3 DEF OpenInv
<1>4. CASE /\ \A p \in Processes : ~OpenFile(p)
           /\ \A u \in Tools, second \in Seconds : ~MoveAside(u, second)
  <2>1. /\ named'[Main] = named[Main]
        /\ \A o \in Processes : proc'[o].file \in {0, proc[o].file}
    BY <1>4, NameStays, FilesStay
  <2> QED
    BY <2>1 DEF OpenInv
<1> QED
  BY <1>2, <1>3, <1>4

\* What a serving core has begun is under way in the database that is found under
\* its name, whatever the tools do: where an open file cannot be renamed.
THEOREM WorkIsKept == ASSUME ~OpenFilesMove PROVE StorageSpec => []ServingWorkIsKept
<1>1. StorageInit => OpenInv
  BY OffIsProcess DEF StorageInit, OpenInv, Processes
<1>2. StorageInv /\ OpenInv /\ UNCHANGED storageVars => OpenInv'
  BY DEF OpenInv, storageVars
<1>3. StorageInv /\ OpenInv /\ [StorageNext]_storageVars => OpenInv'
  BY <1>2, OpenStepKeeps
<1>4. StorageInv /\ OpenInv => ServingWorkIsKept
  <2> SUFFICES ASSUME StorageInv, OpenInv, NEW c \in Cores, At(c, "serving")
               PROVE  /\ proc[c].file = named[Main]
                      /\ \A r \in proc[c].work : files[named[Main]].rows[r] = "busy"
    BY DEF ServingWorkIsKept
  <2>1. c \in Processes /\ Versed(proc[c], files) /\ Worked(proc[c], files)
    BY DEF StorageInv, VersedInv, WorkInv, Processes
  <2>2. proc[c].file = named[Main]
    BY <2>1 DEF At, Versed, OverChecked, OpenInv
  <2> QED
    BY <2>1, <2>2 DEF Worked
<1> QED
  BY <1>1, <1>3, <1>4, StorageInvariance, PTL DEF StorageSpec

-----------------------------------------------------------------------------
(***************************************************************************)
(* Saves and checkpoints: the inductive invariant.                         *)
(***************************************************************************)

\* A connection that saves is between file.write and its answer; it may have a
\* checkpoint.
IsAtWork(c) == call[c].pc \notin {"idle", "apply", "diff", "insert"}
Checkpointed(c) == IsAtWork(c) /\ call[c].row # 0

\* Between the two looks at the condition and the answer, the lock is held.
HasLock(c) == call[c].pc \in {"publish", "replace", "reread"} => lock[call[c].path] = c

\* What a save may rely on: a path, and a checkpoint of it that has no change yet.
SaveOK(c) ==
  /\ IsAtWork(c) => call[c].path \in Documents
  /\ call[c].pc \in {"idle", "capture"} => call[c].row = 0
  /\ call[c].pc = "change" => call[c].row # 0
  /\ Checkpointed(c) =>
       /\ call[c].row \in RowIds
       /\ rows[call[c].row].path = call[c].path
       /\ ~rows[call[c].row].changed
       /\ rows[call[c].row].patch = NoHash

\* What a restore may rely on: a change that names a path and a content.
RestoreOK(c) ==
  Doing(c, "apply") =>
    /\ call[c].row \in RowIds
    /\ rows[call[c].row].changed
    /\ Action(call[c].row) # "skip"

\* Before the rename the path holds what the save names, unless somebody raced.
NamedOK(c) == Doing(c, "replace") => call[c].raced \/ tree[call[c].path] = call[c].named

\* After the preview the path holds nothing that the change does not know, unless
\* the client insists or somebody raced.
KnownOK(c) ==
  Doing(c, "apply") =>
    LET r == call[c].row
    IN call[c].force \/ call[c].raced
       \/ tree[rows[r].path] \in {rows[r].before, rows[r].after, Absent, Folder}

\* The clean-up has not been here since a save found the content before it, or
\* will not look any more before the save ends.
BeforeOK(c) ==
  core \in {"up", "stopping"} /\ call[c].before # NoHash => artifacts[call[c].before] # "missing"

\* Nor since a snapshot stored its patch.
PatchOK(c) ==
  core \in {"up", "stopping"} /\ Doing(c, "insert") => artifacts[Patch] # "missing"

CallInv(c) ==
  /\ HasLock(c) /\ SaveOK(c) /\ RestoreOK(c)
  /\ NamedOK(c) /\ KnownOK(c) /\ BeforeOK(c) /\ PatchOK(c)

\* A checkpoint belongs to one save.
OwnRows ==
  \A c, d \in Clients : Checkpointed(c) /\ Checkpointed(d) /\ call[c].row = call[d].row => c = d

\* A change names a path.  What a checkpoint needs is in the store, and if the
\* clean-up is about to remove artifacts, it keeps this one.
RowInv(r) ==
  /\ rows[r].changed => rows[r].path \in Documents
  /\ \A h \in RowHashes(r) \ {NoHash} :
       ~rows[r].late => artifacts[h] # "missing" /\ (core = "sweeping" => h \in kept)

EditInv ==
  /\ EditTypeOK
  /\ \A c \in Clients : CallInv(c)
  /\ OwnRows
  /\ \A r \in RowIds : RowInv(r)

-----------------------------------------------------------------------------
(***************************************************************************)
(* What steps keep.                                                        *)
(***************************************************************************)

\* A hash that is stored is there, and what was there stays.
LEMMA Storing ==
  ASSUME artifacts \in [Hashes -> {"missing", "young", "old"}], NEW h \in Hashes \cup {NoHash}
  PROVE  /\ Stored(h) \in [Hashes -> {"missing", "young", "old"}]
         /\ \A x \in Hashes : artifacts[x] # "missing" => Stored(h)[x] # "missing"
         /\ h # NoHash => Stored(h)[h] # "missing"
<1>1. CASE h = NoHash
  BY <1>1 DEF Stored
<1>2. CASE h # NoHash
  <2>1. h \in Hashes
    BY <1>2
  <2> QED BY <1>2, <2>1 DEF Stored
<1> QED BY <1>1, <1>2

\* What is stored of a path is a content.
LEMMA FileHashes ==
  ASSUME EditTypeOK, NEW p \in Documents
  PROVE  /\ FileHash(p) \in Texts \cup {NoHash}
         /\ FileHash(p) \in Hashes \cup {NoHash}
BY DEF FileHash, IsFile, Hashes

\* The record of connection x is the same but for raced, which may have come true,
\* and has if somebody wrote where x is about to.
RaceNoted(x) ==
  /\ call'[x] \in Call
  /\ call'[x].pc = call[x].pc
  /\ call'[x].path = call[x].path
  /\ call'[x].named = call[x].named
  /\ call'[x].before = call[x].before
  /\ call'[x].row = call[x].row
  /\ call'[x].force = call[x].force
  /\ call[x].raced => call'[x].raced
  /\ \A p \in Documents : tree'[p] # tree[p] /\ (IsSaving(x, p) \/ IsRestoring(x, p)) => call'[x].raced

\* Nothing else has happened that connection x relies on: its lock, its
\* checkpoint, what is stored.
CallKept(x) ==
  /\ RaceNoted(x)
  /\ \A p \in Documents : lock[p] = x => lock'[p] = x
  /\ RowIds \subseteq RowIds'
  /\ Checkpointed(x) => rows'[call[x].row] = rows[call[x].row]
  /\ Doing(x, "apply") => rows'[call[x].row] = rows[call[x].row]
  /\ core' \in {"up", "stopping"} =>
       core \in {"up", "stopping"} /\ \A h \in Hashes : artifacts[h] # "missing" => artifacts'[h] # "missing"

LEMMA CallStays ==
  ASSUME EditInv, NEW x \in Clients, CallKept(x)
  PROVE  CallInv(x)'
<1>1. CallInv(x) /\ call[x] \in Call
  BY DEF EditInv, EditTypeOK
<1>2. RaceNoted(x)
  BY DEF CallKept
<1>3. Checkpointed(x)' <=> Checkpointed(x)
  BY <1>2 DEF Checkpointed, IsAtWork, RaceNoted
<1>4. HasLock(x)'
  <2>1. HasLock(x) /\ SaveOK(x)
    BY <1>1 DEF CallInv
  <2> QED BY <1>2, <2>1 DEF HasLock, SaveOK, IsAtWork, RaceNoted, CallKept
<1>5. SaveOK(x)'
  <2>1. SaveOK(x)
    BY <1>1 DEF CallInv
  <2>2. (IsAtWork(x) => call[x].path \in Documents)'
    BY <1>2, <2>1 DEF SaveOK, IsAtWork, RaceNoted
  <2>3. /\ (call[x].pc \in {"idle", "capture"} => call[x].row = 0)'
        /\ (call[x].pc = "change" => call[x].row # 0)'
    BY <1>2, <2>1 DEF SaveOK, RaceNoted
  <2>4. ASSUME Checkpointed(x)
        PROVE  /\ call'[x].row \in RowIds'
               /\ rows'[call'[x].row].path = call'[x].path
               /\ ~rows'[call'[x].row].changed
               /\ rows'[call'[x].row].patch = NoHash
    <3>1. call'[x].row = call[x].row /\ call'[x].path = call[x].path
      BY <1>2 DEF RaceNoted
    <3>2. rows'[call[x].row] = rows[call[x].row] /\ RowIds \subseteq RowIds'
      BY <2>4 DEF CallKept
    <3> QED BY <2>1, <2>4, <3>1, <3>2 DEF SaveOK
  <2> QED BY <1>3, <2>2, <2>3, <2>4 DEF SaveOK
<1>6. ASSUME Doing(x, "apply")
      PROVE  /\ call'[x].row = call[x].row
             /\ rows'[call[x].row] = rows[call[x].row]
             /\ call[x].row \in RowIds /\ call[x].row \in RowIds'
             /\ rows[call[x].row].path \in Documents
             /\ RestoreOK(x)
  <2>1. RestoreOK(x)
    BY <1>1 DEF CallInv
  <2>2. call[x].row \in RowIds /\ rows[call[x].row].changed
    BY <1>6, <2>1 DEF RestoreOK
  <2>3. rows[call[x].row].path \in Documents
    BY <2>2 DEF EditInv, RowInv
  <2> QED BY <1>2, <1>6, <2>1, <2>2, <2>3 DEF RaceNoted, CallKept
<1>7. Doing(x, "apply")' <=> Doing(x, "apply")
  BY <1>2 DEF Doing, RaceNoted
<1>8. RestoreOK(x)'
  BY <1>6, <1>7 DEF RestoreOK, Action
<1>9. NamedOK(x)'
  <2>1. SUFFICES ASSUME Doing(x, "replace"), ~call'[x].raced
                 PROVE  tree'[call'[x].path] = call'[x].named
    BY <1>2 DEF NamedOK, Doing, RaceNoted
  <2>2. NamedOK(x) /\ SaveOK(x)
    BY <1>1 DEF CallInv
  <2>3. call[x].path \in Documents
    BY <2>1, <2>2 DEF SaveOK, IsAtWork, Doing
  <2>4. ~call[x].raced
    BY <1>2, <2>1 DEF RaceNoted
  <2>5. tree[call[x].path] = call[x].named
    BY <2>1, <2>2, <2>4 DEF NamedOK
  <2>6. IsSaving(x, call[x].path)
    BY <2>1 DEF IsSaving
  <2>7. tree'[call[x].path] = tree[call[x].path]
    BY <1>2, <2>1, <2>3, <2>6 DEF RaceNoted
  <2> QED BY <1>2, <2>5, <2>7 DEF RaceNoted
<1>10. KnownOK(x)'
  <2>1. SUFFICES ASSUME Doing(x, "apply"), ~call'[x].force, ~call'[x].raced
                 PROVE  tree'[rows'[call'[x].row].path]
                          \in {rows'[call'[x].row].before, rows'[call'[x].row].after, Absent, Folder}
    BY <1>7 DEF KnownOK
  <2>2. KnownOK(x)
    BY <1>1 DEF CallInv
  <2>3. ~call[x].raced /\ ~call[x].force
    BY <1>2, <2>1 DEF RaceNoted
  <2>4. tree[rows[call[x].row].path]
          \in {rows[call[x].row].before, rows[call[x].row].after, Absent, Folder}
    BY <2>1, <2>2, <2>3 DEF KnownOK
  <2>5. IsRestoring(x, rows[call[x].row].path)
    BY <2>1 DEF IsRestoring
  <2>6. rows[call[x].row].path \in Documents
    BY <1>6, <2>1
  <2>7. tree'[rows[call[x].row].path] = tree[rows[call[x].row].path]
    BY <1>2, <2>1, <2>5, <2>6 DEF RaceNoted
  <2>8. call'[x].row = call[x].row /\ rows'[call[x].row] = rows[call[x].row]
    BY <1>6, <2>1
  <2> QED BY <2>4, <2>7, <2>8
<1>11. BeforeOK(x)'
  <2>1. BeforeOK(x)
    BY <1>1 DEF CallInv
  <2>2. call[x].before \in Hashes \cup {NoHash}
    BY <1>1 DEF Call, Hashes
  <2>3. call'[x].before = call[x].before
    BY <1>2 DEF RaceNoted
  <2> QED BY <2>1, <2>2, <2>3 DEF BeforeOK, CallKept
<1>12. PatchOK(x)'
  <2>1. PatchOK(x) /\ Patch \in Hashes
    BY <1>1 DEF CallInv, Hashes
  <2> QED BY <1>2, <2>1 DEF PatchOK, Doing, RaceNoted, CallKept
<1> QED BY <1>4, <1>5, <1>8, <1>9, <1>10, <1>11, <1>12 DEF CallInv

\* Rows stay as they are when what is stored stays.
LEMMA RowsStay ==
  ASSUME EditInv, UNCHANGED <<rows, core, kept>>,
         \A h \in Hashes : artifacts[h] # "missing" => artifacts'[h] # "missing"
  PROVE  \A r \in RowIds' : RowInv(r)'
<1>1. SUFFICES ASSUME NEW r \in RowIds
               PROVE  RowInv(r)'
  BY DEF RowIds
<1>2. RowInv(r) /\ rows[r] \in Row
  BY DEF EditInv, EditTypeOK, RowIds
<1>3. RowHashes(r)' = RowHashes(r)
  BY DEF RowHashes
<1>4. RowHashes(r) \ {NoHash} \subseteq Hashes
  BY <1>2 DEF RowHashes, Row, Hashes, NoHash
<1> QED BY <1>2, <1>3, <1>4 DEF RowInv

\* A step of connection c, or of nobody if c is none: the others are kept.
LEMMA StepKept ==
  ASSUME EditInv, EditTypeOK', NEW c,
         \A x \in Clients : x # c => CallKept(x),
         c \in Clients => CallInv(c)',
         c \in Clients /\ Checkpointed(c)' =>
           (Checkpointed(c) /\ call'[c].row = call[c].row) \/ call'[c].row \notin RowIds,
         \A r \in RowIds' : RowInv(r)'
  PROVE  EditInv'
<1>1. \A x \in Clients : CallInv(x)'
  BY CallStays
<1>2. ASSUME NEW x \in Clients, x # c, Checkpointed(x)'
      PROVE  Checkpointed(x) /\ call'[x].row = call[x].row /\ call[x].row \in RowIds
  <2>1. RaceNoted(x)
    BY <1>2 DEF CallKept
  <2>2. Checkpointed(x) /\ call'[x].row = call[x].row
    BY <1>2, <2>1 DEF RaceNoted, Checkpointed, IsAtWork
  <2>3. SaveOK(x)
    BY DEF EditInv, CallInv
  <2> QED BY <2>2, <2>3 DEF SaveOK
<1>3. OwnRows'
  <2>1. SUFFICES ASSUME NEW x \in Clients, NEW y \in Clients, x # y,
                        Checkpointed(x)', Checkpointed(y)'
                 PROVE  call'[x].row # call'[y].row
    BY DEF OwnRows
  <2>2. OwnRows
    BY DEF EditInv
  <2>3. \A z \in Clients : Checkpointed(z) => call[z].row \in RowIds
    BY DEF EditInv, CallInv, SaveOK
  <2>4. CASE x # c /\ y # c
    BY <1>2, <2>1, <2>2, <2>4 DEF OwnRows
  <2>5. CASE x = c
    <3>1. y # c
      BY <2>1, <2>5
    <3>2. Checkpointed(y) /\ call'[y].row = call[y].row /\ call[y].row \in RowIds
      BY <1>2, <2>1, <3>1
    <3> QED BY <2>1, <2>2, <2>5, <3>2 DEF OwnRows
  <2>6. CASE y = c
    <3>1. x # c
      BY <2>1, <2>6
    <3>2. Checkpointed(x) /\ call'[x].row = call[x].row /\ call[x].row \in RowIds
      BY <1>2, <2>1, <3>1
    <3> QED BY <2>1, <2>2, <2>6, <3>2 DEF OwnRows
  <2> QED BY <2>4, <2>5, <2>6
<1> QED BY <1>1, <1>3 DEF EditInv

\* A step of c that changes its record and its locks only.
LEMMA Local ==
  ASSUME EditInv, NEW c \in Clients,
         UNCHANGED <<tree, rows, artifacts, core, kept, writes, restarts>>,
         call' \in [Clients -> Call], lock' \in [Documents -> Clients \cup {Absent}],
         \A x \in Clients : x # c => call'[x] = call[x],
         \A p \in Documents, x \in Clients : x # c /\ lock[p] = x => lock'[p] = x,
         Checkpointed(c)' => Checkpointed(c) /\ call'[c].row = call[c].row,
         CallInv(c)'
  PROVE  EditInv'
<1>1. EditTypeOK'
  BY DEF EditInv, EditTypeOK
<1>2. ASSUME NEW x \in Clients, x # c
      PROVE  CallKept(x)
  <2>1. call'[x] = call[x] /\ call'[x] \in Call
    BY <1>2
  <2>2. RaceNoted(x)
    BY <2>1 DEF RaceNoted
  <2> QED BY <1>2, <2>2 DEF CallKept, RowIds
<1>3. \A r \in RowIds' : RowInv(r)'
  BY RowsStay
<1> QED BY <1>1, <1>2, <1>3, StepKept

\* A connection that is idle relies on little.
LEMMA Idling ==
  ASSUME NEW c \in Clients, Doing(c, "idle")', call'[c].row = 0, BeforeOK(c)'
  PROVE  CallInv(c)' /\ ~Checkpointed(c)'
<1>1. call'[c].pc = "idle"
  BY DEF Doing
<1>2. HasLock(c)'
  BY <1>1 DEF HasLock
<1>3. SaveOK(c)' /\ ~Checkpointed(c)'
  BY <1>1 DEF SaveOK, Checkpointed, IsAtWork
<1>4. RestoreOK(c)' /\ NamedOK(c)' /\ KnownOK(c)' /\ PatchOK(c)'
  BY <1>1 DEF RestoreOK, NamedOK, KnownOK, PatchOK, Doing
<1> QED BY <1>2, <1>3, <1>4 DEF CallInv

\* What a call of c is once it is done.
LEMMA CallEnds ==
  ASSUME EditTypeOK, NEW c \in Clients, call' = Done(c)
  PROVE  /\ call' \in [Clients -> Call]
         /\ \A x \in Clients : x # c => call'[x] = call[x]
         /\ CallInv(c)' /\ ~Checkpointed(c)'
<1> DEFINE done == [Fresh EXCEPT !.path = call[c].path, !.named = call[c].named]
<1>1. call \in [Clients -> Call] /\ call[c] \in Call /\ 0 \in 0 .. MaxRows
  BY BoundsAssumption DEF EditTypeOK
<1>2. /\ done \in Call /\ done.pc = "idle" /\ done.row = 0 /\ done.before = NoHash
  BY <1>1 DEF Fresh, Call, NoHash
<1>3. call' = [call EXCEPT ![c] = done]
  BY DEF Done
<1> HIDE DEF done
<1>4. call' \in [Clients -> Call] /\ call'[c] = done /\ \A x \in Clients : x # c => call'[x] = call[x]
  BY <1>1, <1>2, <1>3
<1>5. BeforeOK(c)' /\ Doing(c, "idle")' /\ call'[c].row = 0
  BY <1>2, <1>4 DEF BeforeOK, Doing
<1> QED BY <1>4, <1>5, Idling

-----------------------------------------------------------------------------
(***************************************************************************)
(* The steps of a save.                                                    *)
(***************************************************************************)

LEMMA ReadFileKeeps ==
  ASSUME EditInv, NEW c \in Clients, NEW p \in Documents, ReadFile(c, p)
  PROVE  EditInv'
<1> DEFINE after == [call[c] EXCEPT !.path = p, !.named = tree[p]]
<1>1. /\ call \in [Clients -> Call] /\ call[c] \in Call /\ CallInv(c)
      /\ tree[p] \in Texts \cup {Absent, Folder} /\ tree[p] # Folder
      /\ UNCHANGED <<tree, rows, artifacts, core, kept, writes, restarts>> /\ lock' = lock
      /\ lock \in [Documents -> Clients \cup {Absent}]
      /\ call[c].pc = "idle"
  BY DEF EditInv, EditTypeOK, ReadFile, Untouched, Doing
<1>2. /\ after \in Call /\ after.pc = "idle" /\ after.row = call[c].row
      /\ after.before = call[c].before
  BY <1>1 DEF Call
<1>3. call' = [call EXCEPT ![c] = after]
  BY <1>1 DEF ReadFile
<1> HIDE DEF after
<1>4. call' \in [Clients -> Call] /\ call'[c] = after /\ \A x \in Clients : x # c => call'[x] = call[x]
  BY <1>1, <1>2, <1>3
<1>5. call[c].row = 0 /\ BeforeOK(c)
  BY <1>1 DEF CallInv, SaveOK
<1>6. Doing(c, "idle")' /\ call'[c].row = 0 /\ BeforeOK(c)'
  BY <1>1, <1>2, <1>4, <1>5 DEF Doing, BeforeOK
<1>7. CallInv(c)' /\ ~Checkpointed(c)'
  BY <1>6, Idling
<1> QED BY <1>1, <1>4, <1>7, Local

LEMMA SaveFileKeeps ==
  ASSUME EditInv, NEW c \in Clients, NEW text \in Texts, SaveFile(c, text)
  PROVE  EditInv'
<1> DEFINE after == [call[c] EXCEPT !.pc = "capture", !.text = text]
<1>1. /\ call \in [Clients -> Call] /\ call[c] \in Call /\ CallInv(c)
      /\ UNCHANGED <<tree, rows, artifacts, core, kept, writes, restarts>> /\ lock' = lock
      /\ lock \in [Documents -> Clients \cup {Absent}]
      /\ call[c].pc = "idle" /\ call[c].path # Absent
  BY DEF EditInv, EditTypeOK, SaveFile, Untouched, Doing
<1>2. /\ after \in Call /\ after.pc = "capture" /\ after.row = call[c].row
      /\ after.before = call[c].before /\ after.path = call[c].path
  BY <1>1 DEF Call
<1>3. call' = [call EXCEPT ![c] = after]
  BY <1>1 DEF SaveFile
<1> HIDE DEF after
<1>4. call' \in [Clients -> Call] /\ call'[c] = after /\ \A x \in Clients : x # c => call'[x] = call[x]
  BY <1>1, <1>2, <1>3
<1>5. call[c].row = 0 /\ BeforeOK(c) /\ call[c].path \in Documents
  BY <1>1 DEF CallInv, SaveOK, Call
<1>6. SaveOK(c)' /\ ~Checkpointed(c)'
  BY <1>2, <1>4, <1>5 DEF SaveOK, Checkpointed
<1>7. HasLock(c)' /\ RestoreOK(c)' /\ NamedOK(c)' /\ KnownOK(c)' /\ PatchOK(c)'
  BY <1>2, <1>4 DEF HasLock, RestoreOK, NamedOK, KnownOK, PatchOK, Doing
<1>8. BeforeOK(c)'
  BY <1>1, <1>2, <1>4, <1>5 DEF BeforeOK
<1>9. CallInv(c)'
  BY <1>6, <1>7, <1>8 DEF CallInv
<1> QED BY <1>1, <1>4, <1>6, <1>9, Local

LEMMA CaptureBeforeKeeps ==
  ASSUME EditInv, NEW c \in Clients, CaptureBefore(c)
  PROVE  EditInv'
<1> DEFINE p == call[c].path
           h == FileHash(p)
           new == [NewRow EXCEPT !.path = p]
           n == Len(rows) + 1
           after == [call[c] EXCEPT !.pc = "lock", !.before = h, !.row = n]
<1>1. /\ EditTypeOK /\ call \in [Clients -> Call] /\ call[c] \in Call /\ CallInv(c)
      /\ UNCHANGED <<tree, lock, core, kept, writes, restarts>>
      /\ call[c].pc = "capture"
      /\ rows \in Seq(Row) /\ Len(rows) \in Nat /\ Len(rows) < MaxRows /\ MaxRows \in Nat
      /\ artifacts \in [Hashes -> {"missing", "young", "old"}]
  BY BoundsAssumption DEF EditInv, EditTypeOK, CaptureBefore, Untouched, Doing
<1>2. p \in Documents
  BY <1>1 DEF CallInv, SaveOK, IsAtWork
<1>3. h \in Texts \cup {NoHash} /\ h \in Hashes \cup {NoHash}
  BY <1>1, <1>2, FileHashes
<1>4. artifacts' = Stored(h) /\ rows' = Append(rows, new) /\ call' = [call EXCEPT ![c] = after]
  BY <1>1 DEF CaptureBefore
<1>5. /\ new \in Row /\ new.path = p /\ ~new.changed /\ new.patch = NoHash
      /\ new.before = NoHash /\ new.after = NoHash
  BY <1>2 DEF NewRow, Row, NoHash
<1>6. /\ after \in Call /\ after.pc = "lock" /\ after.row = n /\ after.before = h /\ after.path = p
  <2>1. n \in 0 .. MaxRows
    BY <1>1
  <2> HIDE DEF n, h
  <2> QED BY <1>1, <1>3, <2>1 DEF Call, NoHash
<1>7. /\ artifacts' \in [Hashes -> {"missing", "young", "old"}]
      /\ \A x \in Hashes : artifacts[x] # "missing" => artifacts'[x] # "missing"
      /\ h # NoHash => artifacts'[h] # "missing"
  BY <1>1, <1>3, <1>4, Storing
<1> HIDE DEF p, h, new, after
<1>8. call' \in [Clients -> Call] /\ call'[c] = after /\ \A x \in Clients : x # c => call'[x] = call[x]
  BY <1>1, <1>4, <1>6
<1>9. /\ rows' \in Seq(Row) /\ Len(rows') = n /\ n <= MaxRows
      /\ RowIds' = RowIds \cup {n} /\ n \notin RowIds
      /\ \A r \in RowIds : rows'[r] = rows[r]
      /\ rows'[n] = new
  <2>1. rows' \in Seq(Row) /\ Len(rows') = n
    BY <1>1, <1>4, <1>5
  <2>2. DOMAIN rows' = 1 .. n /\ DOMAIN rows = 1 .. Len(rows)
    BY <1>1, <2>1
  <2> QED BY <1>1, <1>4, <1>5, <2>1, <2>2 DEF RowIds
<1>10. EditTypeOK'
  BY <1>1, <1>7, <1>8, <1>9 DEF EditTypeOK
<1>11. ASSUME NEW x \in Clients, x # c
       PROVE  CallKept(x)
  <2>1. call'[x] = call[x] /\ call'[x] \in Call
    BY <1>8, <1>11
  <2>2. RaceNoted(x)
    BY <1>1, <2>1 DEF RaceNoted
  <2>3. SaveOK(x) /\ RestoreOK(x)
    BY DEF EditInv, CallInv
  <2>4. /\ Checkpointed(x) => call[x].row \in RowIds
        /\ Doing(x, "apply") => call[x].row \in RowIds
    BY <2>3 DEF SaveOK, RestoreOK
  <2> QED BY <1>1, <1>7, <1>9, <2>2, <2>4 DEF CallKept
<1>12. CallInv(c)'
  <2>1. SaveOK(c)'
    BY <1>2, <1>5, <1>6, <1>8, <1>9 DEF SaveOK
  <2>2. HasLock(c)' /\ RestoreOK(c)' /\ NamedOK(c)' /\ KnownOK(c)' /\ PatchOK(c)'
    BY <1>6, <1>8 DEF HasLock, RestoreOK, NamedOK, KnownOK, PatchOK, Doing
  <2>3. BeforeOK(c)'
    BY <1>6, <1>7, <1>8 DEF BeforeOK
  <2> QED BY <2>1, <2>2, <2>3 DEF CallInv
<1>13. ASSUME NEW r \in RowIds'
       PROVE  RowInv(r)'
  <2>1. CASE r \in RowIds
    <3>1. RowInv(r) /\ rows[r] \in Row /\ rows'[r] = rows[r]
      BY <1>1, <1>9, <2>1 DEF EditInv, RowIds
    <3>2. RowHashes(r)' = RowHashes(r) /\ RowHashes(r) \ {NoHash} \subseteq Hashes
      BY <3>1 DEF RowHashes, Row, Hashes, NoHash
    <3> QED BY <1>1, <1>7, <3>1, <3>2 DEF RowInv
  <2>2. CASE r = n
    <3>1. RowHashes(r)' = {NoHash} /\ ~rows'[r].changed
      BY <1>5, <1>9, <2>2 DEF RowHashes
    <3> QED BY <3>1 DEF RowInv, NoHash
  <2> QED BY <1>9, <1>13, <2>1, <2>2
<1>14. Checkpointed(c)' => call'[c].row \notin RowIds
  BY <1>6, <1>8, <1>9
<1> QED BY <1>10, <1>11, <1>12, <1>13, <1>14, StepKept

LEMMA SkipCheckpointKeeps ==
  ASSUME EditInv, NEW c \in Clients, SkipCheckpoint(c)
  PROVE  EditInv'
<1> DEFINE p == call[c].path
           h == FileHash(p)
           after == [call[c] EXCEPT !.pc = "lock"]
<1>1. /\ EditTypeOK /\ call \in [Clients -> Call] /\ call[c] \in Call /\ CallInv(c)
      /\ UNCHANGED <<tree, lock, rows, core, kept, writes, restarts>>
      /\ call[c].pc = "capture"
      /\ artifacts \in [Hashes -> {"missing", "young", "old"}]
  BY DEF EditInv, EditTypeOK, SkipCheckpoint, Untouched, Doing
<1>2. p \in Documents /\ call[c].row = 0
  BY <1>1 DEF CallInv, SaveOK, IsAtWork
<1>3. h \in Hashes \cup {NoHash}
  BY <1>1, <1>2, FileHashes
<1>4. artifacts' \in {artifacts, Stored(h)} /\ call' = [call EXCEPT ![c] = after]
  BY <1>1 DEF SkipCheckpoint
<1>5. /\ after \in Call /\ after.pc = "lock" /\ after.row = 0
      /\ after.before = call[c].before /\ after.path = p
  BY <1>1, <1>2 DEF Call
<1>6. /\ artifacts' \in [Hashes -> {"missing", "young", "old"}]
      /\ \A x \in Hashes : artifacts[x] # "missing" => artifacts'[x] # "missing"
  BY <1>1, <1>3, <1>4, Storing
<1> HIDE DEF p, h, after
<1>7. call' \in [Clients -> Call] /\ call'[c] = after /\ \A x \in Clients : x # c => call'[x] = call[x]
  BY <1>1, <1>4, <1>5
<1>8. EditTypeOK'
  BY <1>1, <1>6, <1>7 DEF EditTypeOK
<1>9. ASSUME NEW x \in Clients, x # c
      PROVE  CallKept(x)
  <2>1. call'[x] = call[x] /\ call'[x] \in Call
    BY <1>7, <1>9
  <2>2. RaceNoted(x)
    BY <1>1, <2>1 DEF RaceNoted
  <2> QED BY <1>1, <1>6, <2>2 DEF CallKept, RowIds
<1>10. CallInv(c)' /\ ~Checkpointed(c)'
  <2>1. SaveOK(c)' /\ ~Checkpointed(c)'
    BY <1>2, <1>5, <1>7 DEF SaveOK, Checkpointed
  <2>2. HasLock(c)' /\ RestoreOK(c)' /\ NamedOK(c)' /\ KnownOK(c)' /\ PatchOK(c)'
    BY <1>5, <1>7 DEF HasLock, RestoreOK, NamedOK, KnownOK, PatchOK, Doing
  <2>3. BeforeOK(c) /\ call[c].before \in Hashes \cup {NoHash}
    BY <1>1 DEF CallInv, Call, Hashes
  <2>4. BeforeOK(c)'
    BY <1>1, <1>5, <1>6, <1>7, <2>3 DEF BeforeOK
  <2> QED BY <2>1, <2>2, <2>4 DEF CallInv
<1>11. \A r \in RowIds' : RowInv(r)'
  BY <1>1, <1>6, RowsStay
<1> QED BY <1>8, <1>9, <1>10, <1>11, StepKept

\* What the steps of a save have in common that leave everything but the call and
\* the lock alone, and go on.
LEMMA GoesOn ==
  ASSUME EditInv, NEW c \in Clients, IsAtWork(c), call[c].pc # "capture",
         UNCHANGED <<tree, rows, artifacts, core, kept, writes, restarts>>,
         NEW after \in Call, call' = [call EXCEPT ![c] = after],
         after.path = call[c].path, after.row = call[c].row, after.before = call[c].before,
         after.pc \in {"publish", "replace"},
         lock' \in [Documents -> Clients \cup {Absent}], lock'[call[c].path] = c,
         \A p \in Documents, x \in Clients : x # c /\ lock[p] = x => lock'[p] = x,
         after.pc = "replace" => tree[call[c].path] = after.named
  PROVE  EditInv'
<1>1. call \in [Clients -> Call] /\ CallInv(c)
  BY DEF EditInv, EditTypeOK
<1>2. call' \in [Clients -> Call] /\ call'[c] = after /\ \A x \in Clients : x # c => call'[x] = call[x]
  BY <1>1
<1>3. Checkpointed(c)' <=> Checkpointed(c)
  BY <1>2 DEF Checkpointed, IsAtWork
<1>4. SaveOK(c)'
  <2>1. SaveOK(c)
    BY <1>1 DEF CallInv
  <2>2. IsAtWork(c)' /\ call'[c].pc \notin {"idle", "capture"}
    BY <1>2 DEF IsAtWork
  <2> QED BY <1>2, <1>3, <2>1, <2>2 DEF SaveOK, RowIds
<1>5. HasLock(c)' /\ RestoreOK(c)' /\ NamedOK(c)' /\ KnownOK(c)' /\ PatchOK(c)'
  BY <1>2 DEF HasLock, RestoreOK, NamedOK, KnownOK, PatchOK, Doing
<1>6. BeforeOK(c)'
  BY <1>1, <1>2 DEF CallInv, BeforeOK
<1>7. CallInv(c)'
  BY <1>4, <1>5, <1>6 DEF CallInv
<1> QED BY <1>2, <1>3, <1>7, Local

LEMMA LockFileKeeps ==
  ASSUME EditInv, NEW c \in Clients, LockFile(c)
  PROVE  EditInv'
<1> DEFINE p == call[c].path
           after == [call[c] EXCEPT !.pc = "publish"]
<1>1. /\ EditTypeOK /\ call \in [Clients -> Call] /\ call[c] \in Call /\ CallInv(c)
      /\ UNCHANGED <<tree, rows, artifacts, core, kept, writes, restarts>>
      /\ lock \in [Documents -> Clients \cup {Absent}]
      /\ call[c].pc = "lock" /\ lock[p] = Absent /\ Absent \notin Clients
  BY ThingsAssumption DEF EditInv, EditTypeOK, LockFile, Untouched, Doing, LockIsFree
<1>2. p \in Documents /\ IsAtWork(c)
  BY <1>1 DEF CallInv, SaveOK, IsAtWork
<1>3. CASE Matches(c)
  <2>1. lock' = [lock EXCEPT ![p] = c] /\ call' = [call EXCEPT ![c] = after]
    BY <1>3 DEF LockFile, Goto
  <2>2. /\ after \in Call /\ after.pc = "publish" /\ after.path = call[c].path
        /\ after.row = call[c].row /\ after.before = call[c].before
    BY <1>1 DEF Call
  <2> HIDE DEF after
  <2>3. /\ lock' \in [Documents -> Clients \cup {Absent}] /\ lock'[call[c].path] = c
        /\ \A q \in Documents, x \in Clients : x # c /\ lock[q] = x => lock'[q] = x
    BY <1>1, <1>2, <2>1
  <2> HIDE DEF p
  <2> QED BY <1>1, <1>2, <2>1, <2>2, <2>3, GoesOn
<1>4. CASE ~Matches(c)
  <2>1. call' = Done(c) /\ lock' = lock
    BY <1>4 DEF LockFile
  <2>2. /\ call' \in [Clients -> Call]
        /\ \A x \in Clients : x # c => call'[x] = call[x]
        /\ CallInv(c)' /\ ~Checkpointed(c)'
    BY <1>1, <2>1, CallEnds
  <2> QED BY <1>1, <2>1, <2>2, Local
<1> QED BY <1>3, <1>4

LEMMA CheckAgainKeeps ==
  ASSUME EditInv, NEW c \in Clients, CheckAgain(c)
  PROVE  EditInv'
<1> DEFINE p == call[c].path
           after == [call[c] EXCEPT !.pc = "replace", !.raced = FALSE]
<1>1. /\ EditTypeOK /\ call \in [Clients -> Call] /\ call[c] \in Call /\ CallInv(c)
      /\ UNCHANGED <<tree, rows, artifacts, core, kept, writes, restarts>>
      /\ lock \in [Documents -> Clients \cup {Absent}]
      /\ call[c].pc = "publish"
  BY DEF EditInv, EditTypeOK, CheckAgain, Untouched, Doing
<1>2. p \in Documents /\ IsAtWork(c) /\ lock[p] = c
  BY <1>1 DEF CallInv, SaveOK, IsAtWork, HasLock
<1>3. CASE Matches(c)
  <2>1. lock' = lock /\ call' = [call EXCEPT ![c] = after] /\ tree[p] = call[c].named
    BY <1>3 DEF CheckAgain, Matches
  <2>2. /\ after \in Call /\ after.pc = "replace" /\ after.path = call[c].path
        /\ after.row = call[c].row /\ after.before = call[c].before /\ after.named = call[c].named
    BY <1>1 DEF Call
  <2> HIDE DEF after, p
  <2> QED BY <1>1, <1>2, <2>1, <2>2, GoesOn DEF p
<1>4. CASE ~Matches(c)
  <2>1. call' = Done(c) /\ lock' = [lock EXCEPT ![p] = Absent]
    BY <1>4 DEF CheckAgain, Unlocked
  <2>2. /\ call' \in [Clients -> Call]
        /\ \A x \in Clients : x # c => call'[x] = call[x]
        /\ CallInv(c)' /\ ~Checkpointed(c)'
    BY <1>1, <2>1, CallEnds
  <2>3. /\ lock' \in [Documents -> Clients \cup {Absent}]
        /\ \A q \in Documents, x \in Clients : x # c /\ lock[q] = x => lock'[q] = x
    BY <1>1, <1>2, <2>1
  <2> QED BY <1>1, <2>2, <2>3, Local
<1> QED BY <1>3, <1>4

-----------------------------------------------------------------------------
(***************************************************************************)
(* What writes to the tree.                                                *)
(***************************************************************************)

\* A race that is noted changes nothing else.
LEMMA Noting ==
  ASSUME NEW k \in Call, NEW yes \in BOOLEAN
  PROVE  LET noted == [k EXCEPT !.raced = @ \/ yes]
         IN /\ noted \in Call
            /\ noted.pc = k.pc /\ noted.path = k.path /\ noted.named = k.named
            /\ noted.before = k.before /\ noted.row = k.row /\ noted.force = k.force
            /\ k.raced \/ yes => noted.raced
<1>1. k.raced \in BOOLEAN
  BY DEF Call
<1> DEFINE race == k.raced \/ yes
<1>2. race \in BOOLEAN /\ (k.raced \/ yes => race)
  BY <1>1
<1> HIDE DEF race
<1>3. LET noted == [k EXCEPT !.raced = race]
      IN /\ noted \in Call
         /\ noted.pc = k.pc /\ noted.path = k.path /\ noted.named = k.named
         /\ noted.before = k.before /\ noted.row = k.row /\ noted.force = k.force
         /\ noted.raced = race
  BY <1>2 DEF Call
<1> QED BY <1>2, <1>3 DEF race

\* A write to p that connection x notes.
LEMMA WriteNoted ==
  ASSUME EditInv, NEW x \in Clients, NEW p \in Documents, NEW content, NEW yes \in BOOLEAN,
         tree' = [tree EXCEPT ![p] = content],
         call'[x] = [call[x] EXCEPT !.raced = @ \/ yes],
         IsSaving(x, p) \/ IsRestoring(x, p) => yes
  PROVE  RaceNoted(x)
<1>1. call[x] \in Call /\ tree \in [Documents -> Texts \cup {Absent, Folder}]
  BY DEF EditInv, EditTypeOK
<1>2. /\ call'[x] \in Call
      /\ call'[x].pc = call[x].pc /\ call'[x].path = call[x].path /\ call'[x].named = call[x].named
      /\ call'[x].before = call[x].before /\ call'[x].row = call[x].row
      /\ call'[x].force = call[x].force
      /\ call[x].raced \/ yes => call'[x].raced
  BY <1>1, Noting
<1>3. ASSUME NEW q \in Documents, tree'[q] # tree[q]
      PROVE  q = p
  BY <1>1, <1>3
<1> QED BY <1>2, <1>3 DEF RaceNoted

LEMMA RenameOverKeeps ==
  ASSUME EditInv, NEW c \in Clients, RenameOver(c)
  PROVE  EditInv'
<1> DEFINE p == call[c].path
           after == [call[c] EXCEPT !.pc = "reread", !.raced = FALSE]
<1>1. /\ EditTypeOK /\ call \in [Clients -> Call] /\ call[c] \in Call /\ CallInv(c)
      /\ UNCHANGED <<rows, artifacts, core, kept, writes, restarts>>
      /\ lock \in [Documents -> Clients \cup {Absent}]
      /\ tree \in [Documents -> Texts \cup {Absent, Folder}]
      /\ call[c].pc = "replace"
  BY DEF EditInv, EditTypeOK, RenameOver, Untouched, Doing
<1>2. p \in Documents /\ IsAtWork(c) /\ lock[p] = c
  BY <1>1 DEF CallInv, SaveOK, IsAtWork, HasLock
<1>3. CASE CanPublish(c)
  <2>1. /\ tree' = [tree EXCEPT ![p] = call[c].text] /\ lock' = lock
        /\ call' = [RacedByLocked(p) EXCEPT ![c] = after]
    BY <1>3 DEF RenameOver
  <2>2. /\ after \in Call /\ after.pc = "reread" /\ after.path = call[c].path
        /\ after.row = call[c].row /\ after.before = call[c].before
    BY <1>1 DEF Call
  <2> HIDE DEF after
  <2>3. ASSUME NEW x \in Clients, x # c
        PROVE  CallKept(x) /\ call'[x] \in Call
    <3> DEFINE yes == IsRestoring(x, p)
    <3>1. yes \in BOOLEAN
      BY DEF IsRestoring
    <3>2. call'[x] = [call[x] EXCEPT !.raced = @ \/ yes]
      BY <2>1, <2>3 DEF RacedByLocked
    <3>3. ~IsSaving(x, p)
      <4>1. HasLock(x)
        BY DEF EditInv, CallInv
      <4> QED BY <1>2, <2>3, <4>1 DEF HasLock, IsSaving, Doing
    <3> HIDE DEF yes
    <3>4. RaceNoted(x)
      BY <1>2, <2>1, <3>1, <3>2, <3>3, WriteNoted DEF yes
    <3> QED BY <1>1, <2>1, <3>4 DEF CallKept, RowIds, RaceNoted
  <2>4. call'[c] = after /\ call' \in [Clients -> Call]
    <3>1. DOMAIN call' = Clients /\ call' = [x \in Clients |-> call'[x]] /\ call'[c] = after
      BY <2>1 DEF RacedByLocked
    <3> QED BY <2>2, <2>3, <3>1
  <2>5. EditTypeOK'
    <3>1. call[c].text \in Texts \cup {Absent}
      BY <1>1 DEF Call
    <3>2. tree' \in [Documents -> Texts \cup {Absent, Folder}]
      BY <1>1, <2>1, <3>1
    <3> QED BY <1>1, <2>1, <2>4, <3>2 DEF EditTypeOK
  <2>6. Checkpointed(c)' <=> Checkpointed(c)
    BY <1>2, <2>2, <2>4 DEF Checkpointed, IsAtWork
  <2>7. CallInv(c)'
    <3>1. SaveOK(c) /\ BeforeOK(c)
      BY <1>1 DEF CallInv
    <3>2. SaveOK(c)'
      BY <1>1, <1>2, <2>2, <2>4, <2>6, <3>1 DEF SaveOK, RowIds
    <3>3. HasLock(c)' /\ RestoreOK(c)' /\ NamedOK(c)' /\ KnownOK(c)' /\ PatchOK(c)'
      BY <1>2, <2>1, <2>2, <2>4 DEF HasLock, RestoreOK, NamedOK, KnownOK, PatchOK, Doing
    <3>4. BeforeOK(c)'
      BY <1>1, <2>2, <2>4, <3>1 DEF BeforeOK
    <3> QED BY <3>2, <3>3, <3>4 DEF CallInv
  <2>8. \A r \in RowIds' : RowInv(r)'
    BY <1>1, RowsStay
  <2> QED BY <2>2, <2>3, <2>4, <2>5, <2>6, <2>7, <2>8, StepKept
<1>4. CASE ~CanPublish(c)
  <2>1. call' = Done(c) /\ lock' = [lock EXCEPT ![p] = Absent] /\ tree' = tree
    BY <1>4 DEF RenameOver, Unlocked
  <2>2. /\ call' \in [Clients -> Call]
        /\ \A x \in Clients : x # c => call'[x] = call[x]
        /\ CallInv(c)' /\ ~Checkpointed(c)'
    BY <1>1, <2>1, CallEnds
  <2>3. /\ lock' \in [Documents -> Clients \cup {Absent}]
        /\ \A q \in Documents, x \in Clients : x # c /\ lock[q] = x => lock'[q] = x
    BY <1>1, <1>2, <2>1
  <2> QED BY <1>1, <2>1, <2>2, <2>3, Local
<1> QED BY <1>3, <1>4

LEMMA RestoreItemKeeps ==
  ASSUME EditInv, NEW c \in Clients, RestoreItem(c)
  PROVE  EditInv'
<1> DEFINE r == call[c].row
           p == rows[r].path
           done == Done(c)[c]
<1>1. /\ EditTypeOK /\ call \in [Clients -> Call] /\ call[c] \in Call /\ CallInv(c)
      /\ UNCHANGED <<lock, rows, artifacts, core, kept, writes, restarts>>
      /\ tree \in [Documents -> Texts \cup {Absent, Folder}]
      /\ rows \in Seq(Row)
      /\ call[c].pc = "apply"
      /\ tree' = [tree EXCEPT ![p] = Restored(r)]
      /\ call' = [Raced(p) EXCEPT ![c] = done]
  BY DEF EditInv, EditTypeOK, RestoreItem, Untouched, Doing
<1>2. r \in RowIds /\ rows[r].changed /\ rows[r] \in Row
  BY <1>1 DEF CallInv, RestoreOK, Doing, RowIds
<1>3. p \in Documents
  BY <1>2 DEF EditInv, RowInv
<1>4. Restored(r) \in Texts \cup {Absent}
  BY <1>2 DEF Restored, Row, NoHash
<1>5. /\ done \in Call /\ done.pc = "idle" /\ done.row = 0 /\ done.before = NoHash
  <2>1. done = [Fresh EXCEPT !.path = call[c].path, !.named = call[c].named]
    BY <1>1 DEF Done
  <2>2. 0 \in 0 .. MaxRows
    BY BoundsAssumption
  <2> QED BY <1>1, <2>1, <2>2 DEF Fresh, Call, NoHash
<1> HIDE DEF done
<1>6. ASSUME NEW x \in Clients, x # c
      PROVE  CallKept(x) /\ call'[x] \in Call
  <2> DEFINE yes == IsRestoring(x, p) \/ IsSaving(x, p)
  <2>1. yes \in BOOLEAN
    BY DEF IsRestoring, IsSaving
  <2>2. call'[x] = [call[x] EXCEPT !.raced = @ \/ yes]
    BY <1>1, <1>6 DEF Raced
  <2>3. IsSaving(x, p) \/ IsRestoring(x, p) => yes
    OBVIOUS
  <2> HIDE DEF yes, p
  <2>4. RaceNoted(x)
    BY <1>1, <1>3, <2>1, <2>2, <2>3, WriteNoted
  <2> QED BY <1>1, <2>4 DEF CallKept, RowIds, RaceNoted
<1>7. call'[c] = done /\ call' \in [Clients -> Call]
  <2>1. call' = [x \in Clients |-> call'[x]] /\ call'[c] = done
    BY <1>1 DEF Raced
  <2> QED BY <1>5, <1>6, <2>1
<1>8. EditTypeOK'
  <2>1. tree' \in [Documents -> Texts \cup {Absent, Folder}]
    BY <1>1, <1>3, <1>4
  <2> QED BY <1>1, <1>7, <2>1 DEF EditTypeOK
<1>9. CallInv(c)' /\ ~Checkpointed(c)'
  <2>1. Doing(c, "idle")' /\ call'[c].row = 0 /\ BeforeOK(c)'
    BY <1>5, <1>7 DEF Doing, BeforeOK
  <2> QED BY <2>1, Idling
<1>10. \A s \in RowIds' : RowInv(s)'
  BY <1>1, RowsStay
<1> QED BY <1>6, <1>8, <1>9, <1>10, StepKept

\* Another program is no connection.
LEMMA WriteOutsideKeeps ==
  ASSUME EditInv, NEW p \in Documents, NEW thing \in Things, WriteOutside(p, thing)
  PROVE  EditInv'
<1>1. /\ EditTypeOK /\ call \in [Clients -> Call]
      /\ UNCHANGED <<lock, rows, artifacts, core, kept, restarts>>
      /\ tree \in [Documents -> Texts \cup {Absent, Folder}]
      /\ tree' = [tree EXCEPT ![p] = thing]
      /\ call' = Raced(p)
      /\ writes' \in 0 .. MaxWrites
  BY BoundsAssumption DEF EditInv, EditTypeOK, WriteOutside
<1>2. ASSUME NEW x \in Clients
      PROVE  CallKept(x) /\ call'[x] \in Call
  <2> DEFINE yes == IsRestoring(x, p) \/ IsSaving(x, p)
  <2>1. yes \in BOOLEAN
    BY DEF IsRestoring, IsSaving
  <2>2. call'[x] = [call[x] EXCEPT !.raced = @ \/ yes]
    BY <1>1 DEF Raced
  <2>3. IsSaving(x, p) \/ IsRestoring(x, p) => yes
    OBVIOUS
  <2> HIDE DEF yes
  <2>4. RaceNoted(x)
    BY <1>1, <2>1, <2>2, <2>3, WriteNoted
  <2> QED BY <1>1, <2>4 DEF CallKept, RowIds, RaceNoted
<1>3. call' \in [Clients -> Call]
  BY <1>1, <1>2 DEF Raced
<1>4. EditTypeOK'
  <2>1. tree' \in [Documents -> Texts \cup {Absent, Folder}]
    BY <1>1, ThingsAssumption
  <2> QED BY <1>1, <1>3, <2>1 DEF EditTypeOK
<1>5. \A r \in RowIds' : RowInv(r)'
  BY <1>1, RowsStay
<1>6. Absent \notin Clients
  BY ThingsAssumption
<1> QED BY <1>2, <1>4, <1>5, <1>6, StepKept

-----------------------------------------------------------------------------
(***************************************************************************)
(* The end of a save, checkpoints and restores.                            *)
(***************************************************************************)

LEMMA AnswerSaveKeeps ==
  ASSUME EditInv, NEW c \in Clients, AnswerSave(c)
  PROVE  EditInv'
<1> DEFINE p == call[c].path
           next == IF call[c].row = 0 THEN "idle" ELSE "change"
           after == [call[c] EXCEPT !.named = tree[p], !.pc = next]
<1>1. /\ EditTypeOK /\ call \in [Clients -> Call] /\ call[c] \in Call /\ CallInv(c)
      /\ UNCHANGED <<tree, rows, artifacts, core, kept, writes, restarts>>
      /\ lock \in [Documents -> Clients \cup {Absent}]
      /\ call[c].pc = "reread"
      /\ lock' = [lock EXCEPT ![p] = Absent]
  BY DEF EditInv, EditTypeOK, AnswerSave, Untouched, Doing, Unlocked
<1>2. p \in Documents /\ IsAtWork(c) /\ lock[p] = c
  BY <1>1 DEF CallInv, SaveOK, IsAtWork, HasLock
<1>3. /\ lock' \in [Documents -> Clients \cup {Absent}]
      /\ \A q \in Documents, x \in Clients : x # c /\ lock[q] = x => lock'[q] = x
  BY <1>1, <1>2
<1>4. CASE IsFile(p)
  <2>1. call' = [call EXCEPT ![c] = after] /\ tree[p] \in Texts
    BY <1>1, <1>4 DEF AnswerSave, IsFile
  <2>2. /\ after \in Call /\ after.pc = next /\ after.path = call[c].path
        /\ after.row = call[c].row /\ after.before = call[c].before
    <3>1. next \in {"idle", "change"}
      OBVIOUS
    <3> HIDE DEF next
    <3> QED BY <1>1, <2>1, <3>1 DEF Call
  <2> HIDE DEF after, p
  <2>3. call' \in [Clients -> Call] /\ call'[c] = after /\ \A x \in Clients : x # c => call'[x] = call[x]
    BY <1>1, <2>1, <2>2
  <2>4. SaveOK(c) /\ BeforeOK(c)
    BY <1>1 DEF CallInv
  <2>5. BeforeOK(c)'
    BY <1>1, <2>2, <2>3, <2>4 DEF BeforeOK
  <2>6. CASE call[c].row = 0
    <3>1. Doing(c, "idle")' /\ call'[c].row = 0
      BY <2>2, <2>3, <2>6 DEF Doing
    <3>2. CallInv(c)' /\ ~Checkpointed(c)'
      BY <2>5, <3>1, Idling
    <3> QED BY <1>1, <1>3, <2>3, <3>2, Local
  <2>7. CASE call[c].row # 0
    <3>1. call'[c].pc = "change"
      BY <2>2, <2>3, <2>7
    <3>2. Checkpointed(c)' /\ Checkpointed(c)
      BY <1>2, <2>2, <2>3, <2>7, <3>1 DEF Checkpointed, IsAtWork
    <3>3. SaveOK(c)'
      BY <1>1, <1>2, <2>2, <2>3, <2>4, <3>1, <3>2 DEF SaveOK, RowIds, IsAtWork
    <3>4. HasLock(c)' /\ RestoreOK(c)' /\ NamedOK(c)' /\ KnownOK(c)' /\ PatchOK(c)'
      BY <3>1 DEF HasLock, RestoreOK, NamedOK, KnownOK, PatchOK, Doing
    <3>5. CallInv(c)'
      BY <2>5, <3>3, <3>4 DEF CallInv
    <3> QED BY <1>1, <1>3, <2>2, <2>3, <3>2, <3>5, Local
  <2> QED BY <2>6, <2>7
<1>5. CASE ~IsFile(p)
  <2>1. call' = Done(c)
    BY <1>5 DEF AnswerSave
  <2>2. /\ call' \in [Clients -> Call]
        /\ \A x \in Clients : x # c => call'[x] = call[x]
        /\ CallInv(c)' /\ ~Checkpointed(c)'
    BY <1>1, <2>1, CallEnds
  <2> QED BY <1>1, <1>3, <2>2, Local
<1> QED BY <1>4, <1>5

\* The hashes that a change gets are stored, and were not removed since: the clean-up
\* that comes between is one that has looked already.
LEMMA RecordChangeKeeps ==
  ASSUME EditInv, NEW c \in Clients, RecordChange(c)
  PROVE  EditInv'
<1> DEFINE p == call[c].path
           r == call[c].row
           h == FileHash(p)
           row == [rows[r] EXCEPT !.changed = TRUE, !.before = call[c].before, !.after = h,
                                  !.wrote = call[c].text, !.late = IsLate]
<1>1. /\ EditTypeOK /\ call \in [Clients -> Call] /\ call[c] \in Call /\ CallInv(c)
      /\ UNCHANGED <<tree, lock, core, kept, writes, restarts>>
      /\ call[c].pc = "change"
      /\ rows \in Seq(Row) /\ Len(rows) <= MaxRows
      /\ artifacts \in [Hashes -> {"missing", "young", "old"}]
      /\ artifacts' = Stored(h) /\ call' = Done(c)
      /\ core \in {"up", "stopping", "sweeping", "swept"}
  BY DEF EditInv, EditTypeOK, RecordChange, Untouched, Doing
<1>2. p \in Documents /\ Checkpointed(c) /\ r \in RowIds /\ rows[r].path = p /\ rows[r].patch = NoHash
  <2>1. SaveOK(c) /\ IsAtWork(c)
    BY <1>1 DEF CallInv, IsAtWork
  <2> QED BY <1>1, <2>1 DEF SaveOK, Checkpointed
<1>3. h \in Texts \cup {NoHash} /\ h \in Hashes \cup {NoHash}
  BY <1>1, <1>2, FileHashes
<1>4. /\ artifacts' \in [Hashes -> {"missing", "young", "old"}]
      /\ \A x \in Hashes : artifacts[x] # "missing" => artifacts'[x] # "missing"
      /\ h # NoHash => artifacts'[h] # "missing"
  BY <1>1, <1>3, Storing
<1>5. /\ row \in Row /\ row.path = p /\ row.before = call[c].before /\ row.after = h
      /\ row.patch = NoHash /\ row.late = IsLate
  <2>1. IsLate \in BOOLEAN /\ rows[r] \in Row
    BY <1>1, <1>2 DEF IsLate, RowIds
  <2>2. call[c].before \in Texts \cup {NoHash} /\ call[c].text \in Texts \cup {Absent}
    BY <1>1 DEF Call
  <2> HIDE DEF h
  <2> QED BY <1>2, <1>3, <2>1, <2>2 DEF Row
<1>6. rows' = [rows EXCEPT ![r] = row]
  BY DEF RecordChange
<1> HIDE DEF p, r, h, row
<1>7. rows' \in Seq(Row) /\ Len(rows') = Len(rows) /\ rows'[r] = row
      /\ RowIds' = RowIds /\ \A s \in RowIds : s # r => rows'[s] = rows[s]
  BY <1>1, <1>2, <1>5, <1>6 DEF RowIds
<1>8. /\ call' \in [Clients -> Call]
      /\ \A x \in Clients : x # c => call'[x] = call[x]
      /\ CallInv(c)' /\ ~Checkpointed(c)'
  BY <1>1, CallEnds
<1>9. EditTypeOK'
  BY <1>1, <1>4, <1>7, <1>8 DEF EditTypeOK
<1>10. ASSUME NEW x \in Clients, x # c
       PROVE  CallKept(x)
  <2>1. call'[x] = call[x] /\ call'[x] \in Call
    BY <1>8, <1>10
  <2>2. RaceNoted(x)
    BY <1>1, <2>1 DEF RaceNoted
  <2>3. SaveOK(x) /\ RestoreOK(x) /\ SaveOK(c) /\ OwnRows
    BY DEF EditInv, CallInv
  <2>4. Checkpointed(x) => call[x].row \in RowIds /\ call[x].row # r
    BY <1>2, <1>10, <2>3 DEF SaveOK, OwnRows, r
  <2>5. Doing(x, "apply") => call[x].row \in RowIds /\ call[x].row # r
    BY <1>2, <2>3 DEF SaveOK, RestoreOK, r
  <2> QED BY <1>1, <1>4, <1>7, <2>2, <2>4, <2>5 DEF CallKept
<1>11. ASSUME NEW s \in RowIds'
       PROVE  RowInv(s)'
  <2>1. CASE s # r
    <3>1. RowInv(s) /\ rows[s] \in Row /\ rows'[s] = rows[s]
      BY <1>1, <1>7, <2>1 DEF EditInv, RowIds
    <3>2. RowHashes(s)' = RowHashes(s) /\ RowHashes(s) \ {NoHash} \subseteq Hashes
      BY <3>1 DEF RowHashes, Row, Hashes, NoHash
    <3> QED BY <1>1, <1>4, <3>1, <3>2 DEF RowInv
  <2>2. CASE s = r
    <3>1. RowHashes(s)' = {call[c].before, h, NoHash}
      BY <1>5, <1>7, <2>2 DEF RowHashes
    <3>2. CASE IsLate
      BY <1>2, <1>5, <1>7, <2>2, <3>2 DEF RowInv
    <3>3. CASE ~IsLate
      <4>1. core \in {"up", "stopping"} /\ core' # "sweeping"
        BY <1>1, <3>3 DEF IsLate
      <4>2. call[c].before # NoHash => artifacts[call[c].before] # "missing"
        BY <1>1, <4>1 DEF CallInv, BeforeOK
      <4>3. call[c].before # NoHash => call[c].before \in Hashes
        BY <1>1 DEF Call, Hashes
      <4>4. call[c].before # NoHash => artifacts'[call[c].before] # "missing"
        BY <1>4, <4>2, <4>3
      <4> QED BY <1>2, <1>4, <1>5, <1>7, <2>2, <3>1, <4>1, <4>4 DEF RowInv
    <3> QED BY <3>2, <3>3
  <2> QED BY <2>1, <2>2
<1> QED BY <1>8, <1>9, <1>10, <1>11, StepKept

\* A call that ends without a trace.
LEMMA DoneKeeps ==
  ASSUME EditInv, NEW c \in Clients, SkipChange(c) \/ RestoreFails(c) \/ SkipSnapshot(c)
  PROVE  EditInv'
<1>1. /\ EditTypeOK /\ call' = Done(c) /\ lock \in [Documents -> Clients \cup {Absent}]
      /\ UNCHANGED <<tree, rows, artifacts, core, kept, writes, restarts>> /\ lock' = lock
  BY DEF EditInv, EditTypeOK, SkipChange, RestoreFails, SkipSnapshot, Untouched
<1>2. /\ call' \in [Clients -> Call]
      /\ \A x \in Clients : x # c => call'[x] = call[x]
      /\ CallInv(c)' /\ ~Checkpointed(c)'
  BY <1>1, CallEnds
<1> QED BY <1>1, <1>2, Local

LEMMA PreviewRestoreKeeps ==
  ASSUME EditInv, NEW c \in Clients, NEW r \in RowIds, NEW force \in BOOLEAN,
         PreviewRestore(c, r, force)
  PROVE  EditInv'
<1> DEFINE after == [Fresh EXCEPT !.pc = "apply", !.row = r, !.force = force]
<1>1. /\ EditTypeOK /\ call \in [Clients -> Call] /\ call[c] \in Call /\ CallInv(c)
      /\ UNCHANGED <<tree, rows, artifacts, core, kept, writes, restarts>> /\ lock' = lock
      /\ lock \in [Documents -> Clients \cup {Absent}]
      /\ tree \in [Documents -> Texts \cup {Absent, Folder}]
      /\ rows \in Seq(Row) /\ Len(rows) <= MaxRows /\ MaxRows \in Nat
      /\ rows[r].changed /\ Action(r) # "skip" /\ (force \/ ~Conflicts(r))
      /\ call' = [call EXCEPT ![c] = after]
  BY BoundsAssumption DEF EditInv, EditTypeOK, PreviewRestore, Untouched
<1>2. /\ after \in Call /\ after.pc = "apply" /\ after.row = r /\ after.force = force
      /\ after.before = NoHash
  <2>1. r \in 0 .. MaxRows
    BY <1>1 DEF RowIds
  <2> QED BY <2>1 DEF Fresh, Call, NoHash
<1> HIDE DEF after
<1>3. call' \in [Clients -> Call] /\ call'[c] = after /\ \A x \in Clients : x # c => call'[x] = call[x]
  BY <1>1, <1>2
<1>4. rows[r].path \in Documents /\ rows[r] \in Row
  BY <1>1 DEF EditInv, RowInv, RowIds
<1>5. force \/ tree[rows[r].path] \in {rows[r].before, rows[r].after, Absent, Folder}
  BY <1>1, <1>4 DEF Conflicts, IsFile, Action
<1>6. KnownOK(c)' /\ RestoreOK(c)'
  BY <1>1, <1>2, <1>3, <1>5 DEF KnownOK, RestoreOK, RowIds, Action
<1>7. HasLock(c)' /\ SaveOK(c)' /\ NamedOK(c)' /\ PatchOK(c)' /\ ~Checkpointed(c)'
  BY <1>2, <1>3 DEF HasLock, SaveOK, NamedOK, PatchOK, Checkpointed, IsAtWork, Doing
<1>8. BeforeOK(c)'
  BY <1>2, <1>3 DEF BeforeOK
<1>9. CallInv(c)'
  BY <1>6, <1>7, <1>8 DEF CallInv
<1> QED BY <1>1, <1>3, <1>7, <1>9, Local

LEMMA TakeSnapshotKeeps ==
  ASSUME EditInv, NEW c \in Clients, TakeSnapshot(c)
  PROVE  EditInv'
<1> DEFINE after == [Fresh EXCEPT !.pc = "diff"]
<1>1. /\ EditTypeOK /\ call \in [Clients -> Call]
      /\ UNCHANGED <<tree, rows, artifacts, core, kept, writes, restarts>> /\ lock' = lock
      /\ lock \in [Documents -> Clients \cup {Absent}]
      /\ call' = [call EXCEPT ![c] = after]
  BY DEF EditInv, EditTypeOK, TakeSnapshot, Untouched
<1>2. after \in Call /\ after.pc = "diff" /\ after.row = 0 /\ after.before = NoHash
  <2>1. 0 \in 0 .. MaxRows
    BY BoundsAssumption
  <2> QED BY <2>1 DEF Fresh, Call, NoHash
<1> HIDE DEF after
<1>3. call' \in [Clients -> Call] /\ call'[c] = after /\ \A x \in Clients : x # c => call'[x] = call[x]
  BY <1>1, <1>2
<1>4. HasLock(c)' /\ RestoreOK(c)' /\ NamedOK(c)' /\ KnownOK(c)' /\ PatchOK(c)'
  BY <1>2, <1>3 DEF HasLock, RestoreOK, NamedOK, KnownOK, PatchOK, Doing
<1>5. SaveOK(c)' /\ BeforeOK(c)' /\ ~Checkpointed(c)'
  BY <1>2, <1>3 DEF SaveOK, BeforeOK, Checkpointed, IsAtWork
<1>6. CallInv(c)'
  BY <1>4, <1>5 DEF CallInv
<1> QED BY <1>1, <1>3, <1>5, <1>6, Local

LEMMA StorePatchKeeps ==
  ASSUME EditInv, NEW c \in Clients, StorePatch(c)
  PROVE  EditInv'
<1> DEFINE after == [call[c] EXCEPT !.pc = "insert"]
<1>1. /\ EditTypeOK /\ call \in [Clients -> Call] /\ call[c] \in Call /\ CallInv(c)
      /\ UNCHANGED <<tree, lock, rows, core, kept, writes, restarts>>
      /\ call[c].pc = "diff"
      /\ artifacts \in [Hashes -> {"missing", "young", "old"}]
      /\ artifacts' = Stored(Patch) /\ call' = [call EXCEPT ![c] = after]
  BY DEF EditInv, EditTypeOK, StorePatch, Untouched, Doing, Goto
<1>2. Patch \in Hashes \cup {NoHash} /\ Patch \in Hashes
  BY DEF Hashes
<1>3. after \in Call /\ after.pc = "insert" /\ after.before = call[c].before
  BY <1>1 DEF Call
<1>4. /\ artifacts' \in [Hashes -> {"missing", "young", "old"}]
      /\ \A x \in Hashes : artifacts[x] # "missing" => artifacts'[x] # "missing"
      /\ Patch # NoHash => artifacts'[Patch] # "missing"
  BY <1>1, <1>2, Storing
<1> HIDE DEF after
<1>5. call' \in [Clients -> Call] /\ call'[c] = after /\ \A x \in Clients : x # c => call'[x] = call[x]
  BY <1>1, <1>3
<1>6. EditTypeOK'
  BY <1>1, <1>4, <1>5 DEF EditTypeOK
<1>7. ASSUME NEW x \in Clients, x # c
      PROVE  CallKept(x)
  <2>1. call'[x] = call[x] /\ call'[x] \in Call
    BY <1>5, <1>7
  <2>2. RaceNoted(x)
    BY <1>1, <2>1 DEF RaceNoted
  <2> QED BY <1>1, <1>4, <2>2 DEF CallKept, RowIds
<1>8. CallInv(c)' /\ ~Checkpointed(c)'
  <2>1. HasLock(c)' /\ RestoreOK(c)' /\ NamedOK(c)' /\ KnownOK(c)'
    BY <1>3, <1>5 DEF HasLock, RestoreOK, NamedOK, KnownOK, Doing
  <2>2. SaveOK(c)' /\ ~Checkpointed(c)'
    BY <1>3, <1>5 DEF SaveOK, Checkpointed, IsAtWork
  <2>3. BeforeOK(c) /\ call[c].before \in Hashes \cup {NoHash}
    BY <1>1 DEF CallInv, Call, Hashes
  <2>4. BeforeOK(c)'
    BY <1>1, <1>3, <1>4, <1>5, <2>3 DEF BeforeOK
  <2>5. Patch # NoHash
    BY ThingsAssumption DEF NoHash
  <2>6. PatchOK(c)'
    BY <1>2, <1>4, <2>5 DEF PatchOK
  <2> QED BY <2>1, <2>2, <2>4, <2>6 DEF CallInv
<1>9. \A r \in RowIds' : RowInv(r)'
  BY <1>1, <1>4, RowsStay
<1> QED BY <1>6, <1>7, <1>8, <1>9, StepKept

\* A row is written for a patch that is stored, and that was not removed since: the
\* clean-up that comes between is one that has looked already.
LEMMA InsertSnapshotKeeps ==
  ASSUME EditInv, NEW c \in Clients, InsertSnapshot(c)
  PROVE  EditInv'
<1> DEFINE patch == IF Doing(c, "insert") THEN Patch ELSE NoHash
           new == [NewRow EXCEPT !.kind = "snapshot", !.late = IsLate, !.patch = patch]
           n == Len(rows) + 1
<1>1. /\ EditTypeOK /\ UNCHANGED <<tree, lock, artifacts, core, kept, writes, restarts>>
      /\ rows \in Seq(Row) /\ Len(rows) \in Nat /\ Len(rows) < MaxRows /\ MaxRows \in Nat
      /\ artifacts \in [Hashes -> {"missing", "young", "old"}]
      /\ rows' = Append(rows, new) /\ call' = Done(c)
      /\ core \in {"up", "stopping", "sweeping", "swept"}
      /\ call \in [Clients -> Call] /\ CallInv(c)
  BY BoundsAssumption DEF EditInv, EditTypeOK, InsertSnapshot, Untouched
<1>2. patch \in {Patch, NoHash} /\ (patch # NoHash => Doing(c, "insert") /\ patch = Patch)
  OBVIOUS
<1>3. IsLate \in BOOLEAN
  BY <1>1 DEF IsLate
<1> HIDE DEF patch
<1>4. /\ new \in Row /\ ~new.changed /\ new.before = NoHash /\ new.after = NoHash
      /\ new.patch = patch /\ new.late = IsLate
  BY <1>2, <1>3 DEF NewRow, Row, NoHash
<1> HIDE DEF new
<1>5. /\ rows' \in Seq(Row) /\ Len(rows') = n /\ n <= MaxRows
      /\ RowIds' = RowIds \cup {n} /\ n \notin RowIds
      /\ \A r \in RowIds : rows'[r] = rows[r]
      /\ rows'[n] = new
  <2>1. rows' \in Seq(Row) /\ Len(rows') = n
    BY <1>1, <1>4
  <2>2. DOMAIN rows' = 1 .. n /\ DOMAIN rows = 1 .. Len(rows)
    BY <1>1, <2>1
  <2> QED BY <1>1, <1>4, <2>1, <2>2 DEF RowIds
<1>6. /\ call' \in [Clients -> Call]
      /\ \A x \in Clients : x # c => call'[x] = call[x]
      /\ CallInv(c)' /\ ~Checkpointed(c)'
  BY <1>1, CallEnds
<1>7. EditTypeOK'
  BY <1>1, <1>5, <1>6 DEF EditTypeOK
<1>8. ASSUME NEW x \in Clients, x # c
      PROVE  CallKept(x)
  <2>1. call'[x] = call[x] /\ call'[x] \in Call
    BY <1>6, <1>8
  <2>2. RaceNoted(x)
    BY <1>1, <2>1 DEF RaceNoted
  <2>3. SaveOK(x) /\ RestoreOK(x)
    BY DEF EditInv, CallInv
  <2>4. /\ Checkpointed(x) => call[x].row \in RowIds
        /\ Doing(x, "apply") => call[x].row \in RowIds
    BY <2>3 DEF SaveOK, RestoreOK
  <2> QED BY <1>1, <1>5, <2>2, <2>4 DEF CallKept
<1>9. ASSUME NEW r \in RowIds'
      PROVE  RowInv(r)'
  <2>1. CASE r \in RowIds
    <3>1. RowInv(r) /\ rows[r] \in Row /\ rows'[r] = rows[r]
      BY <1>1, <1>5, <2>1 DEF EditInv, RowIds
    <3>2. RowHashes(r)' = RowHashes(r) /\ RowHashes(r) \ {NoHash} \subseteq Hashes
      BY <3>1 DEF RowHashes, Row, Hashes, NoHash
    <3> QED BY <1>1, <3>1, <3>2 DEF RowInv
  <2>2. CASE r = n
    <3>1. RowHashes(r)' = {NoHash, patch} /\ ~rows'[r].changed /\ rows'[r].late = IsLate
      BY <1>4, <1>5, <2>2 DEF RowHashes
    <3>2. CASE IsLate
      BY <3>1, <3>2 DEF RowInv
    <3>3. CASE ~IsLate
      <4>1. core \in {"up", "stopping"} /\ core' # "sweeping"
        BY <1>1, <3>3 DEF IsLate
      <4>2. patch # NoHash => artifacts'[patch] # "missing"
        BY <1>1, <1>2, <4>1 DEF CallInv, PatchOK
      <4> QED BY <3>1, <4>1, <4>2 DEF RowInv
    <3> QED BY <3>2, <3>3
  <2> QED BY <1>5, <1>9, <2>1, <2>2
<1> QED BY <1>6, <1>7, <1>8, <1>9, StepKept

-----------------------------------------------------------------------------
(***************************************************************************)
(* Time and the end of the core.                                           *)
(***************************************************************************)

LEMMA MonthPassesKeeps ==
  ASSUME EditInv, MonthPasses
  PROVE  EditInv'
<1>1. /\ UNCHANGED <<tree, lock, call, rows, core, kept, writes, restarts>>
      /\ artifacts \in [Hashes -> {"missing", "young", "old"}]
      /\ artifacts' = [h \in Hashes |-> IF artifacts[h] = "young" THEN "old" ELSE artifacts[h]]
      /\ call \in [Clients -> Call]
  BY DEF EditInv, EditTypeOK, MonthPasses, Untouched
<1>2. /\ artifacts' \in [Hashes -> {"missing", "young", "old"}]
      /\ \A h \in Hashes : artifacts[h] # "missing" => artifacts'[h] # "missing"
  BY <1>1
<1>3. EditTypeOK'
  BY <1>1, <1>2 DEF EditInv, EditTypeOK
<1>4. \A x \in Clients : CallKept(x)
  BY <1>1, <1>2 DEF CallKept, RaceNoted, RowIds
<1>5. \A r \in RowIds' : RowInv(r)'
  BY <1>1, <1>2, RowsStay
<1>6. Absent \notin Clients
  BY ThingsAssumption
<1> QED BY <1>3, <1>4, <1>5, <1>6, StepKept

\* A shutdown, up to the removal.
LEMMA ShutdownKeeps ==
  ASSUME EditInv, RequestShutdown \/ FindReferences
  PROVE  EditInv'
<1>1. /\ UNCHANGED <<tree, lock, call, rows, artifacts, writes, restarts>>
      /\ call \in [Clients -> Call]
      /\ core \in {"up", "stopping"} /\ core' \in {"stopping", "sweeping"}
      /\ rows \in Seq(Row)
  BY DEF EditInv, EditTypeOK, RequestShutdown, FindReferences
<1>2. ASSUME NEW r \in RowIds
      PROVE  /\ RowInv(r) /\ RowHashes(r) \ {NoHash} \subseteq Hashes
             /\ RowHashes(r)' = RowHashes(r)
  <2>1. RowInv(r) /\ rows[r] \in Row
    BY <1>1 DEF EditInv, RowIds
  <2> QED BY <1>1, <2>1 DEF RowHashes, Row, Hashes, NoHash
<1>3. core' = "sweeping" => kept' = ReferencedHashes
  BY <1>1 DEF RequestShutdown, FindReferences
<1>4. /\ ReferencedHashes \subseteq Hashes
      /\ \A r \in RowIds : RowHashes(r) \ {NoHash} \subseteq ReferencedHashes
  <2>1. ASSUME NEW h \in ReferencedHashes
        PROVE  h \in Hashes
    <3>1. h \in UNION {RowHashes(r) : r \in RowIds} /\ h # NoHash
      BY DEF ReferencedHashes
    <3>2. PICK r \in RowIds : h \in RowHashes(r)
      BY <3>1
    <3> QED BY <1>2, <3>1, <3>2
  <2>2. ASSUME NEW r \in RowIds, NEW h \in RowHashes(r) \ {NoHash}
        PROVE  h \in ReferencedHashes
    <3>1. h \in UNION {RowHashes(s) : s \in RowIds}
      BY <2>2
    <3> QED BY <2>2, <3>1 DEF ReferencedHashes
  <2> QED BY <2>1, <2>2
<1>5. EditTypeOK'
  BY <1>1, <1>4 DEF EditInv, EditTypeOK, RequestShutdown, FindReferences
<1>6. \A x \in Clients : CallKept(x)
  BY <1>1 DEF CallKept, RaceNoted, RowIds
<1>7. \A r \in RowIds' : RowInv(r)'
  BY <1>1, <1>2, <1>3, <1>4 DEF RowInv, RowIds
<1>8. Absent \notin Clients
  BY ThingsAssumption
<1> QED BY <1>5, <1>6, <1>7, <1>8, StepKept

\* What is removed is not kept, so that no checkpoint needs it but a late one.
LEMMA SweepArtifactsKeeps ==
  ASSUME EditInv, SweepArtifacts
  PROVE  EditInv'
<1>1. /\ UNCHANGED <<tree, lock, call, rows, kept, writes, restarts>>
      /\ call \in [Clients -> Call] /\ core = "sweeping" /\ core' = "swept"
      /\ rows \in Seq(Row)
      /\ artifacts \in [Hashes -> {"missing", "young", "old"}]
      /\ artifacts' = [h \in Hashes |-> IF artifacts[h] = "old" /\ h \notin kept
                                        THEN "missing" ELSE artifacts[h]]
  BY DEF EditInv, EditTypeOK, SweepArtifacts
<1>2. /\ artifacts' \in [Hashes -> {"missing", "young", "old"}]
      /\ \A h \in Hashes : artifacts[h] # "missing" /\ h \in kept => artifacts'[h] # "missing"
  BY <1>1
<1>3. EditTypeOK'
  BY <1>1, <1>2 DEF EditInv, EditTypeOK
<1>4. \A x \in Clients : CallKept(x)
  BY <1>1 DEF CallKept, RaceNoted, RowIds
<1>5. ASSUME NEW r \in RowIds
      PROVE  RowInv(r)'
  <2>1. RowInv(r) /\ rows[r] \in Row
    BY <1>1 DEF EditInv, RowIds
  <2>2. RowHashes(r)' = RowHashes(r) /\ RowHashes(r) \ {NoHash} \subseteq Hashes
    BY <1>1, <2>1 DEF RowHashes, Row, Hashes, NoHash
  <2> QED BY <1>1, <1>2, <2>1, <2>2 DEF RowInv
<1>6. RowIds' = RowIds
  BY <1>1 DEF RowIds
<1>7. Absent \notin Clients
  BY ThingsAssumption
<1> QED BY <1>3, <1>4, <1>5, <1>6, <1>7, StepKept

LEMMA RestartKeeps ==
  ASSUME EditInv, Restart
  PROVE  EditInv'
<1>1. /\ UNCHANGED <<tree, rows, artifacts, writes>>
      /\ core' = "up" /\ kept' = {} /\ restarts' \in 0 .. MaxRestarts
      /\ lock' = [p \in Documents |-> Absent] /\ call' = [c \in Clients |-> Fresh]
      /\ rows \in Seq(Row)
  BY BoundsAssumption DEF EditInv, EditTypeOK, Restart
<1>2. Fresh \in Call /\ Fresh.pc = "idle" /\ Fresh.row = 0 /\ Fresh.before = NoHash
  <2>1. 0 \in 0 .. MaxRows
    BY BoundsAssumption
  <2> QED BY <2>1 DEF Fresh, Call, NoHash
<1>3. EditTypeOK'
  BY <1>1, <1>2 DEF EditInv, EditTypeOK
<1>4. ASSUME NEW c \in Clients
      PROVE  CallInv(c)' /\ ~Checkpointed(c)'
  <2>1. call'[c] = Fresh
    BY <1>1
  <2>2. Doing(c, "idle")' /\ call'[c].row = 0 /\ BeforeOK(c)'
    BY <1>2, <2>1 DEF Doing, BeforeOK
  <2> QED BY <2>2, Idling
<1>5. OwnRows'
  BY <1>4 DEF OwnRows
<1>6. ASSUME NEW r \in RowIds'
      PROVE  RowInv(r)'
  <2>1. r \in RowIds /\ RowInv(r) /\ RowHashes(r)' = RowHashes(r)
    BY <1>1 DEF EditInv, RowIds, RowHashes
  <2> QED BY <1>1, <2>1 DEF RowInv
<1> QED BY <1>3, <1>4, <1>5, <1>6 DEF EditInv

-----------------------------------------------------------------------------
(***************************************************************************)
(* The theorems about saves and checkpoints.                               *)
(***************************************************************************)

\* At the start nothing is stored, recorded or under way.
LEMMA EditStarts ==
  ASSUME EditInit
  PROVE  EditInv
<1>1. Fresh \in Call /\ Fresh.pc = "idle" /\ Fresh.row = 0 /\ Fresh.before = NoHash
  <2>1. 0 \in 0 .. MaxRows
    BY BoundsAssumption
  <2> QED BY <2>1 DEF Fresh, Call, NoHash
<1>2. <<>> \in Seq(Row) /\ Len(<<>>) = 0 /\ DOMAIN <<>> = {}
  BY EmptySeq
<1>3. EditTypeOK
  BY <1>1, <1>2, BoundsAssumption DEF EditInit, EditTypeOK
<1>4. ASSUME NEW c \in Clients
      PROVE  CallInv(c) /\ ~Checkpointed(c)
  <2>1. call[c] = Fresh
    BY DEF EditInit
  <2>2. call[c].pc = "idle" /\ call[c].row = 0 /\ call[c].before = NoHash
    BY <1>1, <2>1
  <2>3. HasLock(c) /\ SaveOK(c) /\ ~Checkpointed(c)
    BY <2>2 DEF HasLock, SaveOK, Checkpointed, IsAtWork
  <2>4. RestoreOK(c) /\ NamedOK(c) /\ KnownOK(c) /\ BeforeOK(c) /\ PatchOK(c)
    BY <2>2 DEF RestoreOK, NamedOK, KnownOK, BeforeOK, PatchOK, Doing
  <2> QED BY <2>3, <2>4 DEF CallInv
<1>5. OwnRows
  BY <1>4 DEF OwnRows
<1>6. RowIds = {}
  BY <1>2 DEF EditInit, RowIds
<1> QED BY <1>3, <1>4, <1>5, <1>6 DEF EditInv

\* Every step keeps the invariant.
LEMMA EditSteps ==
  ASSUME EditInv, [EditNext]_editVars
  PROVE  EditInv'
<1>1. CASE UNCHANGED editVars
  <2>1. EditTypeOK'
    BY <1>1 DEF EditInv, EditTypeOK, editVars
  <2>2. \A x \in Clients : CallKept(x)
    BY <1>1 DEF EditInv, EditTypeOK, editVars, CallKept, RaceNoted, RowIds
  <2>3. \A r \in RowIds' : RowInv(r)'
    BY <1>1, RowsStay DEF editVars
  <2>4. Absent \notin Clients
    BY ThingsAssumption
  <2> QED BY <2>1, <2>2, <2>3, <2>4, StepKept
<1>2. ASSUME NEW c \in Clients, Step(c)
      PROVE  EditInv'
  BY <1>2, CaptureBeforeKeeps, SkipCheckpointKeeps, LockFileKeeps, CheckAgainKeeps, RenameOverKeeps,
     AnswerSaveKeeps, RecordChangeKeeps, DoneKeeps, RestoreItemKeeps,
     TakeSnapshotKeeps, StorePatchKeeps, InsertSnapshotKeeps DEF Step
<1>3. ASSUME NEW c \in Clients, NEW p \in Documents, ReadFile(c, p)
      PROVE  EditInv'
  BY <1>3, ReadFileKeeps
<1>4. ASSUME NEW c \in Clients, NEW text \in Texts, SaveFile(c, text)
      PROVE  EditInv'
  BY <1>4, SaveFileKeeps
<1>5. ASSUME NEW c \in Clients, NEW r \in RowIds, NEW force \in BOOLEAN, PreviewRestore(c, r, force)
      PROVE  EditInv'
  BY <1>5, PreviewRestoreKeeps
<1>6. ASSUME NEW p \in Documents, NEW thing \in Things, WriteOutside(p, thing)
      PROVE  EditInv'
  BY <1>6, WriteOutsideKeeps
<1> QED
  BY <1>1, <1>2, <1>3, <1>4, <1>5, <1>6, MonthPassesKeeps, ShutdownKeeps, SweepArtifactsKeeps,
     RestartKeeps DEF EditNext

\* What a connection does to another is at most to note a race.
LEMMA OthersGoNowhere ==
  ASSUME EditInv, EditNext, NEW c \in Clients, ~Step(c), ~Restart,
         call[c].pc \notin {"idle"}
  PROVE  call'[c].pc = call[c].pc
<1>1. call \in [Clients -> Call] /\ call[c] \in Call
  BY DEF EditInv, EditTypeOK
<1>2. ASSUME NEW d \in Clients, Step(d)
      PROVE  call'[c].pc = call[c].pc
  <2>1. d # c
    BY <1>2
  <2>2. CASE RenameOver(d)
    <3>1. \/ call'[c] = RacedByLocked(call[d].path)[c]
          \/ call'[c] = call[c]
      BY <1>1, <2>1, <2>2 DEF RenameOver, RacedByLocked, Done
    <3> QED BY <1>1, <3>1 DEF RacedByLocked, Call
  <2>3. CASE RestoreItem(d)
    <3>1. call'[c] = Raced(rows[call[d].row].path)[c]
      BY <1>1, <2>1, <2>3 DEF RestoreItem, Raced
    <3> QED BY <1>1, <3>1 DEF Raced, Call
  <2>4. CASE CaptureBefore(d) \/ SkipCheckpoint(d)
    BY <1>1, <2>1, <2>4 DEF CaptureBefore, SkipCheckpoint
  <2>5. CASE LockFile(d) \/ CheckAgain(d)
    BY <1>1, <2>1, <2>5 DEF LockFile, CheckAgain, Goto, Done
  <2>6. CASE AnswerSave(d)
    BY <1>1, <2>1, <2>6 DEF AnswerSave, Done
  <2>7. CASE RecordChange(d) \/ SkipChange(d) \/ RestoreFails(d)
    BY <1>1, <2>1, <2>7 DEF RecordChange, SkipChange, RestoreFails, Done
  <2>8. CASE TakeSnapshot(d) \/ StorePatch(d)
    BY <1>1, <2>1, <2>8 DEF TakeSnapshot, StorePatch, Goto
  <2>9. CASE InsertSnapshot(d) \/ SkipSnapshot(d)
    BY <1>1, <2>1, <2>9 DEF InsertSnapshot, SkipSnapshot, Done
  <2> QED BY <1>2, <2>2, <2>3, <2>4, <2>5, <2>6, <2>7, <2>8, <2>9 DEF Step
<1>3. ASSUME NEW d \in Clients, NEW p \in Documents, ReadFile(d, p)
      PROVE  call'[c].pc = call[c].pc
  BY <1>1, <1>3 DEF ReadFile, Doing
<1>4. ASSUME NEW d \in Clients, NEW text \in Texts, SaveFile(d, text)
      PROVE  call'[c].pc = call[c].pc
  <2>1. d # c
    BY <1>4 DEF SaveFile, Doing
  <2> QED BY <1>1, <1>4, <2>1 DEF SaveFile
<1>5. ASSUME NEW d \in Clients, NEW r \in RowIds, NEW force \in BOOLEAN, PreviewRestore(d, r, force)
      PROVE  call'[c].pc = call[c].pc
  <2>1. d # c
    BY <1>5 DEF PreviewRestore, Doing
  <2> QED BY <1>1, <1>5, <2>1 DEF PreviewRestore
<1>6. ASSUME NEW p \in Documents, NEW thing \in Things, WriteOutside(p, thing)
      PROVE  call'[c].pc = call[c].pc
  <2>1. call'[c] = Raced(p)[c]
    BY <1>6 DEF WriteOutside
  <2> QED BY <1>1, <2>1 DEF Raced, Call
<1>7. CASE MonthPasses \/ RequestShutdown \/ FindReferences \/ SweepArtifacts
  BY <1>7 DEF MonthPasses, RequestShutdown, FindReferences, SweepArtifacts
<1> QED BY <1>2, <1>3, <1>4, <1>5, <1>6, <1>7 DEF EditNext

\* FileEdits keeps to its types.
THEOREM EditTypes == EditSpec => []EditTypeOK
<1>1. EditInv => EditTypeOK
  BY DEF EditInv
<1> QED BY <1>1, EditStarts, EditSteps, PTL DEF EditSpec

\* What a checkpoint needs stays in the store over shutdowns, kills and months, but
\* for what a save or a snapshot recorded after the clean-up had looked
\* (cleanup_referenced).
THEOREM ArtifactsStay == EditSpec => []CheckpointsKeepTheirArtifacts
<1>1. EditInv => CheckpointsKeepTheirArtifacts
  <2>1. SUFFICES ASSUME EditInv, NEW r \in RowIds,
                        NEW h \in {rows[r].before, rows[r].after, rows[r].patch} \ {NoHash},
                        artifacts[h] = "missing"
                 PROVE  rows[r].late
    BY DEF CheckpointsKeepTheirArtifacts
  <2>2. RowInv(r) /\ h \in RowHashes(r) \ {NoHash}
    BY <2>1 DEF EditInv, RowHashes
  <2> QED BY <2>1, <2>2 DEF RowInv
<1> QED BY <1>1, EditStarts, EditSteps, PTL DEF EditSpec

\* A save replaces the content whose revision it names, unless somebody without the
\* lock wrote after its last look; and one that makes a file never overwrites.
THEOREM NamedIsReplaced == EditSpec => SavesReplaceWhatTheyName
<1>1. ASSUME EditInv, [EditNext]_editVars, NEW c \in Clients, Saves(c)
      PROVE  \/ tree[call[c].path] = call[c].named
             \/ call[c].named # Absent /\ call[c].raced
  <2>1. call[c].pc = "replace" /\ call'[c].pc = "reread" /\ call \in [Clients -> Call] /\ call[c] \in Call
    BY <1>1 DEF Saves, Doing, EditInv, EditTypeOK
  <2>2. EditNext
    BY <1>1, <2>1 DEF editVars
  <2>3. ~Restart
    BY <2>1 DEF Restart, Fresh
  <2>4. Step(c)
    BY <1>1, <2>1, <2>2, <2>3, OthersGoNowhere
  <2>5. RenameOver(c)
    BY <2>1, <2>4 DEF Step, CaptureBefore, SkipCheckpoint, LockFile, CheckAgain, AnswerSave,
                      RecordChange, SkipChange, RestoreItem, RestoreFails, TakeSnapshot,
                      StorePatch, InsertSnapshot, SkipSnapshot, Goto, Doing
  <2>6. CanPublish(c)
    BY <2>1, <2>5 DEF RenameOver, Done, Fresh
  <2>7. call[c].raced \/ tree[call[c].path] = call[c].named
    BY <1>1, <2>1 DEF EditInv, CallInv, NamedOK, Doing
  <2> QED BY <2>6, <2>7 DEF CanPublish
<1>2. EditInv /\ [EditNext]_editVars
        => [\A c \in Clients : Saves(c) =>
              \/ tree[call[c].path] = call[c].named
              \/ call[c].named # Absent /\ call[c].raced]_editVars
  BY <1>1
<1> QED BY <1>2, EditStarts, EditSteps, PTL DEF EditSpec, SavesReplaceWhatTheyName

\* A restore that was not forced takes away what its change knows, or nothing, or what
\* was written after its preview.
THEOREM OtherWorkIsSpared == EditSpec => RestoresSpareOtherWork
<1>1. ASSUME EditInv, [EditNext]_editVars, NEW c \in Clients, Doing(c, "apply"), ~call[c].force,
             tree' # tree, call'[c].pc = "idle"
      PROVE  LET r == call[c].row
             IN \/ tree[rows[r].path] \in {rows[r].before, rows[r].after, Absent, Folder}
                \/ call[c].raced
  BY <1>1 DEF EditInv, CallInv, KnownOK
<1>2. EditInv /\ [EditNext]_editVars
        => [\A c \in Clients : Doing(c, "apply") /\ ~call[c].force =>
              LET r == call[c].row
              IN tree' # tree /\ call'[c].pc = "idle" =>
                   \/ tree[rows[r].path] \in {rows[r].before, rows[r].after, Absent, Folder}
                   \/ call[c].raced]_editVars
  BY <1>1
<1> QED BY <1>2, EditStarts, EditSteps, PTL DEF EditSpec, RestoresSpareOtherWork

=============================================================================
