------------------------ MODULE RpcConnections_proofs ------------------------
(***************************************************************************)
(* Proofs about EventBus and RpcConnections, for any emitters, clients,    *)
(* sizes of the log, of the channel and of a page, and bounds: a number    *)
(* names one event, no client misses an event without being told, and a    *)
(* client that waits is heard.                                             *)
(***************************************************************************)
EXTENDS RpcConnections, SequenceTheorems, WellFoundedInduction, TLAPS

-----------------------------------------------------------------------------
(***************************************************************************)
(* Numbers and sequences.                                                  *)
(***************************************************************************)

\* The largest number of a set that has a bound.
LEMMA MaxOf ==
  ASSUME NEW n \in Nat, NEW S \in SUBSET (0 .. n), S # {}
  PROVE  Max(S) \in S /\ \A x \in S : x <= Max(S)
<1> DEFINE T == {n - x : x \in S}
           R == OpToRel(<, Nat)
<1>1. T \subseteq Nat /\ T # {}
  <2>1. \A x \in S : n - x \in Nat
    OBVIOUS
  <2>2. T \subseteq Nat
    BY <2>1
  <2>3. PICK x \in S : TRUE
    OBVIOUS
  <2>4. n - x \in T
    OBVIOUS
  <2> QED
    BY <2>2, <2>4
<1>2. PICK t \in T : \A y \in T : ~(<<y, t>> \in R)
  <2> HIDE DEF T, R
  <2>1. IsWellFoundedOn(R, Nat)
    BY NatLessThanWellFounded DEF R
  <2> QED
    BY <1>1, <2>1, WFMin
<1>3. \A y \in T : ~(y < t)
  <2> TAKE y \in T
  <2>1. <<y, t>> \in R <=> y < t
    BY <1>1 DEF OpToRel
  <2> QED
    BY <1>2, <2>1
<1>4. PICK m \in S : t = n - m
  BY <1>2
<1>5. \A x \in S : m >= x
  <2> TAKE x \in S
  <2>1. ~(n - x < n - m)
    BY <1>3, <1>4
  <2> QED
    BY <2>1
<1> HIDE DEF T, R
<1>6. \E x \in S : \A y \in S : x >= y
  BY <1>5
<1>7. Max(S) \in S /\ \A y \in S : Max(S) >= y
  BY <1>6 DEF Max
<1> QED
  BY <1>7

\* The smaller of two numbers.
LEMMA MinOfTwo ==
  ASSUME NEW a \in Nat, NEW b \in Nat
  PROVE  Min({a, b}) = IF a <= b THEN a ELSE b
<1>1. \E x \in {a, b} : \A y \in {a, b} : x <= y
  OBVIOUS
<1>2. Min({a, b}) \in {a, b} /\ \A y \in {a, b} : Min({a, b}) <= y
  BY <1>1 DEF Min
<1> QED
  BY <1>2

\* The events of a sequence are those it has at some place.
LEMMA Places ==
  ASSUME NEW S, NEW s \in Seq(S)
  PROVE  /\ DOMAIN s = 1 .. Len(s) /\ Len(s) \in Nat
         /\ \A i \in 1 .. Len(s) : s[i] \in S /\ s[i] \in Range(s)
         /\ \A e \in Range(s) : e \in S /\ \E i \in 1 .. Len(s) : s[i] = e
<1>1. DOMAIN s = 1 .. Len(s) /\ Len(s) \in Nat /\ \A i \in 1 .. Len(s) : s[i] \in S
  BY LenProperties, ElementOfSeq
<1> QED
  BY <1>1 DEF Range

\* The empty sequence has no events.
LEMMA NoPlaces == ASSUME NEW S PROVE <<>> \in Seq(S) /\ Len(<<>>) = 0 /\ Range(<<>>) = {}
BY EmptySeq DEF Range

\* A sequence of a bounded length is a sequence.
LEMMA BoundedSeqs ==
  ASSUME NEW S, NEW n \in Nat, NEW s
  PROVE  s \in BoundedSeq(S, n) <=> s \in Seq(S) /\ Len(s) <= n
<1>1. ASSUME s \in BoundedSeq(S, n)
      PROVE  s \in Seq(S) /\ Len(s) <= n
  <2>1. PICK m \in 0 .. n : s \in [1 .. m -> S]
    BY <1>1 DEF BoundedSeq, SeqOf
  <2>2. s \in Seq(S)
    BY <2>1, SeqDef
  <2>3. DOMAIN s = 1 .. m /\ DOMAIN s = 1 .. Len(s) /\ Len(s) \in Nat
    BY <2>1, <2>2, LenProperties
  <2>4. Len(s) = m
    BY <2>3
  <2> QED
    BY <2>2, <2>4
<1>2. ASSUME s \in Seq(S), Len(s) <= n
      PROVE  s \in BoundedSeq(S, n)
  <2>1. Len(s) \in 0 .. n /\ s \in [1 .. Len(s) -> S]
    BY <1>2, LenProperties
  <2> QED
    BY <2>1 DEF BoundedSeq, SeqOf
<1> QED
  BY <1>1, <1>2

\* What is in order, and comes before an event that is appended, is in order with it.
LEMMA AppendKeepsOrder ==
  ASSUME NEW s \in Seq(Event), NEW e \in Event, InOrder(s), \A x \in Range(s) : x.number < e.number
  PROVE  InOrder(Append(s, e))
<1> DEFINE a == Append(s, e)
           n == Len(s)
<1>1. /\ a \in Seq(Event) /\ Len(a) = n + 1 /\ a[n + 1] = e /\ n \in Nat
      /\ \A i \in 1 .. n : a[i] = s[i]
  BY AppendProperties, LenProperties
<1>2. DOMAIN a = 1 .. (n + 1) /\ DOMAIN s = 1 .. n
  BY <1>1, LenProperties
<1>3. \A i \in 1 .. n : s[i].number < e.number
  BY Places
<1> HIDE DEF a, n
<1>4. ASSUME NEW i \in DOMAIN a, NEW j \in DOMAIN a, i < j
      PROVE  a[i].number < a[j].number
  <2>1. i \in 1 .. n
    BY <1>1, <1>2, <1>4
  <2>2. CASE j = n + 1
    BY <1>1, <1>3, <2>1, <2>2
  <2>3. CASE j \in 1 .. n
    BY <1>1, <1>2, <1>4, <2>1, <2>3 DEF InOrder
  <2> QED
    BY <1>1, <1>2, <2>2, <2>3
<1> QED
  BY <1>4 DEF InOrder, a

\* The last n of a sequence with one more event.
LEMMA LastOfAppended ==
  ASSUME NEW s \in Seq(Event), NEW e \in Event, NEW n \in Nat \ {0}
  PROVE  /\ LastOf(Append(s, e), n) \in Seq(Event)
         /\ Range(LastOf(Append(s, e), n)) \subseteq Range(s) \cup {e}
         /\ e \in Range(LastOf(Append(s, e), n))
         /\ Len(s) <= n => Len(LastOf(Append(s, e), n)) <= n
         /\ Len(s) < n => Range(s) \subseteq Range(LastOf(Append(s, e), n))
         /\ InOrder(Append(s, e)) => InOrder(LastOf(Append(s, e), n))
<1> DEFINE a == Append(s, e)
           m == Len(s)
           r == LastOf(a, n)
<1>1. /\ a \in Seq(Event) /\ Len(a) = m + 1 /\ a[m + 1] = e /\ m \in Nat
      /\ \A i \in 1 .. m : a[i] = s[i]
  BY AppendProperties, LenProperties
<1>2. a # <<>> /\ DOMAIN a = 1 .. (m + 1)
  BY <1>1, AppendProperties, LenProperties
<1> HIDE DEF a, m
<1>3. /\ \A i \in 1 .. (m + 1) : a[i] \in Range(a)
      /\ \A x \in Range(a) : \E i \in 1 .. (m + 1) : a[i] = x
  BY <1>1, Places
<1>4. /\ \A i \in 1 .. m : s[i] \in Range(s)
      /\ \A x \in Range(s) : \E i \in 1 .. m : s[i] = x
  BY Places DEF m
<1>5. Range(a) \subseteq Range(s) \cup {e} /\ Range(s) \subseteq Range(a) /\ e \in Range(a)
  <2>1. \A i \in 1 .. (m + 1) : a[i] \in Range(s) \cup {e}
    <3> TAKE i \in 1 .. (m + 1)
    <3>1. i = m + 1 \/ i \in 1 .. m
      BY <1>1
    <3> QED
      BY <1>1, <1>4, <3>1
  <2>2. \A i \in 1 .. m : s[i] \in Range(a)
    <3> TAKE i \in 1 .. m
    <3>1. i \in 1 .. (m + 1) /\ a[i] = s[i]
      BY <1>1
    <3> QED
      BY <1>3, <3>1
  <2>3. m + 1 \in 1 .. (m + 1)
    BY <1>1
  <2> QED
    BY <1>1, <1>3, <1>4, <2>1, <2>2, <2>3
<1> SUFFICES /\ r \in Seq(Event) /\ Range(r) \subseteq Range(s) \cup {e} /\ e \in Range(r)
             /\ m <= n => Len(r) <= n
             /\ m < n => Range(s) \subseteq Range(r)
             /\ InOrder(a) => InOrder(r)
  BY DEF a, m
<1>6. CASE m + 1 <= n
  <2>1. r = a
    BY <1>1, <1>6 DEF LastOf
  <2> HIDE DEF r
  <2> QED
    BY <1>1, <1>5, <1>6, <2>1
<1>7. CASE ~(m + 1 <= n)
  <2>1. r = Tail(a)
    BY <1>1, <1>7 DEF LastOf
  <2> HIDE DEF r
  <2>2. /\ r \in Seq(Event) /\ Len(r) = m
        /\ \A i \in 1 .. m : r[i] = a[i + 1]
    BY <1>1, <1>2, <2>1, HeadTailProperties
  <2>3. DOMAIN r = 1 .. m /\ m \in 1 .. m
    BY <1>1, <1>7, <2>2, LenProperties
  <2>4. /\ \A i \in 1 .. m : r[i] \in Range(r)
        /\ \A x \in Range(r) : \E i \in 1 .. m : r[i] = x
    BY <2>2, Places
  <2>5. e \in Range(r) /\ Range(r) \subseteq Range(a)
    <3>1. r[m] = e
      BY <1>1, <2>2, <2>3
    <3>2. \A i \in 1 .. m : i + 1 \in 1 .. (m + 1) /\ r[i] = a[i + 1]
      BY <1>1, <2>2
    <3>3. \A i \in 1 .. m : r[i] \in Range(a)
      BY <1>3, <3>2
    <3> QED
      BY <2>3, <2>4, <3>1, <3>3
  <2>6. InOrder(a) => InOrder(r)
    <3> SUFFICES ASSUME InOrder(a), NEW i \in 1 .. m, NEW j \in 1 .. m, i < j
                 PROVE  r[i].number < r[j].number
      BY <2>3 DEF InOrder
    <3>1. i + 1 \in DOMAIN a /\ j + 1 \in DOMAIN a /\ i + 1 < j + 1
      BY <1>1, <1>2
    <3> QED
      BY <2>2, <3>1 DEF InOrder
  <2> QED
    BY <1>1, <1>5, <1>7, <2>2, <2>5, <2>6
<1> QED
  BY <1>6, <1>7

-----------------------------------------------------------------------------
(***************************************************************************)
(* The bus: numbers.                                                       *)
(***************************************************************************)

CoreTypes ==
  /\ up \in BOOLEAN
  /\ next \in 1 .. MaxEmits + 1
  /\ log \in BoundedSeq(Event, Retained)
  /\ queue \in Seq(Event)
  /\ rows \subseteq Event
  /\ inserts \in Nat
  /\ emitted \in 0 .. MaxEmits /\ faults \in 0 .. MaxFaults

EmitterTypes ==
  /\ making \in [Emitters -> Event \cup {NoEvent}]
  /\ stage \in [Emitters -> {"idle", "numbered", "pruning", "queued"}]
  /\ \A t \in Emitters : stage[t] # "idle" => making[t] \in Event
  /\ \A t \in Emitters : stage[t] = "idle" => making[t] = NoEvent

\* The events that have a number.
Known == Range(log) \cup rows \cup Range(queue) \cup InTheMaking

\* A number names one event, and is not larger than the number of events.
Numbered ==
  /\ \A e, f \in Known : e.number = f.number => e = f
  /\ \A e \in Known : e.number <= e.id /\ e.id <= emitted
  /\ next <= emitted + 1
  /\ InOrder(log)

\* The next number has not been given out in this life of the core, nor has a row of
\* the table got it; between two lives there are rows only.
Ahead ==
  IF up THEN \A e \in Known : e.number < next
  ELSE log = <<>> /\ queue = <<>> /\ InTheMaking = {}

BusInv == CoreTypes /\ EmitterTypes /\ Numbered /\ Ahead

coreVars == <<up, next, log, queue, rows, inserts, emitVars, countVars>>

\* The empty log, and the empty queue.
LEMMA EmptyLog == <<>> \in Seq(Event) /\ <<>> \in BoundedSeq(Event, Retained)
<1> DEFINE s == <<>>
<1>1. s \in Seq(Event) /\ Len(s) = 0
  BY EmptySeq
<1>2. Retained \in Nat /\ 0 <= Retained
  BY BusAssumption
<1> HIDE DEF s
<1>3. s \in BoundedSeq(Event, Retained)
  BY <1>1, <1>2, BoundedSeqs
<1> QED
  BY <1>1, <1>3 DEF s

\* What has a number is an event.
LEMMA KnownEvents ==
  ASSUME BusInv
  PROVE  /\ Known \subseteq Event /\ NoEvent \notin Event
         /\ log \in Seq(Event) /\ Len(log) <= Retained
<1>1. NoEvent \notin Event
  BY BusAssumption DEF NoEvent, Event
<1>2. log \in Seq(Event) /\ Len(log) <= Retained
  BY BusAssumption, BoundedSeqs DEF BusInv, CoreTypes
<1>3. Range(log) \subseteq Event /\ Range(queue) \subseteq Event
  BY <1>2, Places DEF BusInv, CoreTypes
<1>4. InTheMaking \subseteq Event
  BY DEF BusInv, EmitterTypes, InTheMaking
<1> QED
  BY <1>1, <1>2, <1>3, <1>4 DEF Known, BusInv, CoreTypes

\* A step that makes no event known, and numbers none, keeps what holds of numbers.
LEMMA NumbersKeep ==
  ASSUME BusInv, Known' \subseteq Known, UNCHANGED <<up, next, emitted, log>>,
         ~up => queue' = <<>> /\ InTheMaking' = {}
  PROVE  Numbered' /\ Ahead'
BY DEF BusInv, Numbered, Ahead, InOrder

\* What the emitters make when one of them is about another event.
LEMMA MakingChanges ==
  ASSUME BusInv, NEW t \in Emitters, NEW e \in Event \cup {NoEvent}, making' = [making EXCEPT ![t] = e]
  PROVE  /\ making'[t] = e /\ making' \in [Emitters -> Event \cup {NoEvent}]
         /\ InTheMaking' \subseteq InTheMaking \cup ({e} \ {NoEvent})
         /\ making[t] = NoEvent => InTheMaking \subseteq InTheMaking'
         /\ InTheMaking \subseteq InTheMaking' \cup {making[t]}
         /\ e # NoEvent => e \in InTheMaking'
<1>1. /\ making' \in [Emitters -> Event \cup {NoEvent}] /\ making'[t] = e
      /\ \A u \in Emitters : u # t => making'[u] = making[u]
  BY DEF BusInv, EmitterTypes
<1>2. /\ \A x : x \in InTheMaking <=> x # NoEvent /\ \E u \in Emitters : making[u] = x
      /\ \A x : x \in InTheMaking' <=> x # NoEvent /\ \E u \in Emitters : making'[u] = x
  BY DEF InTheMaking
<1> QED
  BY <1>1, <1>2

\* An event gets its number and its place.
LEMMA NumberKeeps ==
  ASSUME BusInv, NEW t \in Emitters, NEW durable \in BOOLEAN, Number(t, durable)
  PROVE  BusInv'
<1> DEFINE e == [id |-> emitted + 1, number |-> next, durable |-> durable]
<1>1. /\ up /\ stage[t] = "idle" /\ emitted < MaxEmits
      /\ log' = LastOf(Append(log, e), Retained) /\ making' = [making EXCEPT ![t] = e]
      /\ next' = next + 1 /\ emitted' = emitted + 1
      /\ stage' = [stage EXCEPT ![t] = IF durable THEN "numbered" ELSE "queued"]
      /\ UNCHANGED <<up, queue, rows, inserts, faults>>
  BY DEF Number
<1>2. /\ next \in Nat /\ next >= 1 /\ next <= emitted + 1 /\ emitted \in Nat /\ MaxEmits \in Nat
      /\ Retained \in Nat \ {0}
  BY BusAssumption DEF BusInv, CoreTypes, Numbered
<1>3. e \in Event /\ e.id = emitted + 1 /\ e.number = next
  BY <1>1, <1>2 DEF Event
<1> HIDE DEF e
<1>4. /\ Known \subseteq Event /\ NoEvent \notin Event
      /\ log \in Seq(Event) /\ Len(log) <= Retained
  BY KnownEvents
<1>5. \A x \in Known : x.number < next
  BY <1>1 DEF BusInv, Ahead
<1>6. /\ log' \in Seq(Event) /\ Len(log') <= Retained /\ Range(log') \subseteq Range(log) \cup {e}
      /\ InOrder(Append(log, e)) => InOrder(log')
  BY <1>1, <1>2, <1>3, <1>4, LastOfAppended DEF InOrder
<1>7. InOrder(log')
  <2>1. \A x \in Range(log) : x.number < e.number
    BY <1>3, <1>5 DEF Known
  <2> QED
    BY <1>3, <1>4, <1>6, <2>1, AppendKeepsOrder DEF BusInv, Numbered
<1>8. InTheMaking' \subseteq InTheMaking \cup {e} /\ making' \in [Emitters -> Event \cup {NoEvent}] /\ making'[t] = e
  BY <1>1, <1>3, MakingChanges
<1>9. Known' \subseteq Known \cup {e}
  BY <1>1, <1>6, <1>8 DEF Known
<1>10. CoreTypes'
  <2>1. log' \in BoundedSeq(Event, Retained)
    BY <1>2, <1>6, BoundedSeqs
  <2>2. next' \in 1 .. MaxEmits + 1 /\ emitted' \in 0 .. MaxEmits
    BY <1>1, <1>2
  <2> QED
    BY <1>1, <2>1, <2>2 DEF BusInv, CoreTypes
<1>11. EmitterTypes'
  <2>1. stage' \in [Emitters -> {"idle", "numbered", "pruning", "queued"}]
    BY <1>1 DEF BusInv, EmitterTypes
  <2>2. stage'[t] # "idle" /\ \A u \in Emitters : u # t => stage'[u] = stage[u] /\ making'[u] = making[u]
    BY <1>1 DEF BusInv, EmitterTypes
  <2> QED
    BY <1>3, <1>8, <2>1, <2>2 DEF BusInv, EmitterTypes
<1>12. \A x \in Known' : (x = e \/ x \in Known) /\ (x # e => x.number < next)
  BY <1>5, <1>9
<1>13. Numbered'
  <2>1. \A x, y \in Known' : x.number = y.number => x = y
    BY <1>2, <1>3, <1>12 DEF BusInv, Numbered
  <2>2. \A x \in Known' : x.number <= x.id /\ x.id <= emitted'
    <3> TAKE x \in Known'
    <3>1. CASE x = e
      BY <1>1, <1>2, <1>3, <3>1
    <3>2. CASE x # e
      <4>1. x \in Event /\ x.number <= x.id /\ x.id <= emitted
        BY <1>4, <1>12, <3>2 DEF BusInv, Numbered
      <4> QED
        BY <1>1, <1>2, <4>1 DEF Event
    <3> QED
      BY <3>1, <3>2
  <2>3. next' <= emitted' + 1
    BY <1>1, <1>2
  <2> QED
    BY <1>7, <2>1, <2>2, <2>3 DEF Numbered, InOrder
<1>14. Ahead'
  <2> SUFFICES ASSUME NEW x \in Known' PROVE x.number < next'
    BY <1>1 DEF Ahead
  <2>1. CASE x = e
    BY <1>1, <1>2, <1>3, <2>1
  <2>2. CASE x # e
    <3>1. x \in Event /\ x.number < next
      BY <1>4, <1>12, <2>2
    <3> QED
      BY <1>1, <1>2, <3>1 DEF Event
  <2> QED
    BY <2>1, <2>2
<1> QED
  BY <1>10, <1>11, <1>13, <1>14 DEF BusInv

\* An event is queued for the writer.
LEMMA QueueKeeps ==
  ASSUME BusInv, NEW t \in Emitters, Queue(t)
  PROVE  BusInv'
<1>1. /\ stage[t] = "numbered" /\ queue' = Append(queue, making[t]) /\ inserts' = inserts + 1
      /\ stage' = [stage EXCEPT ![t] = IF inserts' % PruneEvery = 0 THEN "pruning" ELSE "queued"]
      /\ UNCHANGED <<up, next, log, rows, making, countVars>>
  BY DEF Queue
<1>2. making[t] \in Event /\ making[t] \in InTheMaking /\ queue \in Seq(Event) /\ InTheMaking' = InTheMaking
  BY <1>1, KnownEvents DEF BusInv, EmitterTypes, CoreTypes, InTheMaking
<1>3. queue' \in Seq(Event) /\ Range(queue') \subseteq Range(queue) \cup {making[t]}
  <2>1. LET s == queue'
        IN  /\ s \in Seq(Event) /\ Len(s) = Len(queue) + 1 /\ s[Len(queue) + 1] = making[t]
            /\ \A i \in 1 .. Len(queue) : s[i] = queue[i]
    BY <1>1, <1>2, AppendProperties
  <2>2. \A x \in Range(queue') : \E i \in 1 .. (Len(queue) + 1) : queue'[i] = x
    BY <2>1, Places
  <2>3. \A i \in 1 .. (Len(queue) + 1) : i = Len(queue) + 1 \/ i \in 1 .. Len(queue)
    BY <1>2, LenProperties
  <2>4. \A i \in 1 .. Len(queue) : queue[i] \in Range(queue)
    BY <1>2, Places
  <2> QED
    BY <2>1, <2>2, <2>3, <2>4
<1>4. Known' \subseteq Known
  BY <1>1, <1>2, <1>3 DEF Known
<1>5. up
  BY <1>2 DEF BusInv, Ahead
<1>6. Numbered' /\ Ahead'
  BY <1>1, <1>4, <1>5, NumbersKeep DEF countVars
<1>7. EmitterTypes'
  BY <1>1, <1>2 DEF BusInv, EmitterTypes
<1>8. CoreTypes'
  BY <1>1, <1>3 DEF BusInv, CoreTypes, countVars
<1> QED
  BY <1>6, <1>7, <1>8 DEF BusInv

\* Pruning takes rows away.
LEMMA PruneKeeps ==
  ASSUME BusInv, NEW t \in Emitters, Prune(t)
  PROVE  BusInv'
<1>1. /\ stage[t] = "pruning" /\ rows' \subseteq rows /\ inserts' = 0
      /\ stage' = [stage EXCEPT ![t] = "queued"]
      /\ UNCHANGED <<up, next, log, queue, making, countVars>>
  BY DEF Prune, Pruned, Newest
<1>2. InTheMaking' = InTheMaking /\ Known' \subseteq Known
  BY <1>1 DEF InTheMaking, Known
<1>3. Numbered' /\ Ahead'
  BY <1>1, <1>2, NumbersKeep DEF countVars, BusInv, Ahead
<1>4. EmitterTypes'
  BY <1>1 DEF BusInv, EmitterTypes
<1>5. CoreTypes'
  BY <1>1 DEF BusInv, CoreTypes, countVars
<1> QED
  BY <1>3, <1>4, <1>5 DEF BusInv

\* An event that has been broadcast is nobody's any more.
LEMMA BroadcastKeeps ==
  ASSUME BusInv, NEW t \in Emitters, Broadcast(t)
  PROVE  BusInv'
<1>1. /\ making' = [making EXCEPT ![t] = NoEvent] /\ stage' = [stage EXCEPT ![t] = "idle"]
      /\ UNCHANGED <<up, next, log, queue, rows, inserts, countVars>>
  BY DEF Broadcast
<1>2. InTheMaking' \subseteq InTheMaking /\ making'[t] = NoEvent
  BY <1>1, MakingChanges
<1>3. Numbered' /\ Ahead'
  BY <1>1, <1>2, NumbersKeep DEF countVars, BusInv, Ahead, Known
<1>4. EmitterTypes'
  BY <1>1, <1>2 DEF BusInv, EmitterTypes
<1>5. CoreTypes'
  BY <1>1 DEF BusInv, CoreTypes, countVars
<1> QED
  BY <1>3, <1>4, <1>5 DEF BusInv

\* The writer takes a job: its event gets into the table, or is lost.
LEMMA WriteKeeps ==
  ASSUME BusInv, Write
  PROVE  BusInv'
<1>1. /\ up /\ queue # <<>> /\ queue' = Tail(queue) /\ rows' \subseteq rows \cup {Head(queue)}
      /\ UNCHANGED <<up, next, log, inserts, emitVars, emitted>>
  BY DEF Write, WriteRow, LoseRow
<1>2. faults' \in 0 .. MaxFaults
  BY BusAssumption DEF Write, WriteRow, LoseRow, BusInv, CoreTypes
<1>3. /\ queue \in Seq(Event) /\ queue' \in Seq(Event) /\ Len(queue') = Len(queue) - 1
      /\ \A i \in 1 .. Len(queue') : queue'[i] = queue[i + 1]
      /\ Len(queue) \in Nat \ {0} /\ Head(queue) = queue[1]
  BY <1>1, HeadTailProperties, EmptySeq DEF BusInv, CoreTypes
<1>4. \A i \in 1 .. Len(queue) : queue[i] \in Range(queue) /\ queue[i] \in Event
  BY <1>3, Places
<1>5. Head(queue) \in Range(queue) /\ Head(queue) \in Event
  BY <1>3, <1>4
<1>6. Range(queue') \subseteq Range(queue)
  <2>1. \A x \in Range(queue') : \E i \in 1 .. Len(queue') : queue'[i] = x
    BY <1>3, Places
  <2>2. \A i \in 1 .. Len(queue') : i + 1 \in 1 .. Len(queue)
    BY <1>3
  <2> QED
    BY <1>3, <1>4, <2>1, <2>2
<1>7. InTheMaking' = InTheMaking /\ Known' \subseteq Known
  BY <1>1, <1>5, <1>6 DEF InTheMaking, Known, emitVars
<1>8. Numbered' /\ Ahead'
  BY <1>1, <1>7, NumbersKeep
<1>9. EmitterTypes'
  BY <1>1 DEF BusInv, EmitterTypes, emitVars
<1>10. CoreTypes'
  BY <1>1, <1>2, <1>3, <1>5 DEF BusInv, CoreTypes
<1> QED
  BY <1>8, <1>9, <1>10 DEF BusInv

\* The end of the core leaves the rows.
LEMMA CrashKeeps ==
  ASSUME BusInv, Crash
  PROVE  BusInv'
<1>1. /\ up' = FALSE /\ next' = 1 /\ log' = <<>> /\ queue' = <<>> /\ inserts' = 0
      /\ making' = [t \in Emitters |-> NoEvent] /\ stage' = [t \in Emitters |-> "idle"]
      /\ UNCHANGED <<rows, emitted>>
  BY DEF Crash
<1>2. faults' \in 0 .. MaxFaults /\ MaxEmits \in Nat /\ Retained \in Nat
  BY BusAssumption DEF Crash, BusInv, CoreTypes
<1>3. InTheMaking' = {}
  BY <1>1 DEF InTheMaking
<1>4. Known' \subseteq Known
  BY <1>1, <1>3, NoPlaces DEF Known
<1>5. Ahead'
  BY <1>1, <1>3 DEF Ahead
<1>6. Numbered'
  <2>1. InOrder(log')
    BY <1>1, NoPlaces DEF InOrder
  <2>2. next' <= emitted' + 1
    BY <1>1 DEF BusInv, CoreTypes
  <2> QED
    BY <1>1, <1>4, <2>1, <2>2 DEF BusInv, Numbered, InOrder
<1>7. EmitterTypes'
  BY <1>1 DEF EmitterTypes
<1>8. CoreTypes'
  <2>1. log' \in BoundedSeq(Event, Retained) /\ queue' \in Seq(Event)
    BY <1>1, EmptyLog
  <2>2. next' \in 1 .. MaxEmits + 1 /\ inserts' \in Nat
    BY <1>1, <1>2
  <2> QED
    BY <1>1, <1>2, <2>1, <2>2 DEF BusInv, CoreTypes
<1> QED
  BY <1>5, <1>6, <1>7, <1>8 DEF BusInv

\* The number after those of some rows.
LEMMA NumberAfterAll ==
  ASSUME NEW S \in SUBSET Event, NEW n \in Nat, n <= MaxEmits, \A e \in S : e.number <= n
  PROVE  /\ NumberAfter(S) \in 1 .. n + 1
         /\ \A e \in S : e.number < NumberAfter(S)
<1> DEFINE N == {0} \cup Numbers(S)
<1>1. \A e \in S : e.number \in 0 .. n
  BY DEF Event
<1>2. N \in SUBSET (0 .. n) /\ N # {}
  BY <1>1 DEF Numbers
<1>3. \A e \in S : e.number \in N
  BY DEF Numbers
<1>4. NumberAfter(S) = Max(N) + 1
  BY DEF NumberAfter
<1> HIDE DEF N
<1>5. Max(N) \in 0 .. n /\ \A x \in N : x <= Max(N)
  BY <1>2, MaxOf
<1> QED
  BY <1>1, <1>3, <1>4, <1>5

\* A core opens the bus: the newest rows are its log.
LEMMA OpenKeeps ==
  ASSUME BusInv, Open
  PROVE  BusInv'
<1>1. /\ ~up /\ up' = TRUE /\ rows' \subseteq rows /\ log' \in Hydrated(rows')
      /\ next' = NumberAfter(rows')
      /\ UNCHANGED <<queue, inserts, emitVars, countVars>>
  BY DEF Open, Pruned, Newest
<1>2. InTheMaking' = {} /\ Range(queue') = {}
  BY <1>1, NoPlaces DEF BusInv, Ahead, InTheMaking, emitVars
<1>3. rows' \subseteq Event /\ Known \subseteq Event /\ emitted \in Nat /\ emitted <= MaxEmits /\ MaxEmits \in Nat
  BY <1>1, KnownEvents, BusAssumption DEF BusInv, CoreTypes
<1>4. /\ log' \in Seq(rows') /\ Len(log') <= Retained
      /\ Range(log') \subseteq rows' /\ InOrder(log')
  BY <1>1, BusAssumption, BoundedSeqs DEF Hydrated, Newest
<1>5. log' \in Seq(Event) /\ log' \in BoundedSeq(Event, Retained)
  BY <1>3, <1>4, SeqMonotonic, BoundedSeqs, BusAssumption
<1>6. Known' \subseteq rows' /\ rows' \subseteq Known
  BY <1>1, <1>2, <1>4 DEF Known
<1>7. \A e \in rows' : e.number <= emitted
  <2> TAKE e \in rows'
  <2>1. e \in Known /\ e \in Event
    BY <1>3, <1>6
  <2>2. e.number <= e.id /\ e.id <= emitted
    BY <2>1 DEF BusInv, Numbered
  <2> QED
    BY <1>3, <2>1, <2>2 DEF Event
<1>8. next' \in 1 .. emitted + 1 /\ \A e \in rows' : e.number < next'
  BY <1>1, <1>3, <1>7, NumberAfterAll
<1>9. Ahead'
  BY <1>1, <1>6, <1>8 DEF Ahead
<1>10. Numbered'
  BY <1>1, <1>3, <1>4, <1>6, <1>8 DEF BusInv, Numbered, InOrder, countVars
<1>11. EmitterTypes'
  BY <1>1 DEF BusInv, EmitterTypes, emitVars
<1>12. CoreTypes'
  BY <1>1, <1>3, <1>5, <1>8 DEF BusInv, CoreTypes, countVars
<1> QED
  BY <1>9, <1>10, <1>11, <1>12 DEF BusInv

\* What the connections do.
LEMMA BusKeeps ==
  ASSUME BusInv, UNCHANGED coreVars
  PROVE  BusInv'
<1>1. UNCHANGED <<up, next, log, queue, rows, inserts, making, stage, emitted, faults>>
  BY DEF coreVars, emitVars, countVars
<1>2. CoreTypes'
  BY <1>1 DEF BusInv, CoreTypes
<1>3. EmitterTypes'
  BY <1>1 DEF BusInv, EmitterTypes
<1>4. Known' = Known
  BY <1>1 DEF Known, InTheMaking
<1>5. Numbered'
  BY <1>1, <1>4 DEF BusInv, Numbered, InOrder
<1>6. Ahead'
  BY <1>1, <1>4 DEF BusInv, Ahead, InTheMaking
<1> QED
  BY <1>2, <1>3, <1>5, <1>6 DEF BusInv

\* A connection does nothing to the bus but to its own receiver.
LEMMA ConnectionsAreApart ==
  ASSUME NEW c \in Clients, Connection(c)
  PROVE  UNCHANGED coreVars
BY DEF Connection, Greet, Subscribe, Close, SendHead, SendTail, ReadHead, Replay, Refuse, ReadEnd,
       Receive, Lag, Hangs, coreVars, busVars, emitVars, countVars, channelVars

\* The invariant of the bus.
LEMMA BusInvariance == Spec => []BusInv
<1>1. ASSUME Init
      PROVE  BusInv
  <2>1. /\ up = FALSE /\ next = 1 /\ log = <<>> /\ queue = <<>> /\ rows = {} /\ inserts = 0
        /\ making = [t \in Emitters |-> NoEvent] /\ stage = [t \in Emitters |-> "idle"]
        /\ emitted = 0 /\ faults = 0
    BY <1>1 DEF Init, BusInit
  <2>2. MaxEmits \in Nat /\ MaxFaults \in Nat /\ Retained \in Nat
    BY BusAssumption
  <2>3. InTheMaking = {}
    BY <2>1 DEF InTheMaking
  <2>4. Known = {} /\ InOrder(log)
    BY <2>1, <2>3, NoPlaces DEF Known, InOrder
  <2>5. log \in BoundedSeq(Event, Retained) /\ queue \in Seq(Event)
    BY <2>1, EmptyLog
  <2>6. CoreTypes
    <3>1. next \in 1 .. MaxEmits + 1 /\ emitted \in 0 .. MaxEmits /\ faults \in 0 .. MaxFaults
      BY <2>1, <2>2
    <3>2. up \in BOOLEAN /\ rows \subseteq Event /\ inserts \in Nat
      BY <2>1
    <3> QED
      BY <2>5, <3>1, <3>2 DEF CoreTypes
  <2>7. EmitterTypes
    BY <2>1 DEF EmitterTypes
  <2> QED
    BY <2>1, <2>3, <2>4, <2>6, <2>7 DEF BusInv, Numbered, Ahead
<1>2. ASSUME BusInv, [Next]_vars
      PROVE  BusInv'
  <2>1. CASE UNCHANGED vars
    BY <1>2, <2>1, BusKeeps DEF vars, busVars, coreVars
  <2>2. CASE Down
    BY <1>2, <2>2, CrashKeeps DEF Down
  <2>3. CASE Bus
    BY <1>2, <2>3, OpenKeeps, WriteKeeps, NumberKeeps, QueueKeeps, PruneKeeps, BroadcastKeeps DEF Bus, Emit
  <2>4. ASSUME NEW c \in Clients, Connection(c)
        PROVE  BusInv'
    BY <1>2, <2>4, ConnectionsAreApart, BusKeeps
  <2> QED
    BY <1>2, <2>1, <2>2, <2>3, <2>4 DEF Next
<1> QED
  BY <1>1, <1>2, PTL DEF Spec

\* A number names one event, in the log, in the table, in the writer's queue and with
\* the emitters, through crashes, pruning and inserts that fail.
THEOREM NumbersAreNames == Spec => []NumbersNameOneEvent
<1>1. BusInv => NumbersNameOneEvent
  BY DEF BusInv, Numbered, Known, NumbersNameOneEvent
<1> QED
  BY <1>1, BusInvariance, PTL

-----------------------------------------------------------------------------
(***************************************************************************)
(* Receivers, connections and clients: types and frames.                   *)
(***************************************************************************)

ChannelTypes ==
  /\ receivers \subseteq Clients
  /\ box \in [Clients -> Seq(Event)]
  /\ lost \in [Clients -> Nat]
  /\ \A c \in Clients : Len(box[c]) <= Capacity

ClientTypes ==
  /\ link \in [Clients -> {"closed", "greeted", "open"}]
  /\ arrived \in [Clients -> {"nothing", "head", "tail", "frame"}]
  /\ partial \in [Clients -> BOOLEAN]
  /\ sending \in [Clients -> {"nothing", "half", "whole"}]
  /\ since \in [Clients -> Nat]
  /\ told \in [Clients -> BOOLEAN]
  /\ seen \in [Clients -> SUBSET (1 .. MaxEmits)]
  /\ last \in [Clients -> 0 .. MaxEmits]
  /\ after \in [Clients -> 0 .. MaxEmits]
  /\ cursor \in [Clients -> 0 .. MaxEmits]
  /\ replay \in [Clients -> {"not yet", "asking", "done"}]

\* A connection that is not open has no receiver and no request; the pieces of a
\* request that have arrived are those that have been sent; a request asks for a page.
Framed(c) ==
  /\ c \in receivers => link[c] = "open"
  /\ link[c] # "open" => replay[c] = "not yet" /\ sending[c] = "nothing" /\ arrived[c] = "nothing"
  /\ arrived[c] = "head" => sending[c] = "half"
  /\ arrived[c] \in {"tail", "frame"} <=> sending[c] = "whole"
  /\ sending[c] # "nothing" => replay[c] = "asking"
  /\ ~up => link[c] = "closed"

WireInv == ChannelTypes /\ ClientTypes /\ \A c \in Clients : Framed(c)

\* A page has all events after n that it spans, and the last page has all.
LEMMA Pages ==
  ASSUME log \in Seq(Event), InOrder(log), NEW n \in 0 .. MaxEmits
  PROVE  /\ Answer(n) \in Seq(Event) /\ Range(Answer(n)) \subseteq Range(log)
         /\ HighestOf(n, Answer(n)) \in 0 .. MaxEmits
         /\ \A e \in Range(log) :
              n < e.number /\ (Len(Answer(n)) < Page \/ e.number <= HighestOf(n, Answer(n)))
                => e \in Range(Answer(n))
<1> DEFINE k == PartitionAfter(n)
           m == Min({k + Page, Len(log)})
           page == Answer(n)
           high == HighestOf(n, page)
<1>1. /\ DOMAIN log = 1 .. Len(log) /\ Len(log) \in Nat /\ MaxEmits \in Nat
      /\ n \in Nat /\ Page \in Nat \ {0}
      /\ \A i \in 1 .. Len(log) : log[i] \in Event /\ log[i] \in Range(log)
      /\ \A e \in Range(log) : \E i \in 1 .. Len(log) : log[i] = e
  BY Places, BusAssumption, PageAssumption
<1>2. \A i \in 1 .. Len(log) : log[i].number \in 1 .. MaxEmits
  BY <1>1 DEF Event
<1>3. k \in 0 .. Len(log) /\ \A i \in 1 .. Len(log) : i <= k <=> log[i].number <= n
  <2> DEFINE K == {0} \cup {i \in DOMAIN log : log[i].number <= n}
  <2>1. K \in SUBSET (0 .. Len(log)) /\ K # {}
    BY <1>1
  <2>2. k = Max(K)
    BY DEF PartitionAfter
  <2>3. \A i \in 1 .. Len(log) : i \in K <=> log[i].number <= n
    BY <1>1
  <2>4. \A i \in K : i = 0 \/ i \in 1 .. Len(log)
    BY <1>1
  <2> HIDE DEF K, k
  <2>5. k \in K /\ \A x \in K : x <= k
    BY <1>1, <2>1, <2>2, MaxOf
  <2>6. k \in 0 .. Len(log)
    BY <2>1, <2>5
  <2>7. ASSUME NEW i \in 1 .. Len(log)
        PROVE  i <= k <=> log[i].number <= n
    <3>1. CASE log[i].number <= n
      BY <2>3, <2>5, <3>1
    <3>2. CASE ~(log[i].number <= n)
      <4>1. ASSUME i <= k
            PROVE  FALSE
        <5>1. k \in 1 .. Len(log) /\ log[k].number <= n
          BY <1>1, <2>3, <2>4, <2>5, <2>6, <4>1
        <5>2. i = k \/ log[i].number < log[k].number
          BY <1>1, <4>1, <5>1 DEF InOrder
        <5> QED
          BY <1>1, <1>2, <3>2, <5>1, <5>2
      <4> QED
        BY <3>2, <4>1
    <3> QED
      BY <3>1, <3>2
  <2> QED
    BY <2>6, <2>7
<1> HIDE DEF k
<1>4. m \in k .. Len(log) /\ (m < k + Page => m = Len(log))
  <2>1. k + Page \in Nat /\ k \in Nat /\ k <= Len(log)
    BY <1>1, <1>3
  <2>2. m = IF k + Page <= Len(log) THEN k + Page ELSE Len(log)
    BY <1>1, <2>1, MinOfTwo
  <2>3. Page \in Nat /\ Page > 0 /\ Len(log) \in Nat
    BY <1>1
  <2> HIDE DEF m
  <2>4. CASE k + Page <= Len(log)
    BY <2>1, <2>2, <2>3, <2>4
  <2>5. CASE ~(k + Page <= Len(log))
    BY <2>1, <2>2, <2>3, <2>5
  <2> QED
    BY <2>4, <2>5
<1>5. page = SubSeq(log, k + 1, m)
  BY DEF Answer, k
<1> HIDE DEF m, page
<1>6. /\ page \in Seq(Event) /\ Len(page) = m - k
      /\ \A j \in 1 .. (m - k) : page[j] = log[k + j]
  <2>1. \A i \in (k + 1) .. m : log[i] \in Event
    BY <1>1, <1>3, <1>4
  <2>2. k + 1 \in Int /\ m \in Int
    BY <1>3, <1>4
  <2>3. /\ SubSeq(log, k + 1, m) \in Seq(Event)
        /\ Len(SubSeq(log, k + 1, m)) = IF k + 1 <= m THEN m - (k + 1) + 1 ELSE 0
        /\ \A j \in 1 .. m - (k + 1) + 1 : SubSeq(log, k + 1, m)[j] = log[(k + 1) + j - 1]
    BY <2>1, <2>2, SubSeqProperties
  <2>4. \A j \in 1 .. (m - k) : j \in 1 .. m - (k + 1) + 1 /\ (k + 1) + j - 1 = k + j
    BY <1>3, <1>4
  <2>5. (IF k + 1 <= m THEN m - (k + 1) + 1 ELSE 0) = m - k
    BY <1>3, <1>4
  <2> QED
    BY <1>5, <2>3, <2>4, <2>5
<1>7. /\ \A j \in 1 .. (m - k) : page[j] \in Range(page)
      /\ \A e \in Range(page) : \E j \in 1 .. (m - k) : page[j] = e
  BY <1>6, Places
<1>8. \A j \in 1 .. (m - k) : k + j \in 1 .. Len(log) /\ k + j <= m /\ page[j] = log[k + j]
  BY <1>3, <1>4, <1>6
<1>9. Range(page) \subseteq Range(log)
  BY <1>1, <1>7, <1>8
<1>10. ASSUME NEW i \in 1 .. Len(log), n < log[i].number, i <= m
       PROVE  log[i] \in Range(page)
  <2>1. ~(i <= k)
    BY <1>1, <1>2, <1>3, <1>10
  <2>2. i - k \in 1 .. (m - k) /\ k + (i - k) = i
    BY <1>3, <1>4, <1>10, <2>1
  <2> QED
    BY <1>7, <1>8, <2>2
<1>11. high \in 0 .. MaxEmits /\ (high = n \/ \E j \in 1 .. (m - k) : high = log[k + j].number)
  <2> DEFINE H == {n} \cup Numbers(Range(page))
  <2>1. \A x \in Numbers(Range(page)) : \E j \in 1 .. (m - k) : x = log[k + j].number
    BY <1>7, <1>8 DEF Numbers
  <2>2. H \in SUBSET (0 .. MaxEmits) /\ H # {}
    BY <1>1, <1>2, <1>8, <2>1
  <2>3. high = Max(H)
    BY DEF HighestOf
  <2> HIDE DEF high
  <2>4. Max(H) \in H
    <3> HIDE DEF H
    <3> QED
      BY <1>1, <2>2, MaxOf
  <2> QED
    BY <2>1, <2>2, <2>3, <2>4
<1> HIDE DEF high
<1>12. ASSUME NEW e \in Range(log), n < e.number, Len(page) < Page \/ e.number <= high
       PROVE  e \in Range(page)
  <2>1. PICK i \in 1 .. Len(log) : log[i] = e
    BY <1>1
  <2>2. CASE Len(page) < Page
    <3>1. m = Len(log)
      <4>1. m - k < Page
        BY <1>6, <2>2
      <4>2. m < k + Page
        <5>1. k \in Int /\ m \in Int /\ Page \in Int
          <6>1. Len(log) \in Int /\ Page \in Int
            BY <1>1
          <6>2. k \in Int
            BY <1>3, <6>1
          <6>3. m \in Int
            BY <1>4, <6>1, <6>2
          <6> QED
            BY <6>1, <6>2, <6>3
        <5> QED
          BY <4>1, <5>1
      <4> QED
        BY <1>4, <4>2
    <3> QED
      BY <1>10, <1>12, <2>1, <3>1
  <2>3. CASE e.number <= high
    <3>1. PICK j \in 1 .. (m - k) : high = log[k + j].number
      BY <1>1, <1>2, <1>11, <1>12, <2>1, <2>3
    <3>2. i <= k + j
      <4>1. ASSUME k + j < i
            PROVE  FALSE
        <5>1. log[k + j].number < log[i].number
          BY <1>1, <1>8, <4>1 DEF InOrder
        <5> QED
          BY <1>2, <1>8, <2>1, <2>3, <3>1, <5>1
      <4> QED
        BY <1>3, <4>1
    <3>3. i <= m
      BY <1>3, <1>4, <1>8, <3>2
    <3> QED
      BY <1>10, <1>12, <2>1, <3>3
  <2> QED
    BY <1>12, <2>2, <2>3
<1> QED
  BY <1>6, <1>9, <1>11, <1>12 DEF page, high

\* The highest of a number and those of some events.
LEMMA HighestIsANumber ==
  ASSUME NEW n \in 0 .. MaxEmits, NEW s \in Seq(Event)
  PROVE  HighestOf(n, s) \in 0 .. MaxEmits
<1> DEFINE H == {n} \cup Numbers(Range(s))
<1>1. \A e \in Range(s) : e.number \in 0 .. MaxEmits
  <2>1. \A e \in Range(s) : e \in Event
    BY Places
  <2>2. \A e \in Event : e.number \in 0 .. MaxEmits
    BY BusAssumption DEF Event
  <2> QED
    BY <2>1, <2>2
<1>2. H \in SUBSET (0 .. MaxEmits) /\ H # {}
  BY <1>1 DEF Numbers
<1>3. HighestOf(n, s) = Max(H) /\ MaxEmits \in Nat
  BY BusAssumption DEF HighestOf
<1> HIDE DEF H
<1> QED
  BY <1>2, <1>3, MaxOf

\* What a connection does not touch of the others.
Apart(c) ==
  \A x \in Clients : x # c =>
    /\ x \in receivers' <=> x \in receivers
    /\ box'[x] = box[x] /\ lost'[x] = lost[x]
    /\ link'[x] = link[x] /\ arrived'[x] = arrived[x] /\ sending'[x] = sending[x]
    /\ since'[x] = since[x] /\ told'[x] = told[x] /\ seen'[x] = seen[x]
    /\ after'[x] = after[x] /\ cursor'[x] = cursor[x] /\ replay'[x] = replay[x]

\* What the client of a connection has been given, or will be.
Due(c, e) == Promised(c, e) \/ (replay[c] = "asking" /\ after[c] < e.number /\ e.number <= cursor[c])
Given(c, e) == e.id \in seen[c] \/ e \in Range(box[c]) \cup InTheMaking
Spared(c) == told[c] \/ lost[c] > 0 \/ \A e \in Range(log) : Due(c, e) => Given(c, e)

MissInv == \A c \in receivers : Spared(c)

ClientInv == WireInv /\ MissInv

\* A step of a connection is about its own client.
LEMMA OthersKept ==
  ASSUME BusInv, ClientInv, NEW c \in Clients, Apart(c), UNCHANGED coreVars,
         ChannelTypes', ClientTypes', Framed(c)', c \in receivers' => Spared(c)'
  PROVE  ClientInv'
<1>1. UNCHANGED <<up, log, making>>
  BY DEF coreVars, emitVars
<1>2. InTheMaking' = InTheMaking
  BY <1>1 DEF InTheMaking
<1>3. ASSUME NEW x \in Clients, x # c
      PROVE  Framed(x)'
  <2>1. Framed(x)
    BY DEF ClientInv, WireInv
  <2>2. /\ x \in receivers' <=> x \in receivers
        /\ link'[x] = link[x] /\ arrived'[x] = arrived[x] /\ sending'[x] = sending[x]
        /\ replay'[x] = replay[x] /\ up' = up
    BY <1>1, <1>3 DEF Apart
  <2> QED
    BY <2>1, <2>2 DEF Framed
<1>4. ASSUME NEW x \in receivers', x # c
      PROVE  Spared(x)'
  <2>1. x \in Clients /\ x \in receivers
    BY <1>4 DEF Apart, ChannelTypes
  <2>2. Spared(x)
    BY <2>1 DEF ClientInv, MissInv
  <2>3. \A e : (Due(x, e)' <=> Due(x, e)) /\ (Given(x, e)' <=> Given(x, e))
    BY <1>2, <1>4, <2>1 DEF Apart, Due, Promised, Given
  <2> QED
    BY <1>1, <1>4, <2>1, <2>2, <2>3 DEF Apart, Spared
<1> QED
  BY <1>3, <1>4 DEF ClientInv, WireInv, MissInv

\* A connection begins.
LEMMA GreetKeeps ==
  ASSUME BusInv, ClientInv, NEW c \in Clients, Greet(c)
  PROVE  ClientInv'
<1>1. /\ up /\ link[c] = "closed" /\ link' = [link EXCEPT ![c] = "greeted"]
      /\ UNCHANGED <<busVars, wireVars, since, clientVars>>
  BY DEF Greet
<1>2. UNCHANGED <<receivers, box, lost, arrived, partial, sending, told, seen, last, after, cursor, replay>>
  BY <1>1 DEF busVars, channelVars, wireVars, clientVars
<1>3. UNCHANGED coreVars /\ up' = up
  BY <1>1 DEF busVars, coreVars
<1>4. ChannelTypes' /\ ClientTypes'
  BY <1>1, <1>2 DEF ClientInv, WireInv, ChannelTypes, ClientTypes
<1>5. Apart(c) /\ link'[c] = "greeted"
  BY <1>1, <1>2 DEF Apart, ClientInv, WireInv, ClientTypes
<1>6. c \notin receivers /\ Framed(c)'
  BY <1>1, <1>2, <1>3, <1>5 DEF ClientInv, WireInv, Framed
<1> QED
  BY <1>1, <1>2, <1>3, <1>4, <1>5, <1>6, OthersKept

\* It takes its receiver: whatever the log has came before.
LEMMA SubscribeKeeps ==
  ASSUME BusInv, ClientInv, NEW c \in Clients, Subscribe(c)
  PROVE  ClientInv'
<1>1. /\ link[c] = "greeted" /\ link' = [link EXCEPT ![c] = "open"]
      /\ receivers' = receivers \cup {c} /\ since' = [since EXCEPT ![c] = next]
      /\ UNCHANGED <<up, log, box, lost, arrived, partial, sending, told, seen, last, after, cursor, replay>>
  BY DEF Subscribe, wireVars, clientVars
<1>2. UNCHANGED coreVars
  BY DEF Subscribe, coreVars
<1>3. /\ next \in Nat /\ up /\ replay[c] = "not yet"
  <2>1. up /\ replay[c] = "not yet"
    BY <1>1 DEF ClientInv, WireInv, Framed
  <2>2. next \in Nat
    BY BusAssumption DEF BusInv, CoreTypes
  <2> QED
    BY <2>1, <2>2
<1>4. ChannelTypes' /\ ClientTypes'
  BY <1>1, <1>3 DEF ClientInv, WireInv, ChannelTypes, ClientTypes
<1>5. Apart(c) /\ link'[c] = "open" /\ since'[c] = next
  BY <1>1 DEF Apart, ClientInv, WireInv, ClientTypes
<1>6. Framed(c)'
  BY <1>1, <1>3, <1>5 DEF ClientInv, WireInv, Framed
<1>7. Spared(c)'
  <2>1. \A e \in Range(log) : e \in Known /\ e \in Event /\ e.number < next
    BY <1>3, KnownEvents DEF BusInv, Ahead, Known
  <2>2. \A e \in Range(log) : ~(e.number >= next)
    <3>1. \A e \in Event : e.number \in Nat
      BY BusAssumption DEF Event
    <3> TAKE e \in Range(log)
    <3>2. e.number \in Nat /\ e.number < next
      BY <2>1, <3>1
    <3> DEFINE n == e.number
    <3>3. n \in Nat /\ next \in Nat /\ n < next
      BY <1>3, <3>2
    <3> HIDE DEF n
    <3>4. ~(n >= next)
      BY <3>3
    <3> QED
      BY <3>4 DEF n
  <2>3. \A e \in Range(log) : ~Due(c, e)'
    BY <1>1, <1>3, <1>5, <2>2 DEF Due, Promised
  <2> QED
    BY <1>1, <2>3 DEF Spared
<1> QED
  BY <1>2, <1>4, <1>5, <1>6, <1>7, OthersKept

\* A connection ends.
LEMMA HangsKeeps ==
  ASSUME BusInv, ClientInv, NEW c \in Clients, Hangs(c)
  PROVE  ClientInv'
<1>1. /\ link' = [link EXCEPT ![c] = "closed"] /\ receivers' = receivers \ {c}
      /\ box' = [box EXCEPT ![c] = <<>>] /\ lost' = [lost EXCEPT ![c] = 0]
      /\ arrived' = [arrived EXCEPT ![c] = "nothing"] /\ partial' = [partial EXCEPT ![c] = FALSE]
      /\ sending' = [sending EXCEPT ![c] = "nothing"] /\ since' = [since EXCEPT ![c] = 0]
      /\ told' = [told EXCEPT ![c] = FALSE] /\ after' = [after EXCEPT ![c] = 0]
      /\ cursor' = [cursor EXCEPT ![c] = 0] /\ replay' = [replay EXCEPT ![c] = "not yet"]
      /\ UNCHANGED <<up, seen, last>>
  BY DEF Hangs
<1>2. UNCHANGED coreVars
  BY DEF Hangs, coreVars
<1>3. ChannelTypes'
  <2>1. <<>> \in Seq(Event) /\ Len(<<>>) <= Capacity
    BY BusAssumption, EmptySeq
  <2>2. receivers' \subseteq Clients /\ box' \in [Clients -> Seq(Event)] /\ lost' \in [Clients -> Nat]
    BY <1>1, <2>1 DEF ClientInv, WireInv, ChannelTypes
  <2>3. \A x \in Clients : Len(box'[x]) <= Capacity
    BY <1>1, <2>1 DEF ClientInv, WireInv, ChannelTypes
  <2> QED
    BY <2>2, <2>3 DEF ChannelTypes
<1>4. ClientTypes'
  <2>1. 0 \in 0 .. MaxEmits
    BY BusAssumption
  <2> QED
    BY <1>1, <2>1 DEF ClientInv, WireInv, ClientTypes
<1>5. Apart(c)
  BY <1>1 DEF Apart, ClientInv, WireInv, ClientTypes, ChannelTypes
<1>6. c \notin receivers' /\ Framed(c)'
  BY <1>1 DEF ClientInv, WireInv, ClientTypes, Framed
<1> QED
  BY <1>2, <1>3, <1>4, <1>5, <1>6, OthersKept

\* A request is sent in two pieces.
LEMMA SendKeeps ==
  ASSUME BusInv, ClientInv, NEW c \in Clients, SendHead(c) \/ SendTail(c)
  PROVE  ClientInv'
<1>1. UNCHANGED <<up, receivers, log, box, lost, link, partial, since, told, seen, last>> /\ UNCHANGED coreVars
  BY DEF SendHead, SendTail, busVars, channelVars, coreVars, clientVars
<1>2. CASE SendHead(c)
  <2>1. /\ link[c] = "open" /\ sending[c] = "nothing" /\ replay[c] # "done"
        /\ arrived' = [arrived EXCEPT ![c] = "head"] /\ sending' = [sending EXCEPT ![c] = "half"]
        /\ replay' = [replay EXCEPT ![c] = "asking"]
        /\ IF replay[c] = "asking" THEN UNCHANGED <<after, cursor>>
           ELSE after' = [after EXCEPT ![c] = last[c]] /\ cursor' = [cursor EXCEPT ![c] = last[c]]
    BY <1>2 DEF SendHead
  <2>2. ChannelTypes' /\ ClientTypes'
    <3>1. ChannelTypes'
      BY <1>1 DEF ClientInv, WireInv, ChannelTypes
    <3>2. after' \in [Clients -> 0 .. MaxEmits] /\ cursor' \in [Clients -> 0 .. MaxEmits]
      <4>1. /\ after \in [Clients -> 0 .. MaxEmits] /\ cursor \in [Clients -> 0 .. MaxEmits]
            /\ last[c] \in 0 .. MaxEmits
        BY DEF ClientInv, WireInv, ClientTypes
      <4>2. CASE replay[c] = "asking"
        BY <2>1, <4>1, <4>2
      <4>3. CASE replay[c] # "asking"
        BY <2>1, <4>1, <4>3
      <4> QED
        BY <4>2, <4>3
    <3> QED
      BY <1>1, <2>1, <3>1, <3>2 DEF ClientInv, WireInv, ClientTypes
  <2>3. Apart(c)
    BY <1>1, <2>1 DEF Apart, ClientInv, WireInv, ClientTypes
  <2>4. Framed(c)'
    BY <1>1, <2>1 DEF ClientInv, WireInv, ClientTypes, Framed
  <2>5. ASSUME c \in receivers
        PROVE  Spared(c)'
    <3>1. Spared(c)
      BY <2>5 DEF ClientInv, MissInv
    <3>2. \A e \in Range(log) : Due(c, e)' => Due(c, e)
      <4>1. \A e \in Range(log) : e.number \in Nat
        BY KnownEvents, BusAssumption DEF Known, Event
      <4>2. last[c] \in Nat
        <5>1. last[c] \in 0 .. MaxEmits
          BY DEF ClientInv, WireInv, ClientTypes
        <5> QED
          BY <5>1
      <4>3. replay'[c] = "asking"
        BY <2>1 DEF ClientInv, WireInv, ClientTypes
      <4>4. CASE replay[c] = "asking"
        BY <1>1, <2>1, <4>3, <4>4 DEF Due, Promised
      <4>5. CASE replay[c] # "asking"
        <5>1. after'[c] = last[c] /\ cursor'[c] = last[c]
          BY <2>1, <4>5 DEF ClientInv, WireInv, ClientTypes
        <5>2. \A e \in Range(log) : ~(last[c] < e.number /\ e.number <= last[c])
          BY <4>1, <4>2
        <5> QED
          BY <1>1, <4>3, <5>1, <5>2 DEF Due, Promised
      <4> QED
        BY <4>4, <4>5
    <3>3. \A e : Given(c, e) => Given(c, e)'
      BY <1>1 DEF Given, InTheMaking, coreVars, emitVars
    <3> QED
      BY <1>1, <3>1, <3>2, <3>3 DEF Spared
  <2> QED
    BY <1>1, <2>2, <2>3, <2>4, <2>5, OthersKept
<1>3. CASE SendTail(c)
  <2>1. /\ sending[c] = "half" /\ sending' = [sending EXCEPT ![c] = "whole"]
        /\ arrived' = [arrived EXCEPT ![c] = IF arrived[c] = "head" THEN "frame" ELSE "tail"]
        /\ UNCHANGED <<after, cursor, replay>>
    BY <1>3 DEF SendTail, clientVars
  <2>2. ChannelTypes' /\ ClientTypes'
    BY <1>1, <2>1 DEF ClientInv, WireInv, ChannelTypes, ClientTypes
  <2>3. Apart(c)
    BY <1>1, <2>1 DEF Apart, ClientInv, WireInv, ClientTypes
  <2>4. Framed(c)'
    BY <1>1, <2>1 DEF ClientInv, WireInv, ClientTypes, Framed
  <2>5. c \in receivers => Spared(c)'
    BY <1>1, <2>1 DEF ClientInv, MissInv, Spared, Due, Promised, Given, InTheMaking, coreVars, emitVars
  <2> QED
    BY <1>1, <2>2, <2>3, <2>4, <2>5, OthersKept
<1> QED
  BY <1>2, <1>3

\* A piece of a frame is read, or what cannot be parsed is refused.
LEMMA ReadKeeps ==
  ASSUME BusInv, ClientInv, NEW c \in Clients, ReadHead(c) \/ Refuse(c)
  PROVE  ClientInv'
<1>1. /\ link[c] = "open" /\ arrived' = [arrived EXCEPT ![c] = "nothing"]
      /\ UNCHANGED <<up, receivers, log, box, lost, link, since, told, seen, last, after, cursor, replay>>
      /\ UNCHANGED coreVars
  BY DEF ReadHead, Refuse, busVars, channelVars, coreVars, clientVars
<1>2. \/ /\ arrived[c] = "head" /\ partial' = [partial EXCEPT ![c] = TRUE] /\ sending' = sending
      \/ /\ arrived[c] = "tail" /\ partial' = partial /\ sending' = [sending EXCEPT ![c] = "nothing"]
  BY DEF ReadHead, Refuse
<1>3. ChannelTypes'
  BY <1>1 DEF ClientInv, WireInv, ChannelTypes
<1>4. ClientTypes'
  BY <1>1, <1>2 DEF ClientInv, WireInv, ClientTypes
<1>5. Apart(c)
  BY <1>1, <1>2 DEF Apart, ClientInv, WireInv, ClientTypes
<1>6. Framed(c)'
  BY <1>1, <1>2 DEF ClientInv, WireInv, ClientTypes, Framed
<1>7. c \in receivers => Spared(c)'
  BY <1>1 DEF ClientInv, MissInv, Spared, Due, Promised, Given, InTheMaking, coreVars, emitVars
<1> QED
  BY <1>1, <1>3, <1>4, <1>5, <1>6, <1>7, OthersKept

\* A page is given: all that it spans has been seen, and after the last one all.
LEMMA ReplayKeeps ==
  ASSUME BusInv, ClientInv, NEW c \in Clients, Replay(c)
  PROVE  ClientInv'
<1> DEFINE page == Answer(cursor[c])
           high == HighestOf(cursor[c], page)
           top == HighestOf(last[c], page)
           over == Len(page) < Page
<1>1. /\ link[c] = "open" /\ FrameIsWhole(c)
      /\ seen' = [seen EXCEPT ![c] = seen[c] \cup {e.id : e \in Range(page)}]
      /\ cursor' = [cursor EXCEPT ![c] = IF over THEN 0 ELSE high]
      /\ last' = [last EXCEPT ![c] = top]
      /\ replay' = [replay EXCEPT ![c] = IF over THEN "done" ELSE "asking"]
      /\ arrived' = [arrived EXCEPT ![c] = "nothing"]
      /\ partial' = [partial EXCEPT ![c] = FALSE]
      /\ sending' = [sending EXCEPT ![c] = "nothing"]
      /\ UNCHANGED <<busVars, link, since, told, after>>
  BY DEF Replay
<1>2. UNCHANGED <<up, receivers, log, box, lost, making>> /\ UNCHANGED coreVars
  BY <1>1 DEF busVars, channelVars, coreVars, emitVars
<1>3. /\ log \in Seq(Event) /\ InOrder(log) /\ \A e \in Range(log) : e \in Event
      /\ cursor[c] \in 0 .. MaxEmits /\ last[c] \in 0 .. MaxEmits
  BY KnownEvents DEF BusInv, Numbered, ClientInv, WireInv, ClientTypes, Known
<1>4. /\ page \in Seq(Event) /\ Range(page) \subseteq Range(log) /\ high \in 0 .. MaxEmits
      /\ \A e \in Range(log) : cursor[c] < e.number /\ (over \/ e.number <= high) => e \in Range(page)
  BY <1>3, Pages
<1>5. top \in 0 .. MaxEmits
  BY <1>3, <1>4, HighestIsANumber
<1>6. 0 \in 0 .. MaxEmits /\ \A e \in Event : e.id \in 1 .. MaxEmits /\ e.number \in Nat
  BY BusAssumption DEF Event
<1> HIDE DEF page, high, top, over
<1>7. ChannelTypes'
  BY <1>2 DEF ClientInv, WireInv, ChannelTypes
<1>8. ClientTypes'
  <2>1. {e.id : e \in Range(page)} \subseteq 1 .. MaxEmits
    BY <1>3, <1>4, <1>6
  <2>2. seen' \in [Clients -> SUBSET (1 .. MaxEmits)]
    BY <1>1, <2>1 DEF ClientInv, WireInv, ClientTypes
  <2>3. cursor' \in [Clients -> 0 .. MaxEmits] /\ last' \in [Clients -> 0 .. MaxEmits]
    BY <1>1, <1>4, <1>5, <1>6 DEF ClientInv, WireInv, ClientTypes
  <2> QED
    BY <1>1, <2>2, <2>3 DEF ClientInv, WireInv, ClientTypes
<1>9. Apart(c)
  BY <1>1, <1>2 DEF Apart, ClientInv, WireInv, ClientTypes
<1>10. Framed(c)'
  BY <1>1, <1>2 DEF ClientInv, WireInv, ClientTypes, Framed
<1>11. ASSUME c \in receivers
       PROVE  Spared(c)'
  <2>1. Spared(c) /\ replay[c] = "asking"
    <3>1. Spared(c) /\ Framed(c)
      BY <1>11 DEF ClientInv, MissInv, WireInv
    <3> QED
      BY <1>1, <3>1 DEF Framed, FrameIsWhole
  <2>2. /\ seen'[c] = seen[c] \cup {e.id : e \in Range(page)}
        /\ cursor'[c] = IF over THEN 0 ELSE high
        /\ replay'[c] = IF over THEN "done" ELSE "asking"
    BY <1>1 DEF ClientInv, WireInv, ClientTypes
  <2>3. \A e : Given(c, e) => Given(c, e)'
    BY <1>2, <2>2 DEF Given, InTheMaking
  <2>4. ASSUME NEW e \in Range(log), Due(c, e)', ~Due(c, e)
        PROVE  Given(c, e)'
    <3>1. /\ after[c] < e.number /\ (over \/ e.number <= high)
          /\ ~(e.number <= cursor[c])
      BY <1>1, <2>1, <2>2, <2>4 DEF Due, Promised
    <3>2. cursor[c] < e.number
      <4> DEFINE n == e.number
                 m == cursor[c]
      <4>1. n \in Nat /\ m \in Nat /\ ~(n <= m)
        BY <1>3, <1>6, <3>1
      <4> HIDE DEF n, m
      <4>2. m < n
        BY <4>1
      <4> QED
        BY <4>2 DEF n, m
    <3>3. e \in Range(page)
      BY <1>4, <3>1, <3>2
    <3> QED
      BY <2>2, <3>3 DEF Given
  <2> QED
    BY <1>1, <1>2, <2>1, <2>3, <2>4 DEF Spared
<1> QED
  BY <1>2, <1>7, <1>8, <1>9, <1>10, <1>11, OthersKept

\* An event is given.
LEMMA ReceiveKeeps ==
  ASSUME BusInv, ClientInv, NEW c \in Clients, Receive(c)
  PROVE  ClientInv'
<1> DEFINE e == Head(box[c])
           s == box[c]
           top == HighestOf(last[c], <<e>>)
<1>1. /\ link[c] = "open" /\ lost[c] = 0 /\ s # <<>>
      /\ seen' = [seen EXCEPT ![c] = seen[c] \cup {e.id}]
      /\ last' = [last EXCEPT ![c] = top]
      /\ box' = [box EXCEPT ![c] = Tail(s)]
      /\ partial' = [partial EXCEPT ![c] = FALSE]
      /\ UNCHANGED <<up, log, making, receivers, lost, link, arrived, sending, since, told, after, cursor, replay>>
  BY DEF Receive, emitVars
<1>2. UNCHANGED coreVars
  BY DEF Receive, coreVars
<1>3. s \in Seq(Event) /\ Len(s) <= Capacity /\ last[c] \in 0 .. MaxEmits
  BY DEF ClientInv, WireInv, ChannelTypes, ClientTypes
<1>4. /\ e \in Event /\ Tail(s) \in Seq(Event) /\ Len(Tail(s)) = Len(s) - 1 /\ e = s[1]
      /\ \A i \in 1 .. Len(Tail(s)) : Tail(s)[i] = s[i + 1]
  BY <1>1, <1>3, HeadTailProperties
<1>5. Len(s) \in Nat /\ Len(s) # 0 /\ \A x \in Range(s) : \E i \in 1 .. Len(s) : s[i] = x
  BY <1>1, <1>3, EmptySeq, Places
<1>6. \A x \in Range(s) : x = e \/ x \in Range(Tail(s))
  <2> DEFINE r == Tail(s)
  <2>1. \A i \in 1 .. Len(r) : r[i] \in Range(r)
    BY <1>4, Places
  <2> HIDE DEF r
  <2>2. ASSUME NEW i \in 1 .. Len(s), i # 1
        PROVE  s[i] \in Range(r)
    <3>1. i - 1 \in 1 .. Len(r) /\ r[i - 1] = s[i]
      BY <1>4, <1>5, <2>2 DEF r
    <3> QED
      BY <2>1, <3>1
  <2> QED
    BY <1>4, <1>5, <2>2 DEF r
<1>7. top \in 0 .. MaxEmits
  <2>1. <<e>> \in Seq(Event)
    BY <1>4
  <2> QED
    BY <1>3, <2>1, HighestIsANumber
<1>8. e.id \in 1 .. MaxEmits
  BY <1>4 DEF Event
<1> HIDE DEF e, s, top
<1>9. ChannelTypes'
  <2>1. Capacity \in Nat /\ Len(Tail(s)) <= Capacity
    BY <1>3, <1>4, <1>5, BusAssumption
  <2>2. box' \in [Clients -> Seq(Event)] /\ receivers' \subseteq Clients /\ lost' \in [Clients -> Nat]
    BY <1>1, <1>4 DEF ClientInv, WireInv, ChannelTypes
  <2>3. \A x \in Clients : Len(box'[x]) <= Capacity
    BY <1>1, <2>1 DEF ClientInv, WireInv, ChannelTypes
  <2> QED
    BY <2>2, <2>3 DEF ChannelTypes
<1>10. ClientTypes'
  BY <1>1, <1>7, <1>8 DEF ClientInv, WireInv, ClientTypes
<1>11. Apart(c)
  BY <1>1 DEF Apart, ClientInv, WireInv, ClientTypes, ChannelTypes
<1>12. Framed(c)'
  BY <1>1 DEF ClientInv, WireInv, Framed
<1>13. ASSUME c \in receivers
       PROVE  Spared(c)'
  <2>1. Spared(c)
    BY <1>13 DEF ClientInv, MissInv
  <2>2. seen'[c] = seen[c] \cup {e.id} /\ box'[c] = Tail(s) /\ box[c] = s
    BY <1>1 DEF ClientInv, WireInv, ClientTypes, ChannelTypes, s
  <2>3. \A x : Given(c, x) => Given(c, x)'
    BY <1>1, <1>6, <2>2 DEF Given, InTheMaking
  <2>4. \A x : Due(c, x)' <=> Due(c, x)
    BY <1>1 DEF Due, Promised
  <2> QED
    BY <1>1, <2>1, <2>3, <2>4 DEF Spared
<1> QED
  BY <1>1, <1>2, <1>9, <1>10, <1>11, <1>12, <1>13, OthersKept

\* A client is told that it lags.
LEMMA LagKeeps ==
  ASSUME BusInv, ClientInv, NEW c \in Clients, Lag(c)
  PROVE  ClientInv'
<1>1. /\ link[c] = "open" /\ lost' = [lost EXCEPT ![c] = 0] /\ told' = [told EXCEPT ![c] = TRUE]
      /\ partial' = [partial EXCEPT ![c] = FALSE]
      /\ UNCHANGED <<up, receivers, box, link, arrived, sending, since, seen, last, after, cursor, replay>>
  BY DEF Lag
<1>2. UNCHANGED coreVars
  BY DEF Lag, coreVars
<1>3. ChannelTypes' /\ ClientTypes'
  BY <1>1 DEF ClientInv, WireInv, ChannelTypes, ClientTypes
<1>4. Apart(c)
  BY <1>1 DEF Apart, ClientInv, WireInv, ClientTypes, ChannelTypes
<1>5. Framed(c)'
  BY <1>1 DEF ClientInv, WireInv, Framed
<1>6. Spared(c)'
  BY <1>1 DEF ClientInv, WireInv, ClientTypes, Spared
<1> QED
  BY <1>2, <1>3, <1>4, <1>5, <1>6, OthersKept

\* Whatever a connection does.
LEMMA ConnectionKeeps ==
  ASSUME BusInv, ClientInv, NEW c \in Clients, Connection(c)
  PROVE  ClientInv'
BY GreetKeeps, SubscribeKeeps, HangsKeeps, SendKeeps, ReadKeeps, ReplayKeeps, ReceiveKeeps, LagKeeps
   DEF Connection, Close, ReadEnd

-----------------------------------------------------------------------------
(***************************************************************************)
(* What the bus does to the clients.                                       *)
(***************************************************************************)

wires == <<link, wireVars, since, clientVars>>

\* Steps of the bus leave the connections as they are.
LEMMA WiresStay ==
  ASSUME ClientInv, UNCHANGED wires, receivers' = receivers, up => up'
  PROVE  ClientTypes' /\ \A c \in Clients : Framed(c)'
<1>1. UNCHANGED <<link, arrived, partial, sending, since, told, seen, last, after, cursor, replay>>
  BY DEF wires, wireVars, clientVars
<1>2. ClientTypes'
  BY <1>1 DEF ClientInv, WireInv, ClientTypes
<1>3. ASSUME NEW c \in Clients
      PROVE  Framed(c)'
  <2>1. Framed(c)
    BY DEF ClientInv, WireInv
  <2> QED
    BY <1>1, <2>1 DEF Framed
<1> QED
  BY <1>2, <1>3

\* What has been said of the clients is said, if nothing of theirs has changed, and
\* what the log has got is in the making.
LEMMA LogGrows ==
  ASSUME BusInv, ClientInv, UNCHANGED wires, UNCHANGED channelVars, up => up',
         InTheMaking \subseteq InTheMaking', Range(log') \subseteq Range(log) \cup InTheMaking'
  PROVE  ClientInv'
<1>1. UNCHANGED <<since, told, seen, after, cursor, replay, receivers, box, lost>>
  BY DEF wires, clientVars, channelVars
<1>2. ChannelTypes' /\ ClientTypes' /\ \A c \in Clients : Framed(c)'
  BY <1>1, WiresStay DEF ClientInv, WireInv, ChannelTypes
<1>3. ASSUME NEW c \in receivers
      PROVE  Spared(c)'
  <2>1. Spared(c)
    BY DEF ClientInv, MissInv
  <2>2. \A e : (Due(c, e)' <=> Due(c, e)) /\ (Given(c, e) => Given(c, e)')
    BY <1>1 DEF Due, Promised, Given
  <2>3. \A e \in InTheMaking' : Given(c, e)'
    BY DEF Given
  <2> QED
    BY <1>1, <2>1, <2>2, <2>3 DEF Spared
<1> QED
  BY <1>1, <1>2, <1>3 DEF ClientInv, WireInv, MissInv

\* An event that is broadcast goes to all receivers, or a receiver has lost one.
LEMMA BroadcastReaches ==
  ASSUME BusInv, ClientInv, NEW t \in Emitters, Broadcast(t), UNCHANGED wires
  PROVE  ClientInv'
<1> DEFINE e == making[t]
<1>1. /\ box' = [c \in Clients |->
                   IF c \in receivers THEN LastOf(Append(box[c], e), Capacity) ELSE box[c]]
      /\ lost' = [c \in Clients |->
                   IF c \in receivers /\ Len(box[c]) = Capacity THEN lost[c] + 1 ELSE lost[c]]
      /\ making' = [making EXCEPT ![t] = NoEvent]
      /\ UNCHANGED <<up, log, receivers>>
  BY DEF Broadcast
<1>2. e \in Event
  BY DEF Broadcast, BusInv, EmitterTypes
<1>3. InTheMaking \subseteq InTheMaking' \cup {e}
  BY <1>1, MakingChanges
<1> HIDE DEF e
<1>4. Capacity \in Nat \ {0}
  BY BusAssumption
<1>5. ASSUME NEW c \in receivers
      PROVE  /\ c \in Clients /\ box'[c] \in Seq(Event) /\ Len(box'[c]) <= Capacity
             /\ lost'[c] \in Nat
             /\ lost[c] > 0 \/ Len(box[c]) = Capacity => lost'[c] > 0
             /\ Len(box[c]) # Capacity => Range(box[c]) \cup {e} \subseteq Range(box'[c])
  <2> DEFINE s == box[c]
  <2>1. c \in Clients /\ s \in Seq(Event) /\ Len(s) <= Capacity /\ lost[c] \in Nat /\ Len(s) \in Nat
    BY LenProperties DEF ClientInv, WireInv, ChannelTypes
  <2>2. /\ box'[c] = LastOf(Append(s, e), Capacity)
        /\ lost'[c] = IF Len(s) = Capacity THEN lost[c] + 1 ELSE lost[c]
    BY <1>1, <2>1
  <2> HIDE DEF s
  <2>3. /\ box'[c] \in Seq(Event) /\ e \in Range(box'[c]) /\ Len(box'[c]) <= Capacity
        /\ Len(s) < Capacity => Range(s) \subseteq Range(box'[c])
    <3> DEFINE r == LastOf(Append(s, e), Capacity)
    <3>1. /\ r \in Seq(Event) /\ e \in Range(r)
          /\ Len(s) <= Capacity => Len(r) <= Capacity
          /\ Len(s) < Capacity => Range(s) \subseteq Range(r)
      BY <1>2, <1>4, <2>1, LastOfAppended
    <3> HIDE DEF r
    <3>2. box'[c] = r
      BY <2>2 DEF r
    <3> QED
      BY <2>1, <3>1, <3>2
  <2>4. Len(s) # Capacity => Len(s) < Capacity
    BY <1>4, <2>1
  <2>5. lost'[c] \in Nat /\ (lost[c] > 0 \/ Len(s) = Capacity => lost'[c] > 0)
    BY <2>1, <2>2
  <2> QED
    BY <2>1, <2>3, <2>4, <2>5 DEF s
<1>6. ASSUME NEW c \in Clients, c \notin receivers
      PROVE  box'[c] = box[c] /\ lost'[c] = lost[c]
  BY <1>1, <1>6
<1>7. ChannelTypes'
  <2>1. /\ receivers \subseteq Clients
        /\ \A c \in Clients : box[c] \in Seq(Event) /\ lost[c] \in Nat /\ Len(box[c]) <= Capacity
    BY DEF ClientInv, WireInv, ChannelTypes
  <2>2. ASSUME NEW c \in Clients
        PROVE  box'[c] \in Seq(Event) /\ lost'[c] \in Nat /\ Len(box'[c]) <= Capacity
    BY <1>5, <1>6, <2>1
  <2>3. box' \in [Clients -> Seq(Event)] /\ lost' \in [Clients -> Nat]
    BY <1>1, <2>2
  <2> QED
    BY <1>1, <2>1, <2>2, <2>3 DEF ChannelTypes
<1>8. ClientTypes' /\ \A c \in Clients : Framed(c)'
  BY <1>1, WiresStay
<1>9. ASSUME NEW c \in receivers
      PROVE  Spared(c)'
  <2>1. Spared(c) /\ UNCHANGED <<since, told, seen, after, cursor, replay>>
    BY DEF ClientInv, MissInv, wires, clientVars
  <2>2. CASE told[c] \/ lost[c] > 0 \/ Len(box[c]) = Capacity
    BY <1>5, <2>1, <2>2 DEF Spared
  <2>3. CASE ~(told[c] \/ lost[c] > 0 \/ Len(box[c]) = Capacity)
    <3>1. Range(box[c]) \cup {e} \subseteq Range(box'[c])
      BY <1>5, <2>3
    <3>2. \A x : Given(c, x) => Given(c, x)'
      BY <1>3, <2>1, <3>1 DEF Given
    <3>3. \A x : Due(c, x)' <=> Due(c, x)
      BY <2>1 DEF Due, Promised
    <3> QED
      BY <1>1, <2>1, <2>3, <3>2, <3>3 DEF Spared
  <2> QED
    BY <2>2, <2>3
<1> QED
  BY <1>1, <1>7, <1>8, <1>9 DEF ClientInv, WireInv, MissInv

\* The other steps of the bus.
LEMMA BusServes ==
  ASSUME BusInv, ClientInv, Bus
  PROVE  ClientInv'
<1>1. UNCHANGED wires
  BY DEF Bus, wires
<1>2. CASE Open
  <2>1. ~up /\ UNCHANGED channelVars /\ up' = TRUE
    BY <1>2 DEF Open
  <2>2. \A c \in Clients : c \notin receivers
    BY <2>1 DEF ClientInv, WireInv, Framed
  <2>3. receivers = {} /\ receivers' = {}
    BY <2>1, <2>2 DEF ClientInv, WireInv, ChannelTypes, channelVars
  <2>4. ClientTypes' /\ \A c \in Clients : Framed(c)'
    BY <1>1, <2>1, <2>3, WiresStay
  <2>5. ChannelTypes'
    BY <2>1 DEF ClientInv, WireInv, ChannelTypes, channelVars
  <2> QED
    BY <2>3, <2>4, <2>5 DEF ClientInv, WireInv, MissInv
<1>3. CASE Write
  <2>1. UNCHANGED <<up, log, making>> /\ UNCHANGED channelVars
    BY <1>3 DEF Write, emitVars
  <2>2. InTheMaking' = InTheMaking
    BY <2>1 DEF InTheMaking
  <2> QED
    BY <1>1, <2>1, <2>2, LogGrows
<1>4. ASSUME NEW t \in Emitters, NEW durable \in BOOLEAN, Number(t, durable)
      PROVE  ClientInv'
  <2> DEFINE e == [id |-> emitted + 1, number |-> next, durable |-> durable]
  <2>1. /\ stage[t] = "idle" /\ emitted < MaxEmits
        /\ log' = LastOf(Append(log, e), Retained) /\ making' = [making EXCEPT ![t] = e]
        /\ up' = up /\ UNCHANGED channelVars
    BY <1>4 DEF Number
  <2>2. e \in Event
    <3>1. emitted \in Nat /\ next \in Nat /\ next >= 1 /\ next <= emitted + 1 /\ MaxEmits \in Nat
      BY BusAssumption DEF BusInv, CoreTypes, Numbered
    <3> QED
      BY <2>1, <3>1 DEF Event
  <2> HIDE DEF e
  <2>3. making[t] = NoEvent /\ e # NoEvent
    BY <2>1, <2>2, KnownEvents DEF BusInv, EmitterTypes
  <2>4. InTheMaking \subseteq InTheMaking' /\ e \in InTheMaking'
    BY <2>1, <2>2, <2>3, MakingChanges
  <2>5. Range(log') \subseteq Range(log) \cup {e}
    BY <2>1, <2>2, KnownEvents, LastOfAppended, BusAssumption
  <2> QED
    BY <1>1, <2>1, <2>4, <2>5, LogGrows
<1>5. ASSUME NEW t \in Emitters, Queue(t) \/ Prune(t)
      PROVE  ClientInv'
  <2>1. UNCHANGED <<up, log, making>> /\ UNCHANGED channelVars
    BY <1>5 DEF Queue, Prune
  <2>2. InTheMaking' = InTheMaking
    BY <2>1 DEF InTheMaking
  <2> QED
    BY <1>1, <2>1, <2>2, LogGrows
<1> QED
  BY <1>1, <1>2, <1>3, <1>4, <1>5, BroadcastReaches DEF Bus, Emit

\* The end of the core ends the connections.
LEMMA DownKeeps ==
  ASSUME ClientInv, Down
  PROVE  ClientInv'
<1>1. /\ up' = FALSE /\ receivers' = {} /\ box' = [c \in Clients |-> <<>>] /\ lost' = [c \in Clients |-> 0]
      /\ UNCHANGED <<seen, last>> /\ Unconnected
  BY DEF Down, Crash
<1>2. 0 \in 0 .. MaxEmits /\ <<>> \in Seq(Event) /\ Len(<<>>) <= Capacity
  BY BusAssumption, EmptySeq
<1>3. ChannelTypes'
  <2>1. box' \in [Clients -> Seq(Event)] /\ lost' \in [Clients -> Nat]
    BY <1>1, <1>2
  <2>2. \A c \in Clients : Len(box'[c]) <= Capacity
    BY <1>1, <1>2
  <2> QED
    BY <1>1, <2>1, <2>2 DEF ChannelTypes
<1>4. ClientTypes'
  BY <1>1, <1>2 DEF Unconnected, ClientInv, WireInv, ClientTypes
<1>5. \A c \in Clients : Framed(c)'
  BY <1>1 DEF Unconnected, Framed
<1> QED
  BY <1>1, <1>3, <1>4, <1>5 DEF ClientInv, WireInv, MissInv

\* The invariant of the connections.
LEMMA ClientInvariance == Spec => []ClientInv
<1>1. ASSUME Init
      PROVE  ClientInv
  <2>1. /\ receivers = {} /\ box = [c \in Clients |-> <<>>] /\ lost = [c \in Clients |-> 0]
        /\ link = [c \in Clients |-> "closed"] /\ arrived = [c \in Clients |-> "nothing"]
        /\ partial = [c \in Clients |-> FALSE] /\ sending = [c \in Clients |-> "nothing"]
        /\ since = [c \in Clients |-> 0] /\ told = [c \in Clients |-> FALSE]
        /\ seen = [c \in Clients |-> {}] /\ last = [c \in Clients |-> 0]
        /\ after = [c \in Clients |-> 0] /\ cursor = [c \in Clients |-> 0]
        /\ replay = [c \in Clients |-> "not yet"]
    BY <1>1 DEF Init, BusInit
  <2>2. 0 \in 0 .. MaxEmits /\ <<>> \in Seq(Event) /\ Len(<<>>) <= Capacity
    BY BusAssumption, EmptySeq
  <2>3. ChannelTypes
    <3>1. box \in [Clients -> Seq(Event)] /\ lost \in [Clients -> Nat]
      BY <2>1, <2>2
    <3>2. \A c \in Clients : Len(box[c]) <= Capacity
      BY <2>1, <2>2
    <3> QED
      BY <2>1, <3>1, <3>2 DEF ChannelTypes
  <2>4. ClientTypes
    BY <2>1, <2>2 DEF ClientTypes
  <2>5. \A c \in Clients : Framed(c)
    BY <2>1 DEF Framed
  <2> QED
    BY <2>1, <2>3, <2>4, <2>5 DEF ClientInv, WireInv, MissInv
<1>2. ASSUME BusInv, ClientInv, [Next]_vars
      PROVE  ClientInv'
  <2>1. CASE UNCHANGED vars
    <3>1. UNCHANGED wires /\ UNCHANGED channelVars /\ UNCHANGED <<up, log, making>>
      BY <2>1 DEF vars, busVars, emitVars, wires
    <3>2. InTheMaking' = InTheMaking
      BY <3>1 DEF InTheMaking
    <3> QED
      BY <1>2, <3>1, <3>2, LogGrows
  <2> QED
    BY <1>2, <2>1, DownKeeps, BusServes, ConnectionKeeps DEF Next
<1> QED
  BY <1>1, <1>2, BusInvariance, PTL DEF Spec

-----------------------------------------------------------------------------
\* The state of the bus, of the connections and of the clients is of its type.
THEOREM Types == Spec => []TypeOK
<1>1. BusInv /\ ClientInv => TypeOK
  <2> SUFFICES ASSUME BusInv, ClientInv PROVE TypeOK
    OBVIOUS
  <2>1. BusTypeOK
    BY DEF BusInv, CoreTypes, EmitterTypes, ClientInv, WireInv, ChannelTypes, BusTypeOK
  <2> QED
    BY <2>1 DEF ClientInv, WireInv, ClientTypes, TypeOK
<1> QED
  BY <1>1, BusInvariance, ClientInvariance, PTL

\* No client with a receiver misses an event that it was promised and that the log still
\* has, unless it has been or will be told that it lags.
THEOREM NothingMissed == Spec => []NothingIsMissedSilently
<1>1. ClientInv => NothingIsMissedSilently
  BY DEF ClientInv, MissInv, Spared, Due, Given, NothingIsMissedSilently
<1> QED
  BY <1>1, ClientInvariance, PTL

\* While a client waits for an answer, the server has something of its request to read.
THEOREM ClientsAreHeard == Spec => []WaitingClientsAreHeard
<1>1. ClientInv => WaitingClientsAreHeard
  BY DEF ClientInv, WireInv, Framed, WaitingClientsAreHeard
<1> QED
  BY <1>1, ClientInvariance, PTL

=============================================================================
