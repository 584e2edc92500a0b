------------------------- MODULE DevServers_proofs -------------------------
(***************************************************************************)
(* Proofs about DevServers, for any number of connections, scopes, ports   *)
(* and instances.  What a row and its lease promise is kept by every       *)
(* transaction (LeaseInv); what memory promises about a row is kept        *)
(* because every caller names a row, no two callers start the same         *)
(* instance, and a child is watched until its monitor has its event.       *)
(***************************************************************************)
EXTENDS DevServers, TLAPS, SequenceTheorems

-----------------------------------------------------------------------------
(***************************************************************************)
(* The inductive invariant.                                                *)
(***************************************************************************)

\* A lease without a port is none, and one in use is of the scope and the port of
\* the instance that uses it.
LeasesAreOfRows ==
  \A s \in Scopes :
    /\ leases[s].port = NoPort => leases[s] = NoLease
    /\ leases[s].instance # NoInstance =>
         /\ leases[s].instance \in Rows
         /\ rows[leases[s].instance].scope = s
         /\ rows[leases[s].instance].port = leases[s].port

LeaseInv == ActiveInstancesHoldTheirLease /\ PortsAreLeasedOnce /\ LeasesAreOfRows

StartPoints == {"launch", "control"}
ReadyPoints == {"started", "report"}
FreePoints == {"idle", "next"}

\* A caller works for an instance that has a row, starts it while it has no child,
\* and goes on with it only after the supervisor has said that it is ready.
CallOK(c) ==
  /\ call[c].pc \notin FreePoints => call[c].instance \in Rows
  /\ call[c].pc \in StartPoints => servers[call[c].instance].child = "none"
  /\ call[c].pc = "control" => servers[call[c].instance].watched
  /\ call[c].pc \in ReadyPoints => servers[call[c].instance].startup = "ok"

\* No two callers start the same instance.
StartersDiffer ==
  \A c, d \in Callers :
    c # d /\ call[c].pc \in StartPoints /\ call[d].pc \in StartPoints =>
      call[c].instance # call[d].instance

\* Nothing is known of a child that was not spawned, and one that was has a port.  A
\* child that lives is watched and has not had its last event.  Only instances with
\* a row have either.
ServerOK(i) ==
  /\ servers[i].child = "none" => servers[i].event = "none" /\ servers[i].startup = "waiting"
  /\ servers[i].child # "none" => servers[i].port \in Ports
  /\ servers[i].child \in {"starting", "ready"} => servers[i].watched /\ servers[i].event = "none"
  /\ servers[i].child = "starting" => servers[i].startup = "waiting"
  /\ servers[i].watched \/ servers[i].child # "none" => i \in Rows

Inv ==
  /\ TypeOK
  /\ LeaseInv
  /\ \A c \in Callers : CallOK(c)
  /\ StartersDiffer
  /\ \A i \in Ids : ServerOK(i)
  /\ stopLeft \subseteq Rows
  /\ CrashesAreRecorded
  /\ RunningServersServeTheirPort

-----------------------------------------------------------------------------
(***************************************************************************)
(* What a step does to the rows, the servers and the calls.                *)
(***************************************************************************)

\* Rows stay, and what has ended stays as it is.
Ended ==
  \A i \in Rows :
    /\ i \in Rows'
    /\ rows[i].status \notin ActiveStatus => rows'[i] = rows[i]

\* What is running afterwards was running before, on the same port.
NoneStartsToRun ==
  \A i \in Rows' : rows'[i].status = "running" =>
    /\ i \in Rows
    /\ rows[i].status = "running"
    /\ rows'[i].port = rows[i].port

\* A server without a child stays without one and watched, and a startup is final.
ServersMove ==
  \A i \in Ids :
    /\ servers[i].child = "none" =>
         servers'[i].child = "none" /\ (servers[i].watched => servers'[i].watched)
    /\ servers[i].startup = "ok" => servers'[i].startup = "ok"

Others(c) == \A d \in Callers : d # c => call'[d] = call[d]

\* The caller does not begin to start an instance.
NoNewStart(c) ==
  call'[c].pc \in StartPoints =>
    call[c].pc \in StartPoints /\ call'[c].instance = call[c].instance

\* The rows are numbered from 1.
LEMMA RowNumbers ==
  ASSUME TypeOK
  PROVE  /\ Len(rows) \in Nat
         /\ Rows = 1..Len(rows)
         /\ Rows \subseteq Ids
         /\ NoInstance \notin Rows /\ NoInstance \notin Ids
         /\ \A i \in Rows : rows[i] \in Row
<1>1. rows \in Seq(Row) /\ Len(rows) <= MaxInstances
  BY DEF TypeOK
<1>2. Len(rows) \in Nat /\ DOMAIN rows = 1..Len(rows)
  BY <1>1, LenProperties
<1>3. \A i \in 1..Len(rows) : rows[i] \in Row
  BY <1>1, ElementOfSeq
<1> QED
  BY <1>1, <1>2, <1>3, BoundAssumption DEF Rows, Ids, NoInstance

\* The points steps name.
LEMMA PointNames ==
  /\ \A p \in StartPoints \cup ReadyPoints \cup FreePoints \cup AwaitPoints : p \in Points
  /\ "failed" \in Points /\ "stopped" \in Points /\ "lookup" \in Points
BY DEF StartPoints, ReadyPoints, FreePoints, AwaitPoints, Points

\* A caller that does nothing is one, and so is one that works for an instance.
LEMMA CallValues ==
  /\ Idle \in Call /\ [Idle EXCEPT !.pc = "next"] \in Call
  /\ Idle.pc = "idle" /\ [Idle EXCEPT !.pc = "next"].pc = "next"
  /\ \A i \in Ids, p \in Points, t \in {"failed", "stopped"} :
       [pc |-> p, instance |-> i, then |-> t] \in Call
BY DEF Idle, Call, Points

\* The effect of Goto.
LEMMA GotoFields ==
  ASSUME TypeOK, NEW c \in Callers, NEW p \in Points, Goto(c, p)
  PROVE  /\ call' \in [Callers -> Call] /\ Others(c)
         /\ call'[c].pc = p
         /\ call'[c].instance = call[c].instance
<1>1. call \in [Callers -> Call] /\ call[c] \in Call
  BY DEF TypeOK
<1>2. call' = [call EXCEPT ![c] = [call[c] EXCEPT !.pc = p]]
  BY <1>1 DEF Goto
<1>3. [call[c] EXCEPT !.pc = p] \in Call
  BY <1>1 DEF Call
<1>4. call'[c] = [call[c] EXCEPT !.pc = p] /\ Others(c) /\ call' \in [Callers -> Call]
  BY <1>1, <1>2, <1>3 DEF Others
<1> QED
  BY <1>1, <1>4 DEF Call

\* The effect of a call that becomes another one.
LEMMA CallWritten ==
  ASSUME TypeOK, NEW c \in Callers, NEW k \in Call, call' = [call EXCEPT ![c] = k]
  PROVE  call' \in [Callers -> Call] /\ Others(c) /\ call'[c] = k
BY DEF TypeOK, Others

\* The effect of Return.
LEMMA ReturnFields ==
  ASSUME TypeOK, NEW c \in Callers, Return(c)
  PROVE  /\ call' \in [Callers -> Call] /\ Others(c)
         /\ call'[c].pc \in FreePoints
<1> DEFINE k == IF c = "main" THEN [Idle EXCEPT !.pc = "next"] ELSE Idle
<1>1. k \in Call /\ k.pc \in FreePoints
  BY CallValues DEF FreePoints
<1>2. call' = [call EXCEPT ![c] = k]
  BY DEF Return
<1> HIDE DEF k
<1> QED
  BY <1>1, <1>2, CallWritten

\* The effect of a server that becomes another one.
LEMMA ServerWritten ==
  ASSUME TypeOK, NEW i \in Ids, NEW r \in Server, servers' = [servers EXCEPT ![i] = r]
  PROVE  /\ servers' \in [Ids -> Server]
         /\ servers'[i] = r
         /\ \A j \in Ids : j # i => servers'[j] = servers[j]
BY DEF TypeOK

\* A row that is written keeps its place, and the other rows stay.
LEMMA RowWritten ==
  ASSUME TypeOK, NEW i \in Rows, NEW r \in Row, rows' = [rows EXCEPT ![i] = r]
  PROVE  /\ rows' \in Seq(Row) /\ Len(rows') = Len(rows)
         /\ Rows' = Rows
         /\ rows'[i] = r
         /\ \A j \in Rows : j # i => rows'[j] = rows[j]
<1>1. rows \in Seq(Row) /\ Rows = 1..Len(rows)
  BY RowNumbers DEF TypeOK
<1>2. /\ rows' \in Seq(Row) /\ Len(rows') = Len(rows)
      /\ \A j \in 1..Len(rows) : rows'[j] = IF j = i THEN r ELSE rows[j]
  BY <1>1, ExceptSeq
<1>3. DOMAIN rows' = 1..Len(rows')
  BY <1>2, LenProperties
<1> QED
  BY <1>1, <1>2, <1>3 DEF Rows

\* The effect of a status that is written.
LEMMA StatusWritten ==
  ASSUME TypeOK, NEW i \in Rows, NEW to \in Status, rows' = [rows EXCEPT ![i].status = to]
  PROVE  /\ rows' \in Seq(Row) /\ Len(rows') = Len(rows)
         /\ Rows' = Rows
         /\ rows'[i].status = to
         /\ rows'[i].scope = rows[i].scope
         /\ rows'[i].port = rows[i].port
         /\ \A j \in Rows : j # i => rows'[j] = rows[j]
<1> DEFINE r == [rows[i] EXCEPT !.status = to]
<1>1. rows[i] \in Row /\ i \in DOMAIN rows
  BY RowNumbers DEF Rows
<1>2. /\ r \in Row
      /\ r.status = to /\ r.scope = rows[i].scope /\ r.port = rows[i].port
  BY <1>1 DEF Row
<1>3. rows' = [rows EXCEPT ![i] = r]
  BY <1>1
<1> HIDE DEF r
<1> QED
  BY <1>2, <1>3, RowWritten

\* The effect of a port that is written.
LEMMA PortWritten ==
  ASSUME TypeOK, NEW i \in Rows, NEW p \in Ports, rows' = [rows EXCEPT ![i].port = p]
  PROVE  /\ rows' \in Seq(Row) /\ Len(rows') = Len(rows)
         /\ Rows' = Rows
         /\ rows'[i].status = rows[i].status
         /\ rows'[i].scope = rows[i].scope
         /\ rows'[i].port = p
         /\ \A j \in Rows : j # i => rows'[j] = rows[j]
<1> DEFINE r == [rows[i] EXCEPT !.port = p]
<1>1. rows[i] \in Row /\ i \in DOMAIN rows
  BY RowNumbers DEF Rows
<1>2. /\ r \in Row
      /\ r.status = rows[i].status /\ r.scope = rows[i].scope /\ r.port = p
  BY <1>1 DEF Row
<1>3. rows' = [rows EXCEPT ![i] = r]
  BY <1>1
<1> HIDE DEF r
<1> QED
  BY <1>2, <1>3, RowWritten

\* The effect of a new row.
LEMMA RowAdded ==
  ASSUME TypeOK, Len(rows) + 1 \in Ids, NEW r \in Row, rows' = Append(rows, r)
  PROVE  /\ rows' \in Seq(Row) /\ Len(rows') <= MaxInstances
         /\ Rows' = Rows \cup {Len(rows) + 1}
         /\ Len(rows) + 1 \notin Rows
         /\ rows'[Len(rows) + 1] = r
         /\ \A j \in Rows : rows'[j] = rows[j]
<1>1. rows \in Seq(Row) /\ Rows = 1..Len(rows) /\ Len(rows) \in Nat
  BY RowNumbers DEF TypeOK
<1>2. /\ rows' \in Seq(Row) /\ Len(rows') = Len(rows) + 1
      /\ \A j \in 1..Len(rows) : rows'[j] = rows[j]
      /\ rows'[Len(rows) + 1] = r
  BY <1>1, AppendProperties
<1>3. DOMAIN rows' = 1..Len(rows')
  BY <1>2, LenProperties
<1> QED
  BY <1>1, <1>2, <1>3, BoundAssumption DEF Rows, Ids

-----------------------------------------------------------------------------
(***************************************************************************)
(* Leases.                                                                 *)
(***************************************************************************)

\* The leases an instance gives back are leases.
LEMMA ReleasedType ==
  ASSUME TypeOK, NEW i
  PROVE  Released(i) \in [Scopes -> Lease]
<1>1. leases \in [Scopes -> Lease] /\ NoLease \in Lease
  BY DEF TypeOK, NoLease, Lease
<1> QED
  BY <1>1 DEF Released

\* A transition of an active instance: what becomes inactive may give its lease
\* back, everybody else keeps theirs.
LEMMA MoveStep ==
  ASSUME Inv, NEW i \in Rows, NEW to \in Status,
         rows[i].status \in ActiveStatus, Move(i, to)
  PROVE  /\ rows' \in Seq(Row) /\ Len(rows') = Len(rows) /\ Rows' = Rows
         /\ leases' \in [Scopes -> Lease]
         /\ LeaseInv' /\ Ended
         /\ to # "running" => NoneStartsToRun
         /\ rows'[i].status = to /\ rows'[i].port = rows[i].port
         /\ \A j \in Rows : j # i => rows'[j] = rows[j]
<1>1. /\ TypeOK /\ LeaseInv /\ leases \in [Scopes -> Lease]
      /\ rows' = [rows EXCEPT ![i].status = to]
      /\ leases' = IF to \in {"stopped", "failed"} THEN Released(i) ELSE leases
  BY DEF Inv, TypeOK, Move
<1>2. /\ rows' \in Seq(Row) /\ Len(rows') = Len(rows) /\ Rows' = Rows
      /\ rows'[i].status = to
      /\ rows'[i].scope = rows[i].scope
      /\ rows'[i].port = rows[i].port
      /\ \A j \in Rows : j # i => rows'[j] = rows[j]
  BY <1>1, StatusWritten
<1>3. leases' \in [Scopes -> Lease]
  BY <1>1, ReleasedType
<1>4. Ended /\ (to # "running" => NoneStartsToRun)
  BY <1>2 DEF Ended, NoneStartsToRun
<1>5. \A s \in Scopes :
        \/ leases'[s] = leases[s]
        \/ leases'[s] = NoLease /\ leases[s].instance = i /\ to \in {"stopped", "failed"}
  BY <1>1 DEF Released
<1>6. \A j \in Rows : rows[j].scope \in Scopes
  BY <1>1, RowNumbers DEF Row
<1>7. ActiveInstancesHoldTheirLease'
  <2> SUFFICES ASSUME NEW j \in Rows, rows'[j].status \in ActiveStatus
               PROVE  leases'[rows'[j].scope] = [port |-> rows'[j].port, instance |-> j]
    BY <1>2 DEF ActiveInstancesHoldTheirLease
  <2>1. /\ rows[j].status \in ActiveStatus
        /\ rows'[j].scope = rows[j].scope /\ rows'[j].port = rows[j].port
    BY <1>2
  <2>2. leases[rows[j].scope] = [port |-> rows[j].port, instance |-> j]
    BY <1>1, <2>1 DEF LeaseInv, ActiveInstancesHoldTheirLease
  <2>3. leases'[rows[j].scope] = leases[rows[j].scope]
    BY <1>2, <1>5, <1>6, <2>2 DEF ActiveStatus
  <2> QED
    BY <2>1, <2>2, <2>3
<1>8. PortsAreLeasedOnce'
  BY <1>1, <1>5 DEF LeaseInv, PortsAreLeasedOnce, LeasesAreOfRows, NoLease
<1>9. LeasesAreOfRows'
  BY <1>1, <1>2, <1>5 DEF LeaseInv, LeasesAreOfRows, NoLease
<1> QED
  BY <1>2, <1>3, <1>4, <1>7, <1>8, <1>9 DEF LeaseInv

\* A transition whose error is ignored, to anything but running.
LEMMA TryMoveStep ==
  ASSUME Inv, NEW i \in Rows, NEW to \in {"stopping", "stopped", "failed", "orphaned"},
         TryMove(i, to)
  PROVE  /\ rows' \in Seq(Row) /\ Len(rows') = Len(rows) /\ Rows' = Rows
         /\ leases' \in [Scopes -> Lease]
         /\ LeaseInv' /\ Ended /\ NoneStartsToRun
         /\ to \in {"failed", "orphaned"} => rows'[i].status \notin ActiveStatus
<1>1. CASE Permits(rows[i].status, to)
  <2>1. rows[i].status \in ActiveStatus /\ to \in Status /\ to # "running"
    BY <1>1 DEF Permits, ActiveStatus, Status
  <2>2. Move(i, to)
    BY <1>1 DEF TryMove
  <2>3. to \in {"failed", "orphaned"} => to \notin ActiveStatus
    BY DEF ActiveStatus
  <2> QED
    BY <2>1, <2>2, <2>3, MoveStep
<1>2. CASE ~Permits(rows[i].status, to)
  <2>1. UNCHANGED <<rows, leases>>
    BY <1>2 DEF TryMove
  <2>2. to \in {"failed", "orphaned"} => rows[i].status \notin ActiveStatus
    BY <1>2 DEF Permits
  <2> QED
    BY <2>1, <2>2 DEF Inv, TypeOK, LeaseInv, ActiveInstancesHoldTheirLease, PortsAreLeasedOnce,
       LeasesAreOfRows, Ended, NoneStartsToRun, Rows
<1> QED
  BY <1>1, <1>2

\* Rows and leases that stay.
LEMMA StillRows ==
  ASSUME Inv, UNCHANGED <<rows, leases>>
  PROVE  /\ rows' \in Seq(Row) /\ Len(rows') = Len(rows) /\ Rows' = Rows
         /\ leases' \in [Scopes -> Lease]
         /\ LeaseInv' /\ Ended /\ NoneStartsToRun
BY DEF Inv, TypeOK, LeaseInv, ActiveInstancesHoldTheirLease, PortsAreLeasedOnce,
   LeasesAreOfRows, Ended, NoneStartsToRun, Rows

-----------------------------------------------------------------------------
(***************************************************************************)
(* What memory promises, while the rows move.                              *)
(***************************************************************************)

\* A call that does nothing stays well while the servers and the rows move.
LEMMA CallKept ==
  ASSUME Inv, Ended, ServersMove, NEW d \in Callers, call'[d] = call[d]
  PROVE  CallOK(d)'
<1>1. CallOK(d) /\ Rows \subseteq Ids
  BY RowNumbers DEF Inv
<1>2. call[d].pc \in StartPoints \cup ReadyPoints => call[d].pc \notin FreePoints
  BY DEF StartPoints, ReadyPoints, FreePoints
<1>3. "control" \in StartPoints
  BY DEF StartPoints
<1> QED
  BY <1>1, <1>2, <1>3 DEF CallOK, Ended, ServersMove

\* Nobody begins to start an instance.
LEMMA StartersKept ==
  ASSUME Inv, NEW c \in Callers, Others(c), NoNewStart(c)
  PROVE  StartersDiffer'
BY DEF Inv, StartersDiffer, Others, NoNewStart

\* Crashes stay recorded while rows move and no event comes to a server that
\* nobody watches.
LEMMA CrashesKept ==
  ASSUME Inv, Ended, Rows' \subseteq Ids,
         \A i \in Ids : servers'[i].event = "Crashed" /\ ~servers'[i].watched =>
           servers[i].event = "Crashed" /\ ~servers[i].watched
  PROVE  CrashesAreRecorded'
<1> SUFFICES ASSUME NEW i \in Rows', servers'[i].event = "Crashed", ~servers'[i].watched
             PROVE  rows'[i].status \notin ActiveStatus
  BY DEF CrashesAreRecorded
<1>1. servers[i].event = "Crashed" /\ ~servers[i].watched /\ i \in Ids
  OBVIOUS
<1>2. i \in Rows
  BY <1>1 DEF Inv, ServerOK
<1> QED
  BY <1>1, <1>2 DEF Inv, CrashesAreRecorded, Ended

\* What runs stays ready on its port while nothing starts to run.
LEMMA RunningKept ==
  ASSUME Inv, NoneStartsToRun, core' # "down" => core # "down",
         \A i \in Rows : servers[i].startup = "ok" =>
           servers'[i].startup = "ok" /\ servers'[i].port = servers[i].port
  PROVE  RunningServersServeTheirPort'
BY DEF Inv, RunningServersServeTheirPort, NoneStartsToRun

\* A step of one caller that leaves the servers alone.
LEMMA CallStep ==
  ASSUME Inv, NEW c \in Callers,
         rows' \in Seq(Row), Len(rows') <= MaxInstances, leases' \in [Scopes -> Lease],
         LeaseInv', Ended, NoneStartsToRun,
         call' \in [Callers -> Call], Others(c), CallOK(c)', StartersDiffer',
         UNCHANGED <<servers, core>>,
         autoLeft' \subseteq Scopes, stopLeft' \subseteq Rows
  PROVE  Inv'
<1>1. TypeOK /\ Rows \subseteq Ids /\ Rows \subseteq Rows'
  BY RowNumbers DEF Inv, Ended
<1>2. TypeOK'
  BY <1>1 DEF TypeOK
<1>3. Rows' \subseteq Ids
  <2>1. DOMAIN rows' = 1..Len(rows') /\ Len(rows') \in Nat
    BY LenProperties
  <2> QED
    BY <2>1, BoundAssumption DEF Rows, Ids
<1>4. ASSUME NEW d \in Callers PROVE CallOK(d)'
  <2>1. ServersMove
    BY DEF ServersMove
  <2>2. CASE d = c
    BY <2>2
  <2>3. CASE d # c
    BY <2>1, <2>3, CallKept DEF Others
  <2> QED
    BY <2>2, <2>3
<1>5. \A i \in Ids : ServerOK(i)'
  BY <1>1 DEF Inv, ServerOK
<1>6. CrashesAreRecorded'
  BY <1>3, CrashesKept
<1>7. RunningServersServeTheirPort'
  BY RunningKept
<1> QED
  BY <1>1, <1>2, <1>4, <1>5, <1>6, <1>7 DEF Inv

\* A step that only moves one caller.
LEMMA QuietStep ==
  ASSUME Inv, NEW c \in Callers, UNCHANGED <<rows, leases, servers, core>>,
         call' \in [Callers -> Call], Others(c), CallOK(c)', NoNewStart(c),
         autoLeft' \subseteq Scopes, stopLeft' \subseteq Rows
  PROVE  Inv' /\ Ended
<1>1. Len(rows') <= MaxInstances
  BY DEF Inv, TypeOK
<1> QED
  BY <1>1, StillRows, StartersKept, CallStep

\* What is there of a server when its control mutex or its handle changes.
SameServers ==
  \A i \in Ids :
    /\ servers'[i].watched = servers[i].watched
    /\ servers'[i].child = servers[i].child
    /\ servers'[i].port = servers[i].port
    /\ servers'[i].startup = servers[i].startup
    /\ servers'[i].event = servers[i].event

\* A step that changes the servers, but no row.
LEMMA ServerStep ==
  ASSUME Inv, UNCHANGED <<rows, leases, autoLeft, stopLeft, core>>,
         servers' \in [Ids -> Server], call' \in [Callers -> Call],
         \A i \in Ids : ServerOK(i)',
         \A c \in Callers : CallOK(c)',
         StartersDiffer',
         \A i \in Ids : servers'[i].event = "Crashed" /\ ~servers'[i].watched =>
           servers[i].event = "Crashed" /\ ~servers[i].watched,
         \A i \in Rows : servers[i].startup = "ok" =>
           servers'[i].startup = "ok" /\ servers'[i].port = servers[i].port
  PROVE  Inv' /\ Ended
<1>1. LeaseInv' /\ Ended /\ NoneStartsToRun /\ Rows' = Rows
  BY StillRows
<1>2. TypeOK' /\ Rows \subseteq Ids /\ stopLeft' \subseteq Rows'
  BY <1>1, RowNumbers DEF Inv, TypeOK
<1>3. CrashesAreRecorded'
  BY <1>1, <1>2, CrashesKept
<1>4. RunningServersServeTheirPort'
  BY <1>1, RunningKept
<1> QED
  BY <1>1, <1>2, <1>3, <1>4 DEF Inv

\* A step of one caller that takes or gives back what controls a server.
LEMMA ControlStep ==
  ASSUME Inv, NEW c \in Callers, UNCHANGED <<rows, leases, autoLeft, stopLeft, core>>,
         servers' \in [Ids -> Server], SameServers,
         call' \in [Callers -> Call], Others(c), NoNewStart(c), CallOK(c)'
  PROVE  Inv' /\ Ended
<1>1. Ended /\ Rows' = Rows /\ Rows \subseteq Ids
  BY StillRows, RowNumbers DEF Inv
<1>2. ServersMove
  BY DEF SameServers, ServersMove
<1>3. \A i \in Ids : ServerOK(i)'
  BY <1>1 DEF Inv, SameServers, ServerOK
<1>4. ASSUME NEW d \in Callers PROVE CallOK(d)'
  BY <1>1, <1>2, CallKept DEF Others
<1>5. StartersDiffer'
  BY StartersKept
<1>6. \A i \in Ids : servers'[i].event = "Crashed" /\ ~servers'[i].watched =>
        servers[i].event = "Crashed" /\ ~servers[i].watched
  BY DEF SameServers
<1>7. \A i \in Rows : servers[i].startup = "ok" =>
        servers'[i].startup = "ok" /\ servers'[i].port = servers[i].port
  BY <1>1 DEF SameServers
<1> QED
  BY <1>3, <1>4, <1>5, <1>6, <1>7, ServerStep

\* A step of a child that lives.
LEMMA ChildStep ==
  ASSUME Inv, NEW i \in Ids, NEW r \in Server,
         UNCHANGED <<rows, leases, call, autoLeft, stopLeft, core>>,
         servers' = [servers EXCEPT ![i] = r],
         servers[i].child \in {"starting", "ready"},
         r.watched = servers[i].watched, r.port = servers[i].port,
         r.child \in {"ready", "gone"},
         r.child = "ready" => r.event = "none",
         servers[i].startup = "ok" => r.startup = "ok"
  PROVE  Inv' /\ Ended
<1>1. /\ servers' \in [Ids -> Server] /\ servers'[i] = r
      /\ \A j \in Ids : j # i => servers'[j] = servers[j]
  BY ServerWritten DEF Inv
<1>2. Ended /\ Rows' = Rows /\ Rows \subseteq Ids
  BY StillRows, RowNumbers DEF Inv
<1>3. ServerOK(i) /\ servers[i].watched /\ i \in Rows
  BY DEF Inv, ServerOK
<1>4. ServersMove
  BY <1>1 DEF ServersMove
<1>5. ASSUME NEW j \in Ids PROVE ServerOK(j)'
  <2>1. CASE j = i
    BY <1>1, <1>2, <1>3, <2>1 DEF ServerOK
  <2>2. CASE j # i
    BY <1>1, <1>2, <2>2 DEF Inv, ServerOK
  <2> QED
    BY <2>1, <2>2
<1>6. ASSUME NEW d \in Callers PROVE CallOK(d)'
  BY <1>2, <1>4, CallKept
<1>7. StartersDiffer' /\ call' \in [Callers -> Call]
  BY DEF Inv, TypeOK, StartersDiffer
<1>8. \A j \in Ids : servers'[j].event = "Crashed" /\ ~servers'[j].watched =>
        servers[j].event = "Crashed" /\ ~servers[j].watched
  BY <1>1, <1>3
<1>9. \A j \in Rows : servers[j].startup = "ok" =>
        servers'[j].startup = "ok" /\ servers'[j].port = servers[j].port
  BY <1>1, <1>2
<1> QED
  BY <1>1, <1>5, <1>6, <1>7, <1>8, <1>9, ServerStep

-----------------------------------------------------------------------------
(***************************************************************************)
(* The invariant holds.                                                    *)
(***************************************************************************)

\* Nothing is started at the beginning.
LEMMA InvInit == Init => Inv
<1> SUFFICES ASSUME Init PROVE Inv
  OBVIOUS
<1>1. NoLease \in Lease /\ NoServer \in Server /\ Idle \in Call
  BY CallValues DEF NoLease, Lease, NoServer, Server
<1>2. rows \in Seq(Row) /\ Len(rows) <= MaxInstances /\ Rows = {}
  BY EmptySeq, BoundAssumption DEF Init, Rows
<1>3. TypeOK
  BY <1>1, <1>2, AutoStartAssumption DEF Init, TypeOK
<1>4. \A c \in Callers : CallOK(c)
  BY DEF Init, Idle, CallOK, FreePoints, StartPoints, ReadyPoints
<1>5. StartersDiffer
  BY DEF Init, Idle, StartersDiffer, StartPoints
<1>6. \A i \in Ids : ServerOK(i)
  BY DEF Init, NoServer, ServerOK
<1>7. LeaseInv
  BY <1>2 DEF Init, NoLease, LeaseInv, ActiveInstancesHoldTheirLease, PortsAreLeasedOnce,
     LeasesAreOfRows
<1> QED
  BY <1>2, <1>3, <1>4, <1>5, <1>6, <1>7 DEF Inv, Init, CrashesAreRecorded,
     RunningServersServeTheirPort

\* Callers that only go on: the runtime refuses, finds no entry, or has waited.
LEMMA GoOnStep ==
  ASSUME Inv, NEW c \in Callers, NEW p \in {"failed", "lock", "lookup", "stopped", "terminal"},
         call[c].pc \notin FreePoints, Goto(c, p),
         UNCHANGED <<rows, leases, servers, autoLeft, stopLeft, core>>
  PROVE  Inv' /\ Ended
<1>1. TypeOK /\ CallOK(c) /\ autoLeft' \subseteq Scopes /\ stopLeft' \subseteq Rows
  BY DEF Inv, TypeOK
<1>2. /\ p \in Points
      /\ p \notin FreePoints /\ p \notin StartPoints /\ p # "control" /\ p \notin ReadyPoints
  BY PointNames DEF FreePoints, StartPoints, ReadyPoints, AwaitPoints
<1>3. /\ call' \in [Callers -> Call] /\ Others(c)
      /\ call'[c].pc = p /\ call'[c].instance = call[c].instance
  BY <1>1, <1>2, GotoFields
<1>4. CallOK(c)' /\ NoNewStart(c)
  BY <1>1, <1>2, <1>3 DEF CallOK, NoNewStart, Rows
<1> QED
  BY <1>1, <1>3, <1>4, QuietStep

\* The ends that callers write, whether or not the row still takes them.
LEMMA ReturnStep ==
  ASSUME Inv, NEW c \in Callers, NEW to \in {"stopping", "stopped", "failed", "orphaned"},
         call[c].pc \notin FreePoints, TryMove(Mine(c), to), Return(c),
         UNCHANGED <<servers, autoLeft, stopLeft, core>>
  PROVE  Inv' /\ Ended
<1>1. TypeOK /\ Mine(c) \in Rows /\ Len(rows) <= MaxInstances
      /\ autoLeft \subseteq Scopes /\ stopLeft \subseteq Rows
  BY DEF Inv, TypeOK, CallOK, Mine
<1>2. /\ rows' \in Seq(Row) /\ Len(rows') = Len(rows) /\ Rows' = Rows
      /\ leases' \in [Scopes -> Lease]
      /\ LeaseInv' /\ Ended /\ NoneStartsToRun
  BY <1>1, TryMoveStep
<1>3. call' \in [Callers -> Call] /\ Others(c) /\ call'[c].pc \in FreePoints
  BY <1>1, ReturnFields
<1>4. CallOK(c)' /\ NoNewStart(c)
  BY <1>3 DEF CallOK, NoNewStart, FreePoints, StartPoints, ReadyPoints
<1> QED
  BY <1>1, <1>2, <1>3, <1>4, StartersKept, CallStep

\* A lease that a scope without an active instance takes, gives back or changes.
LEMMA LeaseStep ==
  ASSUME Inv, NEW s \in Scopes, NEW l \in Lease, ~Busy(s),
         l.instance = NoInstance, l.port = NoPort => l = NoLease,
         l # NoLease => ~Leased(l.port),
         leases' = [leases EXCEPT ![s] = l],
         UNCHANGED <<rows, servers, call, autoLeft, stopLeft, core>>
  PROVE  Inv' /\ Ended
<1>1. /\ TypeOK /\ LeaseInv /\ leases \in [Scopes -> Lease] /\ Rows' = Rows
      /\ \A i \in Rows : rows[i].scope \in Scopes
  BY RowNumbers DEF Inv, TypeOK, Rows, Row
<1>2. /\ leases' \in [Scopes -> Lease] /\ leases'[s] = l
      /\ \A t \in Scopes : t # s => leases'[t] = leases[t]
  BY <1>1
<1>3. ActiveInstancesHoldTheirLease'
  <2>1. \A i \in Rows : rows[i].status \in ActiveStatus => rows[i].scope # s
    BY DEF Busy
  <2> QED
    BY <1>1, <1>2, <2>1 DEF LeaseInv, ActiveInstancesHoldTheirLease
<1>4. PortsAreLeasedOnce'
  BY <1>1, <1>2 DEF LeaseInv, PortsAreLeasedOnce, LeasesAreOfRows, Leased, NoLease
<1>5. LeasesAreOfRows'
  BY <1>1, <1>2 DEF LeaseInv, LeasesAreOfRows
<1>6. Ended /\ TypeOK'
  BY <1>1, <1>2 DEF Ended, TypeOK
<1>7. \A d \in Callers : CallOK(d)'
  BY <1>1 DEF Inv, CallOK
<1>8. \A i \in Ids : ServerOK(i)'
  BY <1>1 DEF Inv, ServerOK
<1>9. StartersDiffer' /\ CrashesAreRecorded' /\ RunningServersServeTheirPort'
  BY <1>1 DEF Inv, StartersDiffer, CrashesAreRecorded, RunningServersServeTheirPort
<1> QED
  BY <1>1, <1>3, <1>4, <1>5, <1>6, <1>7, <1>8, <1>9 DEF Inv, LeaseInv

\* devServer.port.assign and devServer.port.release
LEMMA PortStep ==
  ASSUME Inv, NEW c \in Clients, NEW s \in Scopes,
         (\E p \in Ports : AssignPort(c, s, p)) \/ ReleasePort(c, s)
  PROVE  Inv' /\ Ended
<1>1. CASE ReleasePort(c, s)
  <2>1. NoLease \in Lease /\ NoLease.instance = NoInstance
    BY DEF NoLease, Lease
  <2> QED
    BY <1>1, <2>1, LeaseStep DEF ReleasePort
<1>2. ASSUME NEW p \in Ports, AssignPort(c, s, p) PROVE Inv' /\ Ended
  <2> DEFINE l == [port |-> p, instance |-> NoInstance]
  <2>1. l \in Lease /\ l.instance = NoInstance /\ l.port = p /\ p # NoPort
    BY PortAssumption DEF Lease
  <2>2. ~Busy(s) /\ ~Leased(p) /\ leases' = [leases EXCEPT ![s] = l]
        /\ UNCHANGED <<rows, servers, call, autoLeft, stopLeft, core>>
    BY <1>2 DEF AssignPort
  <2> HIDE DEF l
  <2> QED
    BY <2>1, <2>2, LeaseStep
<1> QED
  BY <1>1, <1>2

\* prepare_start
LEMMA PrepareStartStep ==
  ASSUME Inv, NEW c \in Callers, NEW s \in Scopes, NEW p \in Ports, PrepareStart(c, s, p)
  PROVE  Inv' /\ Ended
<1> DEFINE i == Len(rows) + 1
           r == [scope |-> s, port |-> p, status |-> "starting"]
           l == [port |-> p, instance |-> i]
           k == [Idle EXCEPT !.pc = "launch", !.instance = i]
<1>1. /\ i \in Ids /\ ~Busy(s) /\ PortFor(s, p)
      /\ rows' = Append(rows, r)
      /\ leases' = [leases EXCEPT ![s] = l]
      /\ call' = [call EXCEPT ![c] = k]
      /\ UNCHANGED <<servers, stopLeft, core>>
      /\ autoLeft' \in {autoLeft, autoLeft \ {s}}
  BY DEF PrepareStart, NotAutoLeft
<1>2. /\ TypeOK /\ LeaseInv /\ leases \in [Scopes -> Lease] /\ i # NoInstance
      /\ Rows \subseteq Ids /\ \A j \in Rows : rows[j].scope \in Scopes
  BY <1>1, RowNumbers DEF Inv, TypeOK, Row
<1>3. /\ r \in Row /\ r.status = "starting" /\ r.scope = s /\ r.port = p
      /\ l \in Lease /\ l.port = p /\ l.instance = i
      /\ k \in Call /\ k.pc = "launch" /\ k.instance = i
  BY <1>1 DEF Row, Status, ActiveStatus, Lease, Idle, Call, Points
<1> HIDE DEF r, l, k
<1>4. /\ rows' \in Seq(Row) /\ Len(rows') <= MaxInstances
      /\ Rows' = Rows \cup {i} /\ i \notin Rows
      /\ rows'[i] = r
      /\ \A j \in Rows : rows'[j] = rows[j]
  BY <1>1, <1>2, <1>3, RowAdded
<1>5. /\ leases' \in [Scopes -> Lease] /\ leases'[s] = l
      /\ \A t \in Scopes : t # s => leases'[t] = leases[t]
  BY <1>1, <1>2, <1>3
<1>6. call' \in [Callers -> Call] /\ Others(c) /\ call'[c] = k
  BY <1>1, <1>2, <1>3, CallWritten
<1> HIDE DEF i
<1>7. Ended /\ NoneStartsToRun
  BY <1>3, <1>4 DEF Ended, NoneStartsToRun
<1>8. ActiveInstancesHoldTheirLease'
  <2>1. \A j \in Rows : rows[j].status \in ActiveStatus => rows[j].scope # s
    BY <1>1 DEF Busy
  <2>2. l = [port |-> r.port, instance |-> i] /\ r.scope = s
    BY <1>3 DEF l, r
  <2> QED
    BY <1>2, <1>4, <1>5, <2>1, <2>2 DEF LeaseInv, ActiveInstancesHoldTheirLease
<1>9. PortsAreLeasedOnce'
  <2>1. \A t \in Scopes : leases[t].port = p => t = s
    BY <1>1, <1>2 DEF PortFor, Leased, LeaseInv, PortsAreLeasedOnce
  <2> QED
    BY <1>2, <1>3, <1>5, <2>1 DEF LeaseInv, PortsAreLeasedOnce
<1>10. LeasesAreOfRows'
  BY <1>2, <1>3, <1>4, <1>5, PortAssumption DEF LeaseInv, LeasesAreOfRows
<1>11. ServerOK(i)
  BY <1>1 DEF Inv, i
<1>12. servers[i].child = "none"
  BY <1>4, <1>11 DEF ServerOK
<1>13. CallOK(c)'
  BY <1>1, <1>3, <1>4, <1>6, <1>12 DEF CallOK, StartPoints, ReadyPoints
<1>14. StartersDiffer'
  <2>1. \A d \in Callers : call[d].pc \in StartPoints => call[d].instance \in Rows
    BY DEF Inv, CallOK, StartPoints, FreePoints
  <2>2. \A d \in Callers : d # c => call'[d] = call[d]
    BY <1>6 DEF Others
  <2> QED
    BY <1>3, <1>4, <1>6, <2>1, <2>2 DEF Inv, StartersDiffer
<1>15. autoLeft' \subseteq Scopes /\ stopLeft' \subseteq Rows /\ LeaseInv'
  BY <1>1, <1>2, <1>8, <1>9, <1>10 DEF Inv, TypeOK, LeaseInv
<1> QED
  BY <1>1, <1>4, <1>5, <1>6, <1>7, <1>13, <1>14, <1>15, CallStep

\* begin_stop of the RPC
LEMMA BeginStopStep ==
  ASSUME Inv, NEW c \in Clients, NEW i \in Rows, BeginStop(c, i)
  PROVE  Inv' /\ Ended
<1> DEFINE k == [pc |-> "lookup", instance |-> i, then |-> "stopped"]
<1>1. /\ Permits(rows[i].status, "stopping") /\ Move(i, "stopping")
      /\ call' = [call EXCEPT ![c] = k]
      /\ UNCHANGED <<servers, autoLeft, stopLeft, core>>
      /\ TypeOK /\ c \in Callers
      /\ Len(rows) <= MaxInstances /\ autoLeft \subseteq Scopes /\ stopLeft \subseteq Rows
  BY DEF BeginStop, Inv, TypeOK, Callers
<1>2. k \in Call /\ k.pc = "lookup" /\ k.instance = i
  BY <1>1, RowNumbers, CallValues, PointNames
<1> HIDE DEF k
<1>3. call' \in [Callers -> Call] /\ Others(c) /\ call'[c] = k
  BY <1>1, <1>2, CallWritten
<1>4. TryMove(i, "stopping")
  BY <1>1 DEF TryMove
<1>5. /\ rows' \in Seq(Row) /\ Len(rows') = Len(rows) /\ Rows' = Rows
      /\ leases' \in [Scopes -> Lease]
      /\ LeaseInv' /\ Ended /\ NoneStartsToRun
  BY <1>4, TryMoveStep
<1>6. CallOK(c)' /\ NoNewStart(c)
  BY <1>2, <1>3, <1>5 DEF CallOK, NoNewStart, StartPoints, ReadyPoints
<1> QED
  BY <1>1, <1>3, <1>5, <1>6, StartersKept, CallStep

\* The entry of the map and the monitor come before the child.
LEMMA LaunchStep ==
  ASSUME Inv, NEW c \in Callers, Launch(c)
  PROVE  Inv' /\ Ended
<1> DEFINE i == call[c].instance
           r == [servers[i] EXCEPT !.watched = TRUE]
<1>1. /\ TypeOK /\ CallOK(c) /\ call[c].pc = "launch" /\ Goto(c, "control")
      /\ servers' = [servers EXCEPT ![i].watched = TRUE]
      /\ UNCHANGED <<rows, leases, autoLeft, stopLeft, core>>
  BY DEF Inv, Launch, At, Mine
<1>2. i \in Rows /\ i \in Ids /\ servers[i].child = "none"
  BY <1>1, RowNumbers DEF CallOK, FreePoints, StartPoints
<1>3. servers[i] \in Server /\ servers' = [servers EXCEPT ![i] = r]
  BY <1>1, <1>2 DEF TypeOK
<1>4. /\ r \in Server /\ r.watched /\ r.child = "none" /\ r.event = servers[i].event
      /\ r.startup = servers[i].startup /\ r.port = servers[i].port
  BY <1>2, <1>3 DEF Server
<1> HIDE DEF r
<1>5. /\ servers' \in [Ids -> Server] /\ servers'[i] = r
      /\ \A j \in Ids : j # i => servers'[j] = servers[j]
  BY <1>1, <1>2, <1>3, <1>4, ServerWritten
<1>6. /\ call' \in [Callers -> Call] /\ Others(c)
      /\ call'[c].pc = "control" /\ call'[c].instance = i
  BY <1>1, GotoFields, PointNames DEF StartPoints
<1> HIDE DEF i
<1>7. Ended /\ Rows' = Rows /\ Rows \subseteq Ids
  BY <1>1, StillRows, RowNumbers
<1>8. ServersMove
  BY <1>2, <1>4, <1>5 DEF ServersMove
<1>9. ASSUME NEW j \in Ids PROVE ServerOK(j)'
  <2>1. ServerOK(j)
    BY DEF Inv
  <2>2. CASE j = i
    BY <1>2, <1>4, <1>5, <1>7, <2>1, <2>2 DEF ServerOK
  <2>3. CASE j # i
    BY <1>5, <1>7, <2>1, <2>3 DEF ServerOK
  <2> QED
    BY <2>2, <2>3
<1>10. CallOK(c)'
  BY <1>2, <1>4, <1>5, <1>6, <1>7 DEF CallOK, ReadyPoints
<1>11. ASSUME NEW d \in Callers PROVE CallOK(d)'
  BY <1>6, <1>7, <1>8, <1>10, CallKept DEF Others
<1>12. StartersDiffer'
  <2>1. NoNewStart(c)
    BY <1>1, <1>6 DEF NoNewStart, StartPoints, i
  <2> QED
    BY <1>6, <2>1, StartersKept
<1>13. \A j \in Ids : servers'[j].event = "Crashed" /\ ~servers'[j].watched =>
         servers[j].event = "Crashed" /\ ~servers[j].watched
  BY <1>4, <1>5
<1>14. \A j \in Rows : servers[j].startup = "ok" =>
         servers'[j].startup = "ok" /\ servers'[j].port = servers[j].port
  BY <1>4, <1>5, <1>7
<1> QED
  BY <1>1, <1>5, <1>6, <1>9, <1>11, <1>12, <1>13, <1>14, ServerStep

\* The child is spawned, by the one caller that starts the instance.
LEMMA StartServerStep ==
  ASSUME Inv, NEW c \in Callers, NEW p \in Ports, StartServer(c, p)
  PROVE  Inv' /\ Ended
<1> DEFINE i == call[c].instance
           r == [servers[i] EXCEPT !.control = c, !.handle = TRUE, !.child = "starting", !.port = p]
<1>1. /\ TypeOK /\ CallOK(c) /\ call[c].pc = "control" /\ Goto(c, "startup")
      /\ servers' = [servers EXCEPT ![i].control = c, ![i].handle = TRUE,
                                    ![i].child = "starting", ![i].port = p]
      /\ UNCHANGED <<rows, leases, autoLeft, stopLeft, core>>
  BY DEF Inv, StartServer, At, Mine
<1>2. i \in Rows /\ i \in Ids /\ servers[i].child = "none" /\ servers[i].watched
  BY <1>1, RowNumbers DEF CallOK, FreePoints, StartPoints
<1>3. servers[i] \in Server
  BY <1>1, <1>2 DEF TypeOK
<1>4. servers' = [servers EXCEPT ![i] = r]
  BY <1>1, <1>2, <1>3 DEF TypeOK
<1>5. /\ r \in Server /\ r.watched /\ r.child = "starting" /\ r.event = servers[i].event
      /\ r.startup = servers[i].startup /\ r.port = p
  BY <1>2, <1>3 DEF Server
<1> HIDE DEF r
<1>6. /\ servers' \in [Ids -> Server] /\ servers'[i] = r
      /\ \A j \in Ids : j # i => servers'[j] = servers[j]
  BY <1>1, <1>2, <1>4, <1>5, ServerWritten
<1>7. /\ call' \in [Callers -> Call] /\ Others(c)
      /\ call'[c].pc = "startup" /\ call'[c].instance = i
  BY <1>1, GotoFields, PointNames DEF AwaitPoints
<1> HIDE DEF i
<1>8. Ended /\ Rows' = Rows /\ Rows \subseteq Ids
  BY <1>1, StillRows, RowNumbers
<1>9. ServerOK(i) /\ servers[i].event = "none" /\ servers[i].startup = "waiting"
  BY <1>2 DEF Inv, ServerOK
<1>10. ASSUME NEW j \in Ids PROVE ServerOK(j)'
  <2>1. CASE j = i
    BY <1>2, <1>5, <1>6, <1>8, <1>9, <2>1 DEF ServerOK
  <2>2. CASE j # i
    BY <1>6, <1>8, <2>2 DEF Inv, ServerOK
  <2> QED
    BY <2>1, <2>2
<1>11. ASSUME NEW d \in Callers PROVE CallOK(d)'
  <2>1. CASE d = c
    BY <1>2, <1>7, <1>8, <2>1 DEF CallOK, StartPoints, ReadyPoints
  <2>2. CASE d # c
    <3>1. CallOK(d) /\ call'[d] = call[d]
      BY <1>7, <2>2 DEF Inv, Others
    <3>2. call[d].pc \in StartPoints => call[d].instance # i
      BY <1>1, <2>2 DEF Inv, StartersDiffer, StartPoints, i
    <3>3. call[d].pc \in ReadyPoints => call[d].instance # i
      BY <1>9, <3>1 DEF CallOK
    <3>4. call[d].pc \in StartPoints \cup ReadyPoints => call[d].instance \in Ids
      BY <1>8, <3>1 DEF CallOK, StartPoints, ReadyPoints, FreePoints
    <3>5. "control" \in StartPoints
      BY DEF StartPoints
    <3> QED
      BY <1>6, <1>8, <3>1, <3>2, <3>3, <3>4, <3>5 DEF CallOK
  <2> QED
    BY <2>1, <2>2
<1>12. StartersDiffer'
  <2>1. NoNewStart(c)
    BY <1>7 DEF NoNewStart, StartPoints
  <2> QED
    BY <1>7, <2>1, StartersKept
<1>13. \A j \in Ids : servers'[j].event = "Crashed" /\ ~servers'[j].watched =>
         servers[j].event = "Crashed" /\ ~servers[j].watched
  BY <1>5, <1>6
<1>14. \A j \in Rows : servers[j].startup = "ok" =>
         servers'[j].startup = "ok" /\ servers'[j].port = servers[j].port
  BY <1>6, <1>8, <1>9
<1> QED
  BY <1>1, <1>6, <1>7, <1>10, <1>11, <1>12, <1>13, <1>14, ServerStep

\* A server whose mutex, handle or stop is written.
LEMMA ControlWritten ==
  ASSUME TypeOK, NEW i \in Ids, NEW r \in Server, servers' = [servers EXCEPT ![i] = r],
         r.watched = servers[i].watched, r.child = servers[i].child,
         r.port = servers[i].port, r.startup = servers[i].startup,
         r.event = servers[i].event
  PROVE  servers' \in [Ids -> Server] /\ SameServers
BY ServerWritten DEF SameServers

\* A mutex that is given back is all that changes of a server.
LEMMA GivenBack ==
  ASSUME TypeOK, NEW i \in Ids, servers' = [servers EXCEPT ![i].control = NoCaller]
  PROVE  servers' \in [Ids -> Server] /\ SameServers
<1> DEFINE r == [servers[i] EXCEPT !.control = NoCaller]
<1>1. servers[i] \in Server /\ servers' = [servers EXCEPT ![i] = r]
  BY DEF TypeOK
<1>2. /\ r \in Server
      /\ r.watched = servers[i].watched /\ r.child = servers[i].child
      /\ r.port = servers[i].port /\ r.startup = servers[i].startup
      /\ r.event = servers[i].event
  BY <1>1 DEF Server
<1> HIDE DEF r
<1> QED
  BY <1>1, <1>2, ControlWritten

\* The supervisor has answered a start.
LEMMA StartupStep ==
  ASSUME Inv, NEW c \in Callers, Startup(c)
  PROVE  Inv' /\ Ended
<1> DEFINE i == call[c].instance
           h == servers[i].handle /\ servers[i].startup = "ok"
           p == IF servers[i].startup = "ok" THEN "started" ELSE "lock"
<1>1. /\ TypeOK /\ CallOK(c) /\ call[c].pc = "startup" /\ Goto(c, p)
      /\ servers' = [servers EXCEPT ![i].control = NoCaller,
                       ![i].handle = @ /\ servers[i].startup = "ok"]
      /\ UNCHANGED <<rows, leases, autoLeft, stopLeft, core>>
  BY DEF Inv, Startup, At, Mine
<1>2. i \in Rows /\ i \in Ids
  BY <1>1, RowNumbers DEF CallOK, FreePoints
<1>3. servers[i] \in Server /\ h \in BOOLEAN
  BY <1>1, <1>2 DEF TypeOK
<1>4. servers' = [servers EXCEPT ![i] = [servers[i] EXCEPT !.control = NoCaller, !.handle = h]]
  BY <1>1, <1>2, <1>3 DEF TypeOK
<1>5. servers' \in [Ids -> Server] /\ SameServers
  <2> DEFINE r == [servers[i] EXCEPT !.control = NoCaller, !.handle = h]
  <2>1. /\ r \in Server
        /\ r.watched = servers[i].watched /\ r.child = servers[i].child
        /\ r.port = servers[i].port /\ r.startup = servers[i].startup
        /\ r.event = servers[i].event
    <3> HIDE DEF h
    <3> QED
      BY <1>3 DEF Server
  <2>2. servers' = [servers EXCEPT ![i] = r]
    BY <1>4
  <2> HIDE DEF r
  <2> QED
    BY <1>1, <1>2, <2>1, <2>2, ControlWritten
<1>6. p \in Points
  BY PointNames DEF ReadyPoints, AwaitPoints
<1>7. /\ call' \in [Callers -> Call] /\ Others(c)
      /\ call'[c].pc = p /\ call'[c].instance = i
  BY <1>1, <1>6, GotoFields
<1>8. CallOK(c)' /\ NoNewStart(c)
  <2>1. servers'[i].startup = servers[i].startup /\ Rows' = Rows
    BY <1>1, <1>2, <1>5, StillRows DEF SameServers
  <2> QED
    BY <1>2, <1>7, <2>1 DEF CallOK, NoNewStart, StartPoints, ReadyPoints
<1> QED
  BY <1>1, <1>5, <1>7, <1>8, ControlStep

\* DevServer::stop
LEMMA StopServerStep ==
  ASSUME Inv, NEW c \in Callers, StopServer(c)
  PROVE  Inv' /\ Ended
<1> DEFINE i == call[c].instance
<1>1. /\ TypeOK /\ CallOK(c) /\ call[c].pc = "lock" /\ call[c].pc \notin FreePoints
      /\ UNCHANGED <<rows, leases, autoLeft, stopLeft, core>>
  BY DEF Inv, StopServer, At, FreePoints
<1>2. i \in Rows /\ i \in Ids
  BY <1>1, RowNumbers DEF CallOK
<1>3. CASE servers[i].handle
  <2>1. /\ servers' = [servers EXCEPT ![i].control = c, ![i].handle = FALSE, ![i].stop = TRUE]
        /\ Goto(c, "join")
    BY <1>3 DEF StopServer, Mine
  <2>2. servers[i] \in Server
    BY <1>1, <1>2 DEF TypeOK
  <2>3. servers' \in [Ids -> Server] /\ SameServers
    <3> DEFINE r == [servers[i] EXCEPT !.control = c, !.handle = FALSE, !.stop = TRUE]
    <3>1. servers' = [servers EXCEPT ![i] = r]
      BY <1>1, <1>2, <2>1 DEF TypeOK
    <3>2. /\ r \in Server
          /\ r.watched = servers[i].watched /\ r.child = servers[i].child
          /\ r.port = servers[i].port /\ r.startup = servers[i].startup
          /\ r.event = servers[i].event
      BY <2>2 DEF Server
    <3> HIDE DEF r
    <3> QED
      BY <1>1, <1>2, <3>1, <3>2, ControlWritten
  <2>4. /\ call' \in [Callers -> Call] /\ Others(c)
        /\ call'[c].pc = "join" /\ call'[c].instance = i
    BY <1>1, <2>1, GotoFields, PointNames DEF AwaitPoints
  <2>5. CallOK(c)' /\ NoNewStart(c)
    BY <1>1, <1>2, <2>4, StillRows DEF CallOK, NoNewStart, StartPoints, ReadyPoints
  <2> QED
    BY <1>1, <2>3, <2>4, <2>5, ControlStep
<1>4. CASE ~servers[i].handle
  <2>1. Goto(c, "terminal") /\ UNCHANGED servers
    BY <1>4 DEF StopServer, Mine
  <2> QED
    BY <1>1, <2>1, GoOnStep
<1> QED
  BY <1>3, <1>4

\* The supervisor has been joined.
LEMMA JoinStep ==
  ASSUME Inv, NEW c \in Callers, Join(c)
  PROVE  Inv' /\ Ended
<1> DEFINE i == call[c].instance
<1>1. /\ TypeOK /\ CallOK(c) /\ call[c].pc = "join" /\ Goto(c, "terminal")
      /\ servers' = [servers EXCEPT ![i].control = NoCaller]
      /\ UNCHANGED <<rows, leases, autoLeft, stopLeft, core>>
  BY DEF Inv, Join, At, Mine
<1>2. i \in Rows /\ i \in Ids
  BY <1>1, RowNumbers DEF CallOK, FreePoints
<1>3. servers' \in [Ids -> Server] /\ SameServers
  BY <1>1, <1>2, GivenBack
<1>4. /\ call' \in [Callers -> Call] /\ Others(c)
      /\ call'[c].pc = "terminal" /\ call'[c].instance = i
  BY <1>1, GotoFields, PointNames DEF AwaitPoints
<1>5. CallOK(c)' /\ NoNewStart(c)
  BY <1>1, <1>2, <1>4, StillRows DEF CallOK, NoNewStart, StartPoints, ReadyPoints
<1> QED
  BY <1>1, <1>3, <1>4, <1>5, ControlStep

\* A handler that is dropped where it waits.
LEMMA AbortStep ==
  ASSUME Inv, NEW c \in Clients, Abort(c)
  PROVE  Inv' /\ Ended
<1> DEFINE i == call[c].instance
<1>1. /\ TypeOK /\ CallOK(c) /\ call[c].pc \in AwaitPoints /\ c \in Callers
      /\ call' = [call EXCEPT ![c] = Idle]
      /\ servers' = IF servers[i].control = c
                    THEN [servers EXCEPT ![i].control = NoCaller] ELSE servers
      /\ UNCHANGED <<rows, leases, autoLeft, stopLeft, core>>
  BY DEF Inv, Abort, Mine, Callers
<1>2. i \in Rows /\ i \in Ids
  BY <1>1, RowNumbers DEF CallOK, FreePoints, AwaitPoints
<1>3. servers' \in [Ids -> Server] /\ SameServers
  <2>1. CASE servers[i].control = c
    BY <1>1, <1>2, <2>1, GivenBack
  <2>2. CASE servers[i].control # c
    BY <1>1, <2>2 DEF TypeOK, SameServers
  <2> QED
    BY <2>1, <2>2
<1>4. call' \in [Callers -> Call] /\ Others(c) /\ call'[c].pc = "idle"
  BY <1>1, CallValues, CallWritten
<1>5. CallOK(c)' /\ NoNewStart(c)
  BY <1>4 DEF CallOK, NoNewStart, FreePoints, StartPoints, ReadyPoints
<1> QED
  BY <1>1, <1>3, <1>4, <1>5, ControlStep

\* A server on another port than its row says takes the lease with it.
LEMMA ReassignStep ==
  ASSUME Inv, NEW c \in Callers, Reassign(c)
  PROVE  Inv' /\ Ended
<1> DEFINE i == call[c].instance
           p == servers[i].port
<1>1. /\ TypeOK /\ LeaseInv /\ CallOK(c) /\ call[c].pc = "started"
      /\ UNCHANGED <<servers, autoLeft, stopLeft, core>>
      /\ call[c].pc \notin FreePoints
  BY DEF Inv, Reassign, At, FreePoints
<1>2. i \in Rows /\ i \in Ids /\ servers[i].startup = "ok" /\ i # NoInstance
  BY <1>1, RowNumbers DEF CallOK, ReadyPoints
<1>3. CASE Goto(c, "lock") /\ UNCHANGED <<rows, leases>>
  BY <1>1, <1>3, GoOnStep
<1>4. ASSUME Goto(c, "report")
      PROVE  /\ call' \in [Callers -> Call] /\ Others(c)
             /\ NoNewStart(c) /\ (Rows' = Rows => CallOK(c)')
  <2>1. /\ call' \in [Callers -> Call] /\ Others(c)
        /\ call'[c].pc = "report" /\ call'[c].instance = i
    BY <1>1, <1>4, GotoFields, PointNames DEF ReadyPoints
  <2> QED
    BY <1>1, <1>2, <2>1 DEF CallOK, NoNewStart, StartPoints, ReadyPoints
<1>5. autoLeft' \subseteq Scopes /\ stopLeft' \subseteq Rows /\ Len(rows) <= MaxInstances
  BY <1>1 DEF Inv, TypeOK
<1>6. CASE Goto(c, "report") /\ UNCHANGED <<rows, leases>>
  BY <1>1, <1>4, <1>5, <1>6, StillRows, QuietStep
<1>7. CASE /\ Goto(c, "report") /\ MayMoveTo(i, p)
           /\ rows' = [rows EXCEPT ![i].port = p]
           /\ leases' = [s \in Scopes |-> IF leases[s].instance = i
                                          THEN [port |-> p, instance |-> i] ELSE leases[s]]
  <2> DEFINE l == [port |-> p, instance |-> i]
  <2>1. p \in Ports /\ p # NoPort
    BY <1>2, PortAssumption DEF Inv, ServerOK
  <2>2. l \in Lease /\ l.port = p /\ l.instance = i
    BY <1>2, <2>1 DEF Lease
  <2>3. /\ rows[i].status = "starting"
        /\ \A s \in Scopes : leases[s].port = p => leases[s].instance = i
    BY <1>7 DEF MayMoveTo
  <2>4. \A s \in Scopes : leases[s].instance = i => s = rows[i].scope
    BY <1>1, <1>2 DEF LeaseInv, LeasesAreOfRows
  <2>5. \A s \in Scopes : leases'[s] = IF leases[s].instance = i THEN l ELSE leases[s]
    BY <1>7
  <2>6. leases' \in [Scopes -> Lease]
    BY <1>1, <1>7, <2>2 DEF TypeOK
  <2>7. /\ rows' \in Seq(Row) /\ Len(rows') = Len(rows)
        /\ Rows' = Rows
        /\ rows'[i].status = rows[i].status
        /\ rows'[i].scope = rows[i].scope
        /\ rows'[i].port = p
        /\ \A j \in Rows : j # i => rows'[j] = rows[j]
    <3>1. rows' = [rows EXCEPT ![i].port = p]
      BY <1>7
    <3> HIDE DEF i, p
    <3> QED
      BY <1>1, <1>2, <2>1, <3>1, PortWritten
  <2>8. \A j \in Rows : rows[j].scope \in Scopes
    BY <1>1, RowNumbers DEF Row
  <2>9. Ended /\ NoneStartsToRun
    BY <2>3, <2>7 DEF Ended, NoneStartsToRun, ActiveStatus
  <2>10. l = [port |-> rows'[i].port, instance |-> i]
    BY <2>7
  <2> HIDE DEF i, p, l
  <2>11. ActiveInstancesHoldTheirLease'
    <3> SUFFICES ASSUME NEW j \in Rows, rows'[j].status \in ActiveStatus
                 PROVE  leases'[rows'[j].scope] = [port |-> rows'[j].port, instance |-> j]
      BY <2>7 DEF ActiveInstancesHoldTheirLease
    <3>1. leases[rows[j].scope] = [port |-> rows[j].port, instance |-> j]
      BY <1>1, <2>7 DEF LeaseInv, ActiveInstancesHoldTheirLease
    <3>2. CASE j = i
      BY <2>5, <2>7, <2>8, <2>10, <3>1, <3>2
    <3>3. CASE j # i
      BY <2>5, <2>7, <2>8, <3>1, <3>3
    <3> QED
      BY <3>2, <3>3
  <2>12. PortsAreLeasedOnce'
    BY <1>1, <2>2, <2>3, <2>4, <2>5 DEF LeaseInv, PortsAreLeasedOnce
  <2>13. LeasesAreOfRows'
    BY <1>1, <1>2, <2>1, <2>2, <2>4, <2>5, <2>7 DEF LeaseInv, LeasesAreOfRows
  <2> QED
    BY <1>1, <1>4, <1>5, <1>7, <2>6, <2>7, <2>9, <2>11, <2>12, <2>13, StartersKept, CallStep
       DEF LeaseInv
<1> QED
  BY <1>1, <1>3, <1>6, <1>7 DEF Reassign, Mine

\* mark_running, or the stop of a server that is not wanted any more.
LEMMA MarkRunningStep ==
  ASSUME Inv, NEW c \in Callers, MarkRunning(c)
  PROVE  Inv' /\ Ended
<1> DEFINE i == call[c].instance
<1>1. /\ TypeOK /\ CallOK(c) /\ call[c].pc = "report" /\ call[c].pc \notin FreePoints
      /\ UNCHANGED <<servers, autoLeft, stopLeft, core>>
      /\ autoLeft \subseteq Scopes /\ stopLeft \subseteq Rows /\ Len(rows) <= MaxInstances
  BY DEF Inv, TypeOK, MarkRunning, At, FreePoints
<1>2. i \in Rows /\ i \in Ids /\ servers[i].startup = "ok"
  BY <1>1, RowNumbers DEF CallOK, ReadyPoints
<1>3. CASE servers[i].port = rows[i].port /\ Permits(rows[i].status, "running")
  <2>1. Move(i, "running") /\ Return(c)
    BY <1>3 DEF MarkRunning, Mine
  <2>2. rows[i].status \in ActiveStatus /\ "running" \in Status
    BY <1>3 DEF Permits, ActiveStatus, Status
  <2>3. /\ rows' \in Seq(Row) /\ Len(rows') = Len(rows) /\ Rows' = Rows
        /\ leases' \in [Scopes -> Lease]
        /\ LeaseInv' /\ Ended
        /\ rows'[i].status = "running" /\ rows'[i].port = rows[i].port
        /\ \A j \in Rows : j # i => rows'[j] = rows[j]
    BY <1>2, <2>1, <2>2, MoveStep
  <2>4. call' \in [Callers -> Call] /\ Others(c) /\ call'[c].pc \in FreePoints
    BY <1>1, <2>1, ReturnFields
  <2> HIDE DEF i
  <2>5. ServersMove /\ Rows' \subseteq Ids
    BY <1>1, <2>3, RowNumbers DEF ServersMove
  <2>6. CallOK(c)' /\ NoNewStart(c)
    BY <2>4 DEF CallOK, NoNewStart, FreePoints, StartPoints, ReadyPoints
  <2>7. ASSUME NEW d \in Callers PROVE CallOK(d)'
    BY <2>3, <2>4, <2>5, <2>6, CallKept DEF Others
  <2>8. StartersDiffer'
    BY <2>4, <2>6, StartersKept
  <2>9. \A j \in Ids : ServerOK(j)'
    BY <1>1, <2>3 DEF Inv, ServerOK
  <2>10. CrashesAreRecorded'
    BY <1>1, <2>3, <2>5, CrashesKept
  <2>11. RunningServersServeTheirPort'
    BY <1>1, <1>2, <1>3, <2>3 DEF Inv, RunningServersServeTheirPort
  <2>12. TypeOK' /\ stopLeft' \subseteq Rows'
    BY <1>1, <2>3, <2>4 DEF TypeOK
  <2> QED
    BY <2>3, <2>7, <2>8, <2>9, <2>10, <2>11, <2>12 DEF Inv
<1>4. CASE ~(servers[i].port = rows[i].port /\ Permits(rows[i].status, "running"))
  <2>1. Goto(c, "lookup") /\ UNCHANGED <<rows, leases>>
    BY <1>4 DEF MarkRunning, Mine
  <2> QED
    BY <1>1, <2>1, GoOnStep
<1> QED
  BY <1>3, <1>4

\* What a caller does once it has begun.
LEMMA WorkStep ==
  ASSUME Inv, NEW c \in Callers, Work(c)
  PROVE  Inv' /\ Ended
<1>1. CASE LaunchRefused(c) \/ NoPortToReserve(c) \/ ReportRefused(c) \/ Lookup(c) \/ Waited(c)
  <2>1. call[c].then \in {"failed", "stopped"}
    BY DEF Inv, TypeOK, Call
  <2> QED
    BY <1>1, <2>1, GoOnStep DEF LaunchRefused, NoPortToReserve, ReportRefused, Lookup, Waited,
       At, FreePoints
<1>2. CASE MarkFailed(c) \/ LogsUnread(c) \/ MarkStopped(c) \/ LogsNotKept(c)
  BY <1>2, ReturnStep DEF MarkFailed, LogsUnread, MarkStopped, LogsNotKept, At, FreePoints
<1>3. CASE Launch(c) \/ (\E p \in Ports : StartServer(c, p)) \/ Startup(c)
  BY <1>3, LaunchStep, StartServerStep, StartupStep
<1>4. CASE Reassign(c) \/ MarkRunning(c)
  BY <1>4, ReassignStep, MarkRunningStep
<1>5. CASE StopServer(c) \/ Join(c)
  BY <1>5, StopServerStep, JoinStep
<1> QED
  BY <1>1, <1>2, <1>3, <1>4, <1>5 DEF Work

\* The supervisor and the end of a child.
LEMMA SuperviseStep ==
  ASSUME Inv, NEW i \in Ids,
         Supervise(i) \/ \E e \in {"Exited", "Crashed"} : Ends(i, e)
  PROVE  Inv' /\ Ended
<1>1. TypeOK /\ ServerOK(i) /\ servers[i] \in Server
  BY DEF Inv, TypeOK
<1>2. CASE StartupFails(i)
  <2> DEFINE r == [servers[i] EXCEPT !.child = "gone", !.startup = "failed",
                                     !.event = Emitted(i, "StartupFailed")]
  <2>1. /\ servers[i].child = "starting" /\ servers' = [servers EXCEPT ![i] = r]
        /\ UNCHANGED <<rows, leases, call, autoLeft, stopLeft, core>>
    BY <1>1, <1>2 DEF StartupFails, TypeOK
  <2>2. Emitted(i, "StartupFailed") \in {"none", "StartupFailed", "Exited", "Crashed", "Stopped"}
    BY <1>1 DEF Emitted, Server
  <2>3. /\ r \in Server /\ r.watched = servers[i].watched /\ r.port = servers[i].port
        /\ r.child = "gone"
    BY <1>1, <2>2 DEF Server
  <2>4. servers[i].startup = "waiting"
    BY <1>1, <2>1 DEF ServerOK
  <2> HIDE DEF r
  <2> QED
    BY <2>1, <2>3, <2>4, ChildStep
<1>3. CASE BecomesReady(i)
  <2> DEFINE r == [servers[i] EXCEPT !.child = "ready", !.startup = "ok"]
  <2>1. /\ servers[i].child = "starting" /\ servers' = [servers EXCEPT ![i] = r]
        /\ UNCHANGED <<rows, leases, call, autoLeft, stopLeft, core>>
    BY <1>1, <1>3 DEF BecomesReady, TypeOK
  <2>2. /\ r \in Server /\ r.watched = servers[i].watched /\ r.port = servers[i].port
        /\ r.child = "ready" /\ r.event = servers[i].event /\ r.startup = "ok"
    BY <1>1 DEF Server
  <2>3. servers[i].event = "none"
    BY <1>1, <2>1 DEF ServerOK
  <2> HIDE DEF r
  <2> QED
    BY <2>1, <2>2, <2>3, ChildStep
<1>4. ASSUME NEW e \in {"Exited", "Crashed"}, Ends(i, e) PROVE Inv' /\ Ended
  <2> DEFINE r == [servers[i] EXCEPT !.child = "gone", !.event = Emitted(i, e)]
  <2>1. /\ servers[i].child = "ready" /\ servers' = [servers EXCEPT ![i] = r]
        /\ UNCHANGED <<rows, leases, call, autoLeft, stopLeft, core>>
    BY <1>1, <1>4 DEF Ends, TypeOK
  <2>2. Emitted(i, e) \in {"none", "StartupFailed", "Exited", "Crashed", "Stopped"}
    BY <1>1 DEF Emitted, Server
  <2>3. /\ r \in Server /\ r.watched = servers[i].watched /\ r.port = servers[i].port
        /\ r.child = "gone" /\ r.startup = servers[i].startup
    BY <1>1, <2>2 DEF Server
  <2> HIDE DEF r
  <2> QED
    BY <2>1, <2>3, ChildStep
<1>5. CASE Terminated(i)
  <2> DEFINE t == IF servers[i].startup = "waiting" THEN "failed" ELSE servers[i].startup
             r == [servers[i] EXCEPT !.child = "gone", !.event = Emitted(i, "Stopped"),
                                     !.startup = t]
  <2>1. /\ servers[i].child \in {"starting", "ready"} /\ servers' = [servers EXCEPT ![i] = r]
        /\ UNCHANGED <<rows, leases, call, autoLeft, stopLeft, core>>
    BY <1>1, <1>5 DEF Terminated, TypeOK
  <2>2. /\ Emitted(i, "Stopped") \in {"none", "StartupFailed", "Exited", "Crashed", "Stopped"}
        /\ t \in {"waiting", "ok", "failed"}
        /\ servers[i].startup = "ok" => t = "ok"
    BY <1>1 DEF Emitted, Server
  <2>3. /\ r \in Server /\ r.watched = servers[i].watched /\ r.port = servers[i].port
        /\ r.child = "gone" /\ r.startup = t
    <3> HIDE DEF t
    <3> QED
      BY <1>1, <2>2 DEF Server
  <2> HIDE DEF r, t
  <2> QED
    BY <2>1, <2>2, <2>3, ChildStep
<1> QED
  BY <1>2, <1>3, <1>4, <1>5 DEF Supervise

\* monitor_instance writes the end and leaves.
LEMMA MonitorStep ==
  ASSUME Inv, NEW i \in Ids, Monitor(i)
  PROVE  Inv' /\ Ended
<1> DEFINE r == [servers[i] EXCEPT !.watched = FALSE]
<1>1. /\ TypeOK /\ ServerOK(i) /\ servers[i].watched /\ servers[i].event # "none"
      /\ UNCHANGED <<call, autoLeft, stopLeft, core>>
      /\ servers[i] \in Server /\ servers' = [servers EXCEPT ![i] = r]
      /\ Rows \subseteq Ids /\ Len(rows) <= MaxInstances
  BY RowNumbers DEF Inv, TypeOK, Monitor
<1>2. i \in Rows /\ servers[i].child = "gone"
  BY <1>1 DEF ServerOK, Server
<1>3. /\ r \in Server /\ r.child = "gone" /\ r.event = servers[i].event
      /\ r.startup = servers[i].startup /\ r.port = servers[i].port
  BY <1>1, <1>2 DEF Server
<1> HIDE DEF r
<1>4. /\ servers' \in [Ids -> Server] /\ servers'[i] = r
      /\ \A j \in Ids : j # i => servers'[j] = servers[j]
  BY <1>1, <1>3, ServerWritten
<1>5. /\ rows' \in Seq(Row) /\ Len(rows') = Len(rows) /\ Rows' = Rows
      /\ leases' \in [Scopes -> Lease]
      /\ LeaseInv' /\ Ended /\ NoneStartsToRun
      /\ servers[i].event = "Crashed" => rows'[i].status \notin ActiveStatus
  <2>1. CASE servers[i].event = "Crashed"
    <3>1. TryMove(i, "failed")
      BY <2>1 DEF Monitor
    <3> QED
      BY <1>2, <3>1, TryMoveStep
  <2>2. CASE servers[i].event = "Exited" /\ rows[i].status = "running"
    <3>1. Move(i, "stopped") /\ rows[i].status \in ActiveStatus /\ "stopped" \in Status
      BY <2>2 DEF Monitor, ActiveStatus, Status
    <3> QED
      BY <1>2, <2>2, <3>1, MoveStep
  <2>3. CASE servers[i].event # "Crashed" /\ ~(servers[i].event = "Exited" /\ rows[i].status = "running")
    <3>1. UNCHANGED <<rows, leases>>
      BY <2>3 DEF Monitor
    <3> QED
      BY <2>3, <3>1, StillRows
  <2> QED
    BY <2>1, <2>2, <2>3
<1>6. ServersMove
  BY <1>2, <1>3, <1>4 DEF ServersMove
<1>7. ASSUME NEW j \in Ids PROVE ServerOK(j)'
  <2>1. CASE j = i
    BY <1>1, <1>2, <1>3, <1>4, <1>5, <2>1 DEF ServerOK
  <2>2. CASE j # i
    BY <1>4, <1>5, <2>2 DEF Inv, ServerOK
  <2> QED
    BY <2>1, <2>2
<1>8. ASSUME NEW d \in Callers PROVE CallOK(d)'
  BY <1>1, <1>5, <1>6, CallKept
<1>9. StartersDiffer'
  BY <1>1 DEF Inv, StartersDiffer
<1>10. CrashesAreRecorded'
  <2> SUFFICES ASSUME NEW j \in Rows, servers'[j].event = "Crashed", ~servers'[j].watched
               PROVE  rows'[j].status \notin ActiveStatus
    BY <1>5 DEF CrashesAreRecorded
  <2>1. CASE j = i
    BY <1>3, <1>4, <1>5, <2>1
  <2>2. CASE j # i
    BY <1>1, <1>4, <1>5, <2>2 DEF Inv, CrashesAreRecorded, Ended
  <2> QED
    BY <2>1, <2>2
<1>11. RunningServersServeTheirPort'
  <2>1. \A j \in Rows : servers[j].startup = "ok" =>
          servers'[j].startup = "ok" /\ servers'[j].port = servers[j].port
    BY <1>1, <1>3, <1>4
  <2> QED
    BY <1>1, <1>5, <2>1, RunningKept
<1>12. TypeOK' /\ stopLeft' \subseteq Rows'
  BY <1>1, <1>4, <1>5 DEF Inv, TypeOK
<1> QED
  BY <1>5, <1>7, <1>8, <1>9, <1>10, <1>11, <1>12 DEF Inv

\* shutdown_all
LEMMA ShutdownStep ==
  ASSUME Inv, ListServers \/ \E i \in Ids : StopNext(i)
  PROVE  Inv' /\ Ended
<1>1. TypeOK /\ autoLeft \subseteq Scopes /\ stopLeft \subseteq Rows /\ Len(rows) <= MaxInstances
      /\ "main" \in Callers
  BY DEF Inv, TypeOK, Callers
<1>2. CASE ListServers
  <2>1. /\ UNCHANGED <<rows, leases, servers, autoLeft, core>> /\ Goto("main", "next")
        /\ stopLeft' = {i \in Ids : servers[i].watched}
    BY <1>2 DEF ListServers
  <2>2. /\ call' \in [Callers -> Call] /\ Others("main") /\ call'["main"].pc = "next"
    BY <1>1, <2>1, GotoFields, PointNames DEF FreePoints
  <2>3. CallOK("main")' /\ NoNewStart("main")
    BY <2>2 DEF CallOK, NoNewStart, FreePoints, StartPoints, ReadyPoints
  <2>4. stopLeft' \subseteq Rows
    BY <2>1 DEF Inv, ServerOK
  <2> QED
    BY <1>1, <2>1, <2>2, <2>3, <2>4, QuietStep
<1>3. ASSUME NEW i \in Ids, StopNext(i) PROVE Inv' /\ Ended
  <2> DEFINE k == [pc |-> "lock", instance |-> i, then |-> "stopped"]
  <2>1. /\ i \in Rows /\ TryMove(i, "stopping") /\ stopLeft' = stopLeft \ {i}
        /\ call' = [call EXCEPT !["main"] = k]
        /\ UNCHANGED <<servers, autoLeft, core>>
    BY <1>1, <1>3 DEF StopNext
  <2>2. k \in Call /\ k.pc = "lock" /\ k.instance = i
    BY CallValues, PointNames DEF AwaitPoints
  <2> HIDE DEF k
  <2>3. call' \in [Callers -> Call] /\ Others("main") /\ call'["main"] = k
    BY <1>1, <2>1, <2>2, CallWritten
  <2>4. /\ rows' \in Seq(Row) /\ Len(rows') = Len(rows) /\ Rows' = Rows
        /\ leases' \in [Scopes -> Lease]
        /\ LeaseInv' /\ Ended /\ NoneStartsToRun
    BY <2>1, TryMoveStep
  <2>5. CallOK("main")' /\ NoNewStart("main")
    BY <2>1, <2>2, <2>3, <2>4 DEF CallOK, NoNewStart, StartPoints, ReadyPoints
  <2> QED
    BY <1>1, <2>1, <2>3, <2>4, <2>5, StartersKept, CallStep
<1> QED
  BY <1>2, <1>3

\* The core ends, by an exit or by a crash: what there was in memory is gone.
LEMMA DownStep ==
  ASSUME Inv, Down
  PROVE  Inv' /\ Ended
<1>1. /\ core' = "down" /\ UNCHANGED <<rows, leases>>
      /\ servers' = [i \in Ids |-> NoServer]
      /\ call' = [c \in Callers |-> Idle]
      /\ autoLeft' = {} /\ stopLeft' = {}
  BY DEF Down
<1>2. LeaseInv' /\ Ended /\ Rows' = Rows /\ Rows \subseteq Ids
  BY <1>1, StillRows, RowNumbers DEF Inv
<1>3. /\ NoServer \in Server /\ NoServer.child = "none" /\ NoServer.event = "none"
      /\ NoServer.startup = "waiting" /\ ~NoServer.watched
  BY DEF NoServer, Server
<1>4. TypeOK'
  BY <1>1, <1>3, CallValues DEF Inv, TypeOK
<1>5. \A i \in Ids : servers'[i] = NoServer
  BY <1>1
<1>6. \A c \in Callers : call'[c].pc = "idle"
  BY <1>1, CallValues
<1>7. \A c \in Callers : CallOK(c)'
  BY <1>6 DEF CallOK, FreePoints, StartPoints, ReadyPoints
<1>8. StartersDiffer'
  BY <1>6 DEF StartersDiffer, StartPoints
<1>9. \A i \in Ids : ServerOK(i)'
  BY <1>3, <1>5 DEF ServerOK
<1>10. CrashesAreRecorded' /\ RunningServersServeTheirPort'
  BY <1>1, <1>2, <1>3, <1>5 DEF CrashesAreRecorded, RunningServersServeTheirPort
<1> QED
  BY <1>1, <1>2, <1>4, <1>7, <1>8, <1>9, <1>10 DEF Inv

\* recover_interrupted quarantines what was active and takes the leases back.
LEMMA RestartStep ==
  ASSUME Inv, NEW auto \in AutoStarts, Restart(auto)
  PROVE  Inv' /\ Ended
<1>1. /\ TypeOK /\ LeaseInv /\ Len(rows) <= MaxInstances /\ leases \in [Scopes -> Lease]
      /\ core' = "up" /\ UNCHANGED <<servers, call, stopLeft>> /\ autoLeft' = auto
      /\ rows' = [i \in Rows |-> IF rows[i].status \in ActiveStatus
                                 THEN [rows[i] EXCEPT !.status = "orphaned"] ELSE rows[i]]
      /\ leases' = [s \in Scopes |-> IF leases[s].instance # NoInstance THEN NoLease ELSE leases[s]]
  BY DEF Restart, Inv, TypeOK
<1>2. /\ Rows = 1..Len(rows) /\ Len(rows) \in Nat /\ Rows \subseteq Ids
      /\ \A i \in Rows : rows[i] \in Row
  BY <1>1, RowNumbers
<1>3. \A i \in Rows : rows'[i] = IF rows[i].status \in ActiveStatus
                                 THEN [rows[i] EXCEPT !.status = "orphaned"] ELSE rows[i]
  BY <1>1
<1>4. \A i \in Rows : /\ rows'[i] \in Row
                      /\ rows'[i].status \notin ActiveStatus
                      /\ rows[i].status \notin ActiveStatus => rows'[i] = rows[i]
                      /\ rows'[i].scope = rows[i].scope
                      /\ rows'[i].port = rows[i].port
  <2>1. "orphaned" \in Status /\ "orphaned" \notin ActiveStatus
    BY DEF Status, ActiveStatus
  <2> QED
    BY <1>2, <1>3, <2>1 DEF Row
<1>5. DOMAIN rows' = Rows /\ Rows' = Rows
  BY <1>1 DEF Rows
<1>6. rows' \in Seq(Row) /\ Len(rows') = Len(rows)
  <2>1. rows' \in [1..Len(rows) -> Row]
    BY <1>1, <1>2, <1>4, <1>5
  <2> QED
    BY <1>2, <2>1, LenProperties, SeqDef
<1>7. leases' \in [Scopes -> Lease]
  BY <1>1 DEF NoLease, Lease
<1>8. \A s \in Scopes : leases'[s] = NoLease \/ (leases'[s] = leases[s] /\ leases[s].instance = NoInstance)
  BY <1>1
<1>9. LeaseInv'
  <2>1. ActiveInstancesHoldTheirLease'
    BY <1>4, <1>5 DEF ActiveInstancesHoldTheirLease
  <2>2. PortsAreLeasedOnce'
    BY <1>1, <1>8 DEF LeaseInv, PortsAreLeasedOnce, LeasesAreOfRows, NoLease
  <2>3. LeasesAreOfRows'
    BY <1>1, <1>8 DEF LeaseInv, LeasesAreOfRows, NoLease
  <2> QED
    BY <2>1, <2>2, <2>3 DEF LeaseInv
<1>10. Ended
  BY <1>4, <1>5 DEF Ended
<1>11. TypeOK' /\ stopLeft' \subseteq Rows'
  BY <1>1, <1>5, <1>6, <1>7, AutoStartAssumption DEF Inv, TypeOK
<1>12. \A c \in Callers : CallOK(c)'
  BY <1>1, <1>5 DEF Inv, CallOK
<1>13. StartersDiffer'
  BY <1>1 DEF Inv, StartersDiffer
<1>14. \A i \in Ids : ServerOK(i)'
  BY <1>1, <1>5 DEF Inv, ServerOK
<1>15. CrashesAreRecorded' /\ RunningServersServeTheirPort'
  BY <1>4, <1>5 DEF CrashesAreRecorded, RunningServersServeTheirPort, ActiveStatus
<1> QED
  BY <1>9, <1>10, <1>11, <1>12, <1>13, <1>14, <1>15 DEF Inv

\* A step that leaves rows, leases, servers and calls alone.
LEMMA IdleStep ==
  ASSUME Inv, UNCHANGED <<rows, leases, servers, call, stopLeft>>,
         autoLeft' \subseteq Scopes, core' \in {core, "stopping"},
         core' # "down" => core # "down"
  PROVE  Inv' /\ Ended
<1>1. Rows' = Rows /\ Ended /\ LeaseInv'
  BY StillRows
<1>2. TypeOK'
  BY DEF Inv, TypeOK
<1>3. StartersDiffer' /\ CrashesAreRecorded' /\ RunningServersServeTheirPort'
  BY <1>1 DEF Inv, StartersDiffer, CrashesAreRecorded, RunningServersServeTheirPort
<1>4. (\A c \in Callers : CallOK(c)') /\ (\A i \in Ids : ServerOK(i)')
  BY <1>1 DEF Inv, CallOK, ServerOK
<1> QED
  BY <1>1, <1>2, <1>3, <1>4 DEF Inv

\* Every step keeps the invariant, and what has ended as it is.
LEMMA NextStep == Inv /\ [Next]_vars => Inv' /\ Ended
<1> SUFFICES ASSUME Inv, [Next]_vars PROVE Inv' /\ Ended
  OBVIOUS
<1>1. ASSUME NEW c \in Clients, Request(c) \/ Abort(c) PROVE Inv' /\ Ended
  <2>1. c \in Callers
    BY DEF Callers
  <2> QED
    BY <1>1, <2>1, PrepareStartStep, PortStep, BeginStopStep, AbortStep DEF Request
<1>2. CASE AutoStart
  <2>1. ASSUME NEW s \in Scopes, AutoStartFails(s) PROVE Inv' /\ Ended
    BY <2>1, IdleStep DEF AutoStartFails, Inv, TypeOK
  <2>2. "auto" \in Callers
    BY DEF Callers
  <2> QED
    BY <1>2, <2>1, <2>2, PrepareStartStep DEF AutoStart
<1>3. ASSUME NEW c \in Callers, Work(c) PROVE Inv' /\ Ended
  BY <1>3, WorkStep
<1>4. ASSUME NEW i \in Ids,
             Supervise(i) \/ Monitor(i) \/ \E e \in {"Exited", "Crashed"} : Ends(i, e)
      PROVE  Inv' /\ Ended
  BY <1>4, SuperviseStep, MonitorStep
<1>5. CASE BeginShutdown
  BY <1>5, IdleStep DEF BeginShutdown, Inv, TypeOK
<1>6. CASE Shutdown \/ Crash
  BY <1>6, ShutdownStep, DownStep DEF Shutdown, Exit, Crash
<1>7. ASSUME NEW auto \in AutoStarts, Restart(auto) PROVE Inv' /\ Ended
  BY <1>7, RestartStep
<1>8. CASE UNCHANGED vars
  BY <1>8, IdleStep DEF vars, Inv, TypeOK
<1> QED
  BY <1>1, <1>2, <1>3, <1>4, <1>5, <1>6, <1>7, <1>8 DEF Next

\* The invariant is one of the specification.
THEOREM Invariant == Spec => []Inv
<1>1. Inv /\ [Next]_vars => Inv'
  BY NextStep
<1> QED
  BY InvInit, <1>1, PTL DEF Spec

-----------------------------------------------------------------------------
(***************************************************************************)
(* What follows.                                                           *)
(***************************************************************************)

\* Types: the rows, leases, servers and calls stay what they are declared to be, and
\* no more instances than the bound are prepared.
THEOREM Types == Spec => []TypeOK
<1>1. Inv => TypeOK
  BY DEF Inv
<1> QED
  BY <1>1, Invariant, PTL

\* Held leases: for any number of callers, scopes and ports, an active instance has
\* the lease of its scope on the port of its row (prepare_start, assign_port,
\* release_port, reassign_instance_port, transition, recover_interrupted).
THEOREM HeldLeases == Spec => []ActiveInstancesHoldTheirLease
<1>1. Inv => ActiveInstancesHoldTheirLease
  BY DEF Inv, LeaseInv
<1> QED
  BY <1>1, Invariant, PTL

\* Ports leased once: no two scopes have an active lease on one port, so the unique
\* index idx_dev_server_active_port never refuses a transaction.
THEOREM PortsOnce == Spec => []PortsAreLeasedOnce
<1>1. Inv => PortsAreLeasedOnce
  BY DEF Inv, LeaseInv
<1> QED
  BY <1>1, Invariant, PTL

\* Running ports: an instance that is running was ready on the port of its row
\* (reassign_instance_port, validate_runtime_report, mark_running).
THEOREM RunningPorts == Spec => []RunningServersServeTheirPort
<1>1. Inv => RunningServersServeTheirPort
  BY DEF Inv
<1> QED
  BY <1>1, Invariant, PTL

\* Recorded crashes: once the monitor has left after a crash the row is not active
\* any more, whatever the callers wrote meanwhile (monitor_instance, mark_failed).
THEOREM RecordedCrashes == Spec => []CrashesAreRecorded
<1>1. Inv => CrashesAreRecorded
  BY DEF Inv
<1> QED
  BY <1>1, Invariant, PTL

\* Final ends: an instance that has stopped, failed or been quarantined keeps its row
\* as it is, whoever still works for it (transition, reassign_instance_port).
THEOREM FinalEnds == Spec => EndsAreFinal
<1>1. Inv /\ [Next]_vars =>
        [\A i \in Rows : rows[i].status \notin ActiveStatus => rows'[i] = rows[i]]_vars
  BY NextStep DEF Ended
<1> QED
  BY <1>1, Invariant, PTL DEF Spec, EndsAreFinal

=============================================================================
