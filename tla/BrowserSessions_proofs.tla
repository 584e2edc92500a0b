----------------------- MODULE BrowserSessions_proofs -----------------------
(***************************************************************************)
(* Proofs about BrowserSessions, for any connections, sessions and bounds: *)
(* the tables agree, what runs can be launched again, and nothing is       *)
(* automated twice.                                                        *)
(***************************************************************************)
EXTENDS BrowserSessions, TLAPS

-----------------------------------------------------------------------------
(***************************************************************************)
(* The invariant.                                                          *)
(***************************************************************************)

Stages == {"first", "relaunch", "retry", "rollback", "failClosed"}

\* Is a request of the handler one that the service automates?
Automating(x) == x.wire \in {"visit", "operate"} /\ x.method \in Automation

\* A handler at work has a session, and what it is about to send has not been
\* carried out.
Handled(x) ==
  /\ x.pc # "idle" => x.session \in Sessions
  /\ x.ran <= 1
  /\ x.pc = "send" /\ Automating(x) => x.ran = 0

\* A request of a handler is the one it waits for.
Awaited(r, calls) ==
  r.by # Nobody =>
    /\ calls[r.by].pc = "wait"
    /\ r.wire = calls[r.by].wire /\ r.session = calls[r.by].session
    /\ Automating(calls[r.by]) => calls[r.by].ran = 0

WireInv ==
  /\ TypeOK
  /\ \A c \in Clients : Handled(call[c])
  /\ \A r \in requests : Awaited(r, call)

\* A session that has come to its end, or will not run again.
Over(row) == row.status \notin {"none", "starting", "running"}

\* One that has run, or is over.
Ran(row) == row.status \notin {"none", "starting"}

\* A stop and a rollback are about a session that is over, a launch about one that
\* does not run yet, and an operation about one that has run; what closes a browser
\* is a stop, a rollback or a failure of the last.
Placed(x, table) ==
  x.pc # "idle" =>
    /\ x.method = "session.stop" \/ x.stage = "rollback" => Over(table[x.session])
    /\ x.method = "session.start" /\ x.stage = "first" =>
         table[x.session].status \notin {"none", "running"}
    /\ x.method \in Operations \/ x.stage = "failClosed" => Ran(table[x.session])
    /\ x.wire = "close" => x.method = "session.stop" \/ x.stage \in {"rollback", "failClosed"}

Launches(x) == x.pc # "idle" /\ x.method = "session.start" /\ x.stage = "first"

\* A launch that has returned is one the client of the service remembers, unless
\* the session came to its end meanwhile.
Kept(x, table, remembered) ==
  Launches(x) /\ x.pc = "noted" /\ table[x.session].status = "starting" =>
    x.session \in remembered

\* A handler that is about to fail a session it has closed.
Failing(x, s) ==
  x.pc = "noted" /\ x.session = s /\ x.stage = "failClosed" /\ x.answer = "ok"

LaunchInv ==
  /\ \A c \in Clients : Placed(call[c], rows) /\ Kept(call[c], rows, known)
  /\ \A c, d \in Clients :
       Launches(call[c]) /\ Launches(call[d]) /\ call[c].session = call[d].session => c = d
  /\ RunningSessionsCanBeRelaunched

-----------------------------------------------------------------------------
(***************************************************************************)
(* What the parts of an action do.                                         *)
(***************************************************************************)

\* A handler that asks keeps its method, its session and what has been carried out.
LEMMA AskShape ==
  ASSUME call \in [Clients -> Call], NEW c \in Clients, NEW wire \in WireMethods,
         NEW stage \in Stages, Ask(c, wire, stage)
  PROVE  /\ call' \in [Clients -> Call]
         /\ \A d \in Clients \ {c} : call'[d] = call[d]
         /\ call'[c].pc = "send" /\ call'[c].wire = wire /\ call'[c].stage = stage
         /\ call'[c].method = call[c].method /\ call'[c].session = call[c].session
         /\ call'[c].ran = call[c].ran
<1> DEFINE q == [call[c] EXCEPT !.pc = "send", !.wire = wire, !.stage = stage, !.answer = "none"]
<1>1. q \in Call
  BY DEF Call, Answers, Stages
<1>2. call' = [call EXCEPT ![c] = q]
  BY DEF Ask, Call, Answers
<1>3. /\ q.pc = "send" /\ q.wire = wire /\ q.stage = stage
      /\ q.method = call[c].method /\ q.session = call[c].session /\ q.ran = call[c].ran
  BY DEF Call
<1> HIDE DEF q
<1> QED
  BY <1>1, <1>2, <1>3

\* A handler that begins asks for its method.
LEMMA BeginShape ==
  ASSUME call \in [Clients -> Call], NEW c \in Clients, NEW m \in Methods,
         NEW s \in Sessions, Begin(c, m, s)
  PROVE  /\ call' \in [Clients -> Call]
         /\ \A d \in Clients \ {c} : call'[d] = call[d]
         /\ call'[c].pc = "send" /\ call'[c].stage = "first" /\ call'[c].method = m
         /\ call'[c].session = s /\ call'[c].ran = 0 /\ call'[c].wire = Wire(m)
<1> DEFINE q == [Idle EXCEPT !.pc = "send", !.method = m, !.session = s, !.wire = Wire(m)]
<1>1. Wire(m) \in WireMethods
  BY DEF Wire, WireMethods
<1>2. Idle \in Call /\ Idle.stage = "first" /\ Idle.ran = 0
  BY DEF Idle, Call, Methods, WireMethods, Answers
<1>3. ASSUME NEW x \in Call, NEW wire \in WireMethods
      PROVE  LET y == [x EXCEPT !.pc = "send", !.method = m, !.session = s, !.wire = wire]
             IN  /\ y \in Call /\ y.pc = "send" /\ y.method = m /\ y.session = s
                 /\ y.stage = x.stage /\ y.ran = x.ran /\ y.wire = wire
  BY DEF Call
<1>4. /\ q \in Call /\ q.pc = "send" /\ q.stage = "first" /\ q.method = m
      /\ q.session = s /\ q.ran = 0 /\ q.wire = Wire(m)
  BY <1>1, <1>2, <1>3
<1>5. call' = [call EXCEPT ![c] = q]
  BY DEF Begin
<1> HIDE DEF q
<1> QED
  BY <1>4, <1>5

\* A handler that returns is idle.
LEMMA ReturnShape ==
  ASSUME call \in [Clients -> Call], NEW c \in Clients, Return(c)
  PROVE  /\ call' \in [Clients -> Call]
         /\ \A d \in Clients \ {c} : call'[d] = call[d]
         /\ call'[c].pc = "idle" /\ call'[c].ran = 0
<1>1. Idle \in Call /\ Idle.pc = "idle" /\ Idle.ran = 0
  BY DEF Idle, Call, Methods, WireMethods, Answers
<1> QED
  BY <1>1 DEF Return

\* A handler whose request has returned keeps what it knows of it.
LEMMA NotedShape ==
  ASSUME call \in [Clients -> Call], NEW c \in Clients, Noted(c)
  PROVE  /\ call' \in [Clients -> Call]
         /\ \A d \in Clients \ {c} : call'[d] = call[d]
         /\ call'[c].pc = "noted" /\ call'[c].wire = call[c].wire
         /\ call'[c].stage = call[c].stage /\ call'[c].answer = call[c].answer
         /\ call'[c].method = call[c].method /\ call'[c].session = call[c].session
         /\ call'[c].ran = call[c].ran
<1> DEFINE q == [call[c] EXCEPT !.pc = "noted"]
<1>1. /\ q \in Call /\ q.pc = "noted" /\ q.wire = call[c].wire /\ q.stage = call[c].stage
      /\ q.answer = call[c].answer /\ q.method = call[c].method
      /\ q.session = call[c].session /\ q.ran = call[c].ran
  BY DEF Call
<1>2. call' = [call EXCEPT ![c] = q]
  BY DEF Noted, Call
<1> HIDE DEF q
<1> QED
  BY <1>1, <1>2

\* A move changes one row, and takes its takeover with it if that is over.
LEMMA MoveShape ==
  ASSUME rows \in [Sessions -> Row], takeover \subseteq Sessions, NEW s \in Sessions,
         NEW to \in Status, Move(s, to)
  PROVE  /\ rows' \in [Sessions -> Row] /\ takeover' \subseteq takeover
         /\ \A u \in Sessions \ {s} : rows'[u] = rows[u]
         /\ rows'[s].status = to
         /\ rows'[s].profile = IF to \in {"stopped", "failed"} THEN "free" ELSE rows[s].profile
         /\ to \in {"stopped", "failed", "orphaned"} => s \notin takeover'
  BY DEF Move, TakeoverEnds, Row, ProfileStatus

\* A launch is awaited, and everything that a handler waits for is of the wire.
LEMMA Constants ==
  /\ \A m \in Methods : Wire(m) \in WireMethods
  /\ \A to \in {"running", "stopping", "stopped", "failed", "orphaned"} : to \in Status
  BY DEF Wire, WireMethods, Status, ActiveStatus

-----------------------------------------------------------------------------
(***************************************************************************)
(* Types and requests.                                                     *)
(***************************************************************************)

\* What a handler does between two requests keeps the invariant if it leaves the
\* tables and its own record in order.
LEMMA QuietStep ==
  ASSUME WireInv, NEW c \in Clients, call[c].pc # "wait", Quiet,
         call' \in [Clients -> Call], \A d \in Clients \ {c} : call'[d] = call[d],
         Handled(call'[c]),
         rows' \in [Sessions -> Row], takeover' \subseteq Sessions,
         tab' \in [Sessions -> TabStatus], known' \subseteq Sessions
  PROVE  WireInv'
<1>1. TypeOK'
  BY DEF WireInv, TypeOK, Quiet, process
<1>2. ASSUME NEW d \in Clients
      PROVE  Handled(call'[d])
  BY DEF WireInv
<1>3. ASSUME NEW r \in requests'
      PROVE  Awaited(r, call')
  <2>1. r \in requests /\ r.by \in Clients \cup {Nobody}
    BY DEF Quiet, WireInv, TypeOK, WireRequest
  <2>2. Awaited(r, call)
    BY <2>1 DEF WireInv
  <2>3. CASE r.by = Nobody
    BY <2>3 DEF Awaited
  <2>4. CASE r.by \in Clients /\ r.by # Nobody
    <3>1. call'[r.by] = call[r.by]
      BY <2>2, <2>4 DEF Awaited
    <3> QED
      BY <2>2, <2>4, <3>1 DEF Awaited
  <2> QED
    BY <2>1, <2>3, <2>4
<1> QED
  BY <1>1, <1>2, <1>3 DEF WireInv

\* The tables after a move, or an attempt at one.
LEMMA TryMoveTypes ==
  ASSUME TypeOK, NEW s \in Sessions, NEW to \in {"failed", "orphaned", "stopped"}, TryMove(s, to)
  PROVE  rows' \in [Sessions -> Row] /\ takeover' \subseteq Sessions
<1>1. to \in Status
  BY DEF Status, ActiveStatus
<1>2. CASE Permits(rows[s].status, to)
  BY <1>1, <1>2, MoveShape DEF TryMove, TypeOK
<1>3. CASE ~Permits(rows[s].status, to)
  BY <1>3 DEF TryMove, TypeOK
<1> QED
  BY <1>2, <1>3

\* A handler's calls of a method keep types and requests in order.
LEMMA WireCalls ==
  ASSUME WireInv, NEW c \in Clients, NEW s \in Sessions, Calls(c, s)
  PROVE  WireInv'
<1> USE DEF Serves, At, Quiet
<1>0. TypeOK /\ call \in [Clients -> Call]
  BY DEF WireInv, TypeOK
<1>1. ASSUME NEW m \in Methods, Begin(c, m, s)
      PROVE  /\ call' \in [Clients -> Call] /\ \A d \in Clients \ {c} : call'[d] = call[d]
             /\ Handled(call'[c])
  BY <1>0, <1>1, BeginShape DEF Handled
<1>2. CASE StartSession(c, s)
  <2>1. "session.start" \in Methods /\ call[c].pc # "wait"
    BY <1>2 DEF StartSession, Methods
  <2>2. rows' \in [Sessions -> Row]
    BY <1>0, <1>2 DEF StartSession, InsertSession, TypeOK, Row, Status, ActiveStatus, ProfileStatus
  <2> QED
    BY <1>0, <1>1, <1>2, <2>1, <2>2, QuietStep DEF StartSession, InsertSession, TypeOK
<1>3. CASE StopSession(c, s)
  <2>1. "session.stop" \in Methods /\ call[c].pc # "wait" /\ "stopping" \in Status
    BY <1>3 DEF StopSession, Methods, Status, ActiveStatus
  <2>2. rows' \in [Sessions -> Row] /\ takeover' \subseteq Sessions
    BY <1>0, <1>3, <2>1, MoveShape DEF StopSession, TypeOK
  <2> QED
    BY <1>0, <1>1, <1>3, <2>1, <2>2, QuietStep DEF StopSession, TypeOK
<1>4. ASSUME NEW m \in Operations, NEW address \in OpenTab, CallOperation(c, m, s, address)
      PROVE  WireInv'
  <2>1. m \in Methods /\ call[c].pc # "wait"
    BY <1>4 DEF CallOperation, Methods
  <2> QED
    BY <1>0, <1>1, <1>4, <2>1, QuietStep DEF CallOperation, stored, TypeOK
<1>5. CASE TakeoverStart(c, s)
  <2>1. "takeover.start" \in Methods /\ call[c].pc # "wait"
    BY <1>5 DEF TakeoverStart, Methods, Takeovers
  <2> QED
    BY <1>0, <1>1, <1>5, <2>1, QuietStep DEF TakeoverStart, InsertTakeover, TypeOK
<1>6. CASE TakeoverStop(c, s)
  <2>1. "takeover.stop" \in Methods /\ call[c].pc # "wait"
    BY <1>6 DEF TakeoverStop, Methods, Takeovers
  <2> QED
    BY <1>0, <1>1, <1>6, <2>1, QuietStep DEF TakeoverStop, stored, TypeOK
<1> QED
  BY <1>2, <1>3, <1>4, <1>5, <1>6 DEF Calls

\* A handler that asks again does not ask for its automation.
LEMMA AskKeeps ==
  ASSUME WireInv, NEW c \in Clients, call[c].pc \in {"answered", "noted"},
         NEW wire \in WireMethods, NEW stage \in Stages, Ask(c, wire, stage),
         wire \in {"launch", "close"} \/ call[c].method \notin Automation
  PROVE  /\ call' \in [Clients -> Call] /\ \A d \in Clients \ {c} : call'[d] = call[d]
         /\ Handled(call'[c])
<1>1. call \in [Clients -> Call] /\ Handled(call[c])
  BY DEF WireInv, TypeOK
<1>2. /\ call' \in [Clients -> Call] /\ \A d \in Clients \ {c} : call'[d] = call[d]
      /\ call'[c].pc = "send" /\ call'[c].wire = wire /\ call'[c].method = call[c].method
      /\ call'[c].session = call[c].session /\ call'[c].ran = call[c].ran
  BY <1>1, AskShape
<1> QED
  BY <1>1, <1>2 DEF Handled, Automating

\* A handler that returns has nothing to keep.
LEMMA ReturnKeeps ==
  ASSUME WireInv, NEW c \in Clients, Return(c)
  PROVE  /\ call' \in [Clients -> Call] /\ \A d \in Clients \ {c} : call'[d] = call[d]
         /\ Handled(call'[c])
  BY ReturnShape DEF WireInv, TypeOK, Handled

\* The tables of a handler that was answered stay of their types.
LEMMA TablesKeep ==
  ASSUME WireInv, NEW c \in Clients, call[c].pc \in {"answered", "noted"}
  PROVE  /\ TypeOK /\ Mine(c) \in Sessions /\ call[c].pc # "wait"
         /\ known \subseteq Sessions
         /\ UpsertTab(Mine(c), Address(c)) => tab' \in [Sessions -> TabStatus]
         /\ CloseTab(Mine(c)) => tab' \in [Sessions -> TabStatus]
<1>1. TypeOK /\ Mine(c) \in Sessions
  BY DEF WireInv, Handled, Mine
<1> QED
  BY <1>1 DEF TypeOK, UpsertTab, CloseTab, Address, TabStatus, OpenTab

\* What the client of the service remembers are sessions.
LEMMA WireNotes ==
  ASSUME WireInv, NEW c \in Clients, Remember(c) \/ Forget(c)
  PROVE  WireInv'
<1>1. call[c].pc = "answered" /\ call \in [Clients -> Call] /\ Handled(call[c])
  BY DEF Remember, Forget, Got, At, WireInv, TypeOK
<1>2. TypeOK /\ Mine(c) \in Sessions /\ call[c].pc # "wait"
  BY <1>1, TablesKeep
<1>3. /\ call' \in [Clients -> Call] /\ \A d \in Clients \ {c} : call'[d] = call[d]
      /\ Handled(call'[c])
  BY <1>1, NotedShape DEF Remember, Forget, Handled
<1>4. /\ rows' \in [Sessions -> Row] /\ takeover' \subseteq Sessions
      /\ tab' \in [Sessions -> TabStatus] /\ known' \subseteq Sessions
  BY <1>2 DEF Remember, Forget, Remembered, Noted, stored, TypeOK
<1> QED
  BY <1>2, <1>3, <1>4, QuietStep DEF Remember, Forget, Noted

\* So do those of a launch.
LEMMA WireLaunches ==
  ASSUME WireInv, NEW c \in Clients,
         \/ Launched(c) \/ LaunchedAstray(c) \/ LaunchedTooLate(c)
         \/ LaunchedNameless(c) \/ LaunchFails(c)
  PROVE  WireInv'
<1>0. call[c].pc \in {"answered", "noted"}
  BY DEF Launched, LaunchedAstray, LaunchedTooLate, LaunchedNameless, LaunchFails, Returned, Got, At
<1>1. /\ TypeOK /\ Mine(c) \in Sessions /\ call[c].pc # "wait"
      /\ "running" \in Status /\ "close" \in WireMethods /\ {"failClosed", "rollback"} \subseteq Stages
  BY <1>0, TablesKeep DEF Status, ActiveStatus, WireMethods, Stages
<1>2. CASE Launched(c)
  <2>1. rows' \in [Sessions -> Row] /\ takeover' \subseteq Sessions
    BY <1>1, <1>2, MoveShape DEF Launched, TypeOK
  <2> QED
    BY <1>0, <1>1, <1>2, <2>1, ReturnKeeps, TablesKeep, QuietStep DEF Launched
<1>3. CASE LaunchedAstray(c)
  <2>1. rows' \in [Sessions -> Row] /\ takeover' \subseteq Sessions
    BY <1>1, <1>3, MoveShape DEF LaunchedAstray, TypeOK
  <2>2. tab' \in [Sessions -> TabStatus]
    BY <1>1, <1>3 DEF LaunchedAstray, TypeOK
  <2> QED
    BY <1>0, <1>1, <1>3, <2>1, <2>2, AskKeeps, TablesKeep, QuietStep DEF LaunchedAstray
<1>4. CASE LaunchedTooLate(c)
  <2>1. /\ rows' \in [Sessions -> Row] /\ takeover' \subseteq Sessions
        /\ tab' \in [Sessions -> TabStatus]
    BY <1>1, <1>4 DEF LaunchedTooLate, stored, TypeOK
  <2> QED
    BY <1>0, <1>1, <1>4, <2>1, AskKeeps, TablesKeep, QuietStep DEF LaunchedTooLate
<1>5. CASE LaunchedNameless(c) \/ LaunchFails(c)
  <2>1. rows' \in [Sessions -> Row] /\ takeover' \subseteq Sessions
    BY <1>1, <1>5, TryMoveTypes DEF LaunchedNameless, LaunchFails
  <2>2. tab' \in [Sessions -> TabStatus] /\ known' \subseteq Sessions
    BY <1>0, <1>1, <1>5, TablesKeep DEF LaunchedNameless, LaunchFails, TypeOK
  <2> QED
    BY <1>0, <1>1, <1>5, <2>1, <2>2, ReturnKeeps, QuietStep DEF LaunchedNameless, LaunchFails
<1> QED
  BY <1>2, <1>3, <1>4, <1>5

\* So do those of the end of a session.
LEMMA WireEnds ==
  ASSUME WireInv, NEW c \in Clients, RolledBack(c) \/ Stopped(c) \/ FailedClosed(c)
  PROVE  WireInv'
<1>0. call[c].pc \in {"answered", "noted"}
  BY DEF RolledBack, Stopped, FailedClosed, Closed, Returned, Got, At
<1>1. TypeOK /\ Mine(c) \in Sessions /\ call[c].pc # "wait"
  BY <1>0, TablesKeep
<1>2. rows' \in [Sessions -> Row] /\ takeover' \subseteq Sessions
  <2>1. CASE RolledBack(c)
    BY <1>1, <2>1 DEF RolledBack, stored, TypeOK
  <2>2. CASE Stopped(c)
    BY <1>1, <2>2, TryMoveTypes DEF Stopped
  <2>3. CASE FailedClosed(c)
    BY <1>1, <2>3, TryMoveTypes DEF FailedClosed
  <2> QED
    BY <2>1, <2>2, <2>3
<1>3. tab' \in [Sessions -> TabStatus] /\ known' \subseteq Sessions
  BY <1>0, <1>1, TablesKeep DEF RolledBack, Stopped, FailedClosed, stored, TypeOK
<1> QED
  BY <1>0, <1>1, <1>2, <1>3, ReturnKeeps, QuietStep DEF RolledBack, Stopped, FailedClosed

\* So do those of an operation, a takeover and a relaunch.
LEMMA WireOperations ==
  ASSUME WireInv, NEW c \in Clients,
         \/ OperationDone(c) \/ OperationUnusable(c) \/ OperationAstray(c) \/ OperationFails(c)
         \/ TakeoverAnswered(c) \/ LaunchAgain(c) \/ Relaunched(c)
  PROVE  WireInv'
<1>0. call[c].pc = "answered"
  BY DEF OperationDone, OperationUnusable, OperationAstray, OperationFails, TakeoverAnswered,
         LaunchAgain, Relaunched, Operating, Final, Lost, Got, At
<1>1. /\ TypeOK /\ Mine(c) \in Sessions /\ call[c].pc # "wait" /\ call[c] \in Call
      /\ rows \in [Sessions -> Row] /\ takeover \subseteq Sessions
      /\ tab \in [Sessions -> TabStatus] /\ known \subseteq Sessions
  BY <1>0, TablesKeep DEF TypeOK
<1>2. /\ {"launch", "close"} \subseteq WireMethods /\ "orphaned" \in Status
      /\ {"failClosed", "relaunch", "retry"} \subseteq Stages
  BY DEF WireMethods, Stages, Status
<1>3. CASE OperationDone(c)
  <2>1. tab' \in [Sessions -> TabStatus]
    BY <1>0, <1>1, <1>3, TablesKeep DEF OperationDone, Persisted
  <2> QED
    BY <1>0, <1>1, <1>3, <2>1, ReturnKeeps, QuietStep DEF OperationDone
<1>4. CASE OperationUnusable(c)
  BY <1>0, <1>1, <1>4, ReturnKeeps, QuietStep DEF OperationUnusable, stored
<1>5. CASE OperationAstray(c)
  BY <1>0, <1>1, <1>2, <1>5, AskKeeps, QuietStep DEF OperationAstray, stored
<1>6. CASE OperationFails(c)
  <2>1. rows' \in [Sessions -> Row] /\ takeover' \subseteq Sessions
    BY <1>1, <1>6, TryMoveTypes DEF OperationFails
  <2> QED
    BY <1>0, <1>1, <1>6, <2>1, ReturnKeeps, QuietStep DEF OperationFails
<1>7. CASE TakeoverAnswered(c)
  <2>1. \/ Move(Mine(c), "orphaned") /\ UNCHANGED tab
        \/ EndTakeover(Mine(c))
        \/ UNCHANGED stored
    BY <1>7 DEF TakeoverAnswered
  <2>2. /\ rows' \in [Sessions -> Row] /\ takeover' \subseteq Sessions
        /\ tab' \in [Sessions -> TabStatus]
    <3>1. CASE Move(Mine(c), "orphaned") /\ UNCHANGED tab
      BY <1>1, <1>2, <3>1, MoveShape
    <3>2. CASE EndTakeover(Mine(c))
      BY <1>1, <3>2 DEF EndTakeover
    <3>3. CASE UNCHANGED stored
      BY <1>1, <3>3 DEF stored
    <3> QED
      BY <2>1, <3>1, <3>2, <3>3
  <2> QED
    BY <1>0, <1>1, <1>7, <2>2, ReturnKeeps, QuietStep DEF TakeoverAnswered
<1>8. CASE LaunchAgain(c)
  BY <1>0, <1>1, <1>2, <1>8, AskKeeps, QuietStep DEF LaunchAgain, stored, Quiet
<1>9. CASE Relaunched(c)
  <2>1. Handled(call[c]) /\ call \in [Clients -> Call]
    BY DEF WireInv, TypeOK
  <2>2. CASE Ask(c, Wire(call[c].method), "retry") /\ AsksAgain(call[c].method)
    <3>1. Wire(call[c].method) \in WireMethods /\ call[c].method \notin Automation
      BY <1>1, <2>2, Constants DEF Call, AsksAgain, IsObservation, Observations, Automation, Visits
    <3> QED
      BY <1>0, <1>1, <1>2, <1>9, <2>2, <3>1, AskKeeps, QuietStep DEF Relaunched, stored, Quiet
  <2>3. CASE call' = [call EXCEPT ![c].stage = "retry",
                        ![c].answer = IF @ = "unavailable" THEN @ ELSE "failed"]
    <3>1. PICK answer \in Answers :
            call' = [call EXCEPT ![c] = [@ EXCEPT !.stage = "retry", !.answer = answer]]
      BY <2>1, <2>3 DEF Call, Answers
    <3>2. /\ [call[c] EXCEPT !.stage = "retry", !.answer = answer] \in Call
          /\ call' = [call EXCEPT ![c] = [call[c] EXCEPT !.stage = "retry", !.answer = answer]]
      BY <1>1, <3>1 DEF Call
    <3>3. call' \in [Clients -> Call] /\ \A d \in Clients \ {c} : call'[d] = call[d]
      BY <2>1, <3>2
    <3>4. /\ call'[c].pc = call[c].pc /\ call'[c].session = call[c].session
          /\ call'[c].ran = call[c].ran
      BY <2>1, <3>2 DEF Call
    <3>5. Handled(call'[c])
      BY <1>0, <2>1, <3>4 DEF Handled
    <3> QED
      BY <1>1, <1>9, <3>3, <3>5, QuietStep DEF Relaunched, stored, Quiet
  <2> QED
    BY <1>9, <2>2, <2>3 DEF Relaunched
<1> QED
  BY <1>3, <1>4, <1>5, <1>6, <1>7, <1>8, <1>9

\* A handler that is answered keeps all but that.
LEMMA AnsweredShape ==
  ASSUME call \in [Clients -> Call], NEW c \in Clients, NEW answer \in Answers,
         call' = Answered(c, answer)
  PROVE  /\ call' \in [Clients -> Call] /\ \A d \in Clients \ {c} : call'[d] = call[d]
         /\ call'[c].pc = "answered" /\ call'[c].method = call[c].method
         /\ call'[c].stage = call[c].stage /\ call'[c].session = call[c].session
         /\ call'[c].ran = call[c].ran /\ call'[c].wire = call[c].wire
<1> DEFINE q == [call[c] EXCEPT !.pc = "answered", !.answer = answer]
<1>1. /\ q \in Call /\ q.pc = "answered" /\ q.method = call[c].method /\ q.wire = call[c].wire
      /\ q.stage = call[c].stage /\ q.session = call[c].session /\ q.ran = call[c].ran
  BY DEF Call
<1>2. call' = [call EXCEPT ![c] = q]
  BY DEF Answered, Call
<1> HIDE DEF q
<1> QED
  BY <1>1, <1>2

\* What is abandoned has no caller, and the rest keeps its own.
LEMMA AbandonedShape ==
  ASSUME requests \subseteq WireRequest, NEW S \in SUBSET Clients
  PROVE  \A r \in Abandoned(S) :
           /\ r \in WireRequest
           /\ r.by = Nobody \/ (r \in requests /\ r.by \notin S)
<1>1. ASSUME NEW r \in requests
      PROVE  [r EXCEPT !.by = Nobody] \in WireRequest /\ [r EXCEPT !.by = Nobody].by = Nobody
  BY DEF WireRequest
<1> QED
  BY <1>1 DEF Abandoned

\* Requests whose callers have not moved are awaited as before.
LEMMA StillAwaited ==
  ASSUME WireInv, NEW r, r \in requests, r.by \in Clients => call'[r.by] = call[r.by]
  PROVE  Awaited(r, call')
  BY DEF WireInv, TypeOK, WireRequest, Awaited

\* A request that is sent is awaited by its sender.
LEMMA WireSend ==
  ASSUME WireInv, NEW c \in Clients, Send(c)
  PROVE  WireInv'
<1> DEFINE new == [wire |-> call[c].wire, session |-> Mine(c), by |-> c]
           q == [call[c] EXCEPT !.pc = "wait"]
<1>1. /\ TypeOK /\ Handled(call[c]) /\ call[c].pc = "send" /\ call[c] \in Call
      /\ c # Nobody
  BY NullAssumption DEF WireInv, TypeOK, Send, At
<1>2. /\ q \in Call /\ q.pc = "wait" /\ q.wire = call[c].wire /\ q.session = call[c].session
      /\ q.method = call[c].method /\ q.ran = call[c].ran
  BY <1>1 DEF Call
<1>3. call' = [call EXCEPT ![c] = q]
  BY <1>1 DEF Send, TypeOK
<1> HIDE DEF q
<1>4. /\ call' \in [Clients -> Call] /\ call'[c] = q
      /\ \A d \in Clients \ {c} : call'[d] = call[d]
  BY <1>1, <1>2, <1>3 DEF TypeOK
<1>5. new \in WireRequest /\ new.by = c /\ new.wire = call[c].wire /\ new.session = call[c].session
  BY <1>1 DEF WireRequest, Handled, Mine, Call
<1>6. requests' = requests \cup {new}
  BY DEF Send
<1> HIDE DEF new
<1>7. TypeOK'
  BY <1>1, <1>4, <1>5, <1>6 DEF Send, TypeOK, stored
<1>8. \A d \in Clients : Handled(call'[d])
  BY <1>1, <1>2, <1>4 DEF WireInv, Handled
<1>9. ASSUME NEW r \in requests'
      PROVE  Awaited(r, call')
  <2>1. CASE r = new
    BY <1>1, <1>2, <1>4, <1>5, <2>1 DEF Awaited, Handled, Automating
  <2>2. CASE r \in requests
    <3>1. r.by # c
      BY <1>1, <2>2 DEF WireInv, Awaited
    <3> QED
      BY <1>4, <2>2, <3>1, StillAwaited
  <2> QED
    BY <1>6, <2>1, <2>2
<1> QED
  BY <1>7, <1>8, <1>9 DEF WireInv

\* A request that could not be sent, and one that took too long, have an answer.
LEMMA WireFails ==
  ASSUME WireInv, NEW c \in Clients, NEW answer \in {"exited", "failed", "unavailable"},
         SendFails(c, answer) \/ (TimeOut(c) /\ answer = "failed")
  PROVE  WireInv'
<1>1. TypeOK /\ Handled(call[c]) /\ call[c].pc # "idle" /\ answer \in Answers
  BY DEF WireInv, SendFails, TimeOut, At, Answers
<1>2. /\ call' \in [Clients -> Call] /\ \A d \in Clients \ {c} : call'[d] = call[d]
      /\ call'[c].pc = "answered" /\ call'[c].session = call[c].session
      /\ call'[c].ran = call[c].ran
  BY <1>1, AnsweredShape DEF SendFails, TimeOut, TypeOK
<1>3. \A d \in Clients : Handled(call'[d])
  BY <1>1, <1>2 DEF WireInv, Handled
<1>4. \A r \in requests' :
        r \in WireRequest /\ (r.by = Nobody \/ (r \in requests /\ r.by # c))
  <2>1. CASE SendFails(c, answer)
    BY <1>1, <2>1 DEF SendFails, WireInv, TypeOK, Awaited, At
  <2>2. CASE TimeOut(c)
    BY <1>1, <2>2, AbandonedShape DEF TimeOut, TypeOK
  <2> QED
    BY <2>1, <2>2
<1>5. TypeOK'
  BY <1>1, <1>2, <1>4 DEF SendFails, TimeOut, TypeOK, stored, process
<1>6. \A r \in requests' : Awaited(r, call')
  BY <1>2, <1>4, StillAwaited DEF Awaited
<1> QED
  BY <1>3, <1>5, <1>6 DEF WireInv

\* The death of the process takes the requests along; its reader answers for it.
LEMMA WireDeath ==
  ASSUME WireInv, ServiceDies \/ ReaderDrains
  PROVE  WireInv'
<1>1. TypeOK
  BY DEF WireInv
<1>2. CASE ServiceDies
  <2>1. deaths' \in 0..MaxDeaths
    BY <1>1, <1>2, BoundAssumption DEF ServiceDies, TypeOK
  <2>2. /\ requests' = {} /\ UNCHANGED <<rows, takeover, tab, known, call, restarts>>
        /\ service' = "down" /\ draining' = TRUE /\ live' = {} /\ paused' = {}
    BY <1>2 DEF ServiceDies, stored
  <2>3. TypeOK'
    BY <1>1, <2>1, <2>2 DEF TypeOK
  <2> QED
    BY <2>2, <2>3 DEF WireInv
<1>3. CASE ReaderDrains
  <2> DEFINE waiting == {c \in Clients : At(c, "wait")}
  <2>1. ASSUME NEW c \in Clients
        PROVE  /\ call'[c] \in Call /\ Handled(call'[c])
               /\ c \notin waiting => call'[c] = call[c]
    <3> DEFINE q == [call[c] EXCEPT !.pc = "answered", !.answer = "exited"]
    <3>1. call[c] \in Call /\ Handled(call[c])
      BY <1>1 DEF TypeOK, WireInv
    <3>2. q \in Call /\ q.pc = "answered" /\ q.session = call[c].session /\ q.ran = call[c].ran
      BY <3>1 DEF Call, Answers
    <3>3. call'[c] = IF c \in waiting THEN q ELSE call[c]
      BY <1>3 DEF ReaderDrains
    <3> HIDE DEF q
    <3>4. c \in waiting => call[c].pc = "wait"
      BY DEF At
    <3> HIDE DEF waiting
    <3> QED
      BY <3>1, <3>2, <3>3, <3>4 DEF Handled
  <2>2. call' \in [Clients -> Call]
    <3>1. call' = [c \in Clients |-> call'[c]]
      BY <1>3 DEF ReaderDrains
    <3> QED
      BY <2>1, <3>1
  <2>3. \A r \in requests' :
          r \in WireRequest /\ (r.by = Nobody \/ (r \in requests /\ r.by \notin waiting))
    BY <1>1, <1>3, AbandonedShape DEF ReaderDrains, TypeOK
  <2> HIDE DEF waiting
  <2>4. TypeOK'
    BY <1>1, <1>3, <2>2, <2>3 DEF ReaderDrains, TypeOK, stored
  <2>5. \A r \in requests' : Awaited(r, call')
    BY <2>1, <2>3, StillAwaited DEF Awaited
  <2> QED
    BY <2>1, <2>4, <2>5 DEF WireInv
<1> QED
  BY <1>2, <1>3

\* What the service carries out: nothing that another request has still to do, and
\* what a handler automates once.
LEMMA WireExecute ==
  ASSUME WireInv, NEW r \in requests, NEW outcome \in Outcomes(r), Execute(r, outcome)
  PROVE  WireInv'
<1>1. TypeOK /\ r \in WireRequest /\ Awaited(r, call) /\ outcome \in Answers
  BY DEF WireInv, TypeOK, Outcomes, Done, Answers
<1>2. live' \subseteq Sessions /\ paused' \subseteq live'
  <2>1. r.session \in Sessions /\ r.wire \in WireMethods
    BY <1>1 DEF WireRequest
  <2>2. outcome \in Done /\ r.wire \notin {"launch", "close"} => r.session \in live
    <3> SUFFICES ASSUME outcome \in Done, r.wire \notin {"launch", "close"}, r.session \notin live
                 PROVE  FALSE
      OBVIOUS
    <3>1. Outcomes(r) = {"notRunning"}
      BY DEF Outcomes
    <3> QED
      BY <3>1 DEF Done
  <2> QED
    BY <1>1, <2>1, <2>2 DEF Execute, Carried, TypeOK
<1>3. CASE r.by = Nobody
  <2>1. call' = call /\ requests' \subseteq requests
    BY <1>3 DEF Execute
  <2>2. TypeOK'
    BY <1>1, <1>2, <2>1 DEF Execute, TypeOK, stored
  <2> QED
    BY <2>1, <2>2 DEF WireInv
<1>4. CASE r.by # Nobody
  <2> DEFINE c == r.by
             n == call[c].ran + Automated(r, outcome)
  <2>1. /\ c \in Clients /\ call[c] \in Call /\ Handled(call[c]) /\ call[c].pc = "wait"
        /\ r.wire = call[c].wire /\ r.session = call[c].session
        /\ Automating(call[c]) => call[c].ran = 0
    BY <1>1, <1>4 DEF Awaited, WireRequest, WireInv, TypeOK
  <2>2. n \in 0..1
    BY <2>1 DEF Automated, Automating, Handled, Call
  <2>3. PICK pc \in {"wait", "answered"}, answer \in Answers :
          call' = [call EXCEPT ![c] = [call[c] EXCEPT !.ran = n, !.pc = pc, !.answer = answer]]
    <3>1. PICK written \in BOOLEAN :
            call' = [call EXCEPT ![c].ran = n,
                                 ![c].pc = IF written THEN "answered" ELSE @,
                                 ![c].answer = IF written THEN outcome ELSE @]
      BY <1>4 DEF Execute
    <3> DEFINE pc == IF written THEN "answered" ELSE "wait"
               answer == IF written THEN outcome ELSE call[c].answer
    <3>2. pc \in {"wait", "answered"} /\ answer \in Answers
      BY <1>1, <2>1 DEF Call
    <3>3. call' = [call EXCEPT ![c] = [call[c] EXCEPT !.ran = n, !.pc = pc, !.answer = answer]]
      BY <1>1, <2>1, <3>1 DEF TypeOK, Call
    <3> QED
      BY <3>2, <3>3
  <2> DEFINE q == [call[c] EXCEPT !.ran = n, !.pc = pc, !.answer = answer]
  <2> HIDE DEF n
  <2>4. q \in Call /\ q.pc = pc /\ q.session = call[c].session /\ q.ran = n
    <3> DEFINE x == call[c]
               z == [x EXCEPT !.pc = pc, !.answer = answer]
    <3>1. x \in Call /\ n \in 0..2
      BY <2>1, <2>2
    <3> HIDE DEF x
    <3>2. z \in Call /\ z.pc = pc /\ z.session = x.session
      BY <3>1 DEF Call
    <3>3. [x EXCEPT !.ran = n, !.pc = pc, !.answer = answer] = [z EXCEPT !.ran = n]
      BY <3>1 DEF Call
    <3> HIDE DEF z
    <3>4. /\ [z EXCEPT !.ran = n] \in Call /\ [z EXCEPT !.ran = n].pc = pc
          /\ [z EXCEPT !.ran = n].session = x.session /\ [z EXCEPT !.ran = n].ran = n
      BY <3>1, <3>2 DEF Call
    <3>5. q = [z EXCEPT !.ran = n]
      BY <3>3 DEF x
    <3> QED
      BY <3>4, <3>5 DEF x
  <2>5. call' = [call EXCEPT ![c] = q]
    BY <2>3
  <2> HIDE DEF q
  <2>6. call' \in [Clients -> Call] /\ call'[c] = q /\ \A d \in Clients \ {c} : call'[d] = call[d]
    BY <1>1, <2>1, <2>4, <2>5 DEF TypeOK
  <2>7. \A d \in Clients : Handled(call'[d])
    BY <2>1, <2>2, <2>4, <2>6 DEF WireInv, Handled
  <2>8. ASSUME NEW x \in requests'
        PROVE  Awaited(x, call')
    <3>1. x \in requests /\ x # r /\ x \in WireRequest
      BY <1>1 DEF Execute, TypeOK
    <3>2. x.by # c
      BY <1>1, <1>4, <2>1, <3>1 DEF WireInv, Awaited, WireRequest
    <3> QED
      BY <2>6, <3>1, <3>2, StillAwaited
  <2>9. TypeOK'
    BY <1>1, <1>2, <2>6 DEF Execute, TypeOK, stored
  <2> QED
    BY <2>7, <2>8, <2>9 DEF WireInv
<1> QED
  BY <1>3, <1>4

\* The core starts again with nothing under way.
LEMMA WireRestart ==
  ASSUME WireInv, Restart
  PROVE  WireInv'
<1>1. Idle \in Call /\ Handled(Idle)
  BY DEF Idle, Call, Methods, WireMethods, Answers, Handled, Automating
<1>2. TypeOK /\ restarts' \in 0..MaxRestarts
  BY BoundAssumption DEF WireInv, Restart, TypeOK
<1>3. rows' \in [Sessions -> Row] /\ takeover' = {} /\ tab' = tab
  BY <1>2 DEF Restart, Recovered, TypeOK, Row, Status, ActiveStatus, ProfileStatus
<1>4. /\ call' = [c \in Clients |-> Idle] /\ requests' = {} /\ known' = {}
      /\ service' = "down" /\ draining' = FALSE /\ live' = {} /\ paused' = {} /\ deaths' = deaths
  BY DEF Restart
<1>5. TypeOK'
  BY <1>1, <1>2, <1>3, <1>4 DEF TypeOK
<1> QED
  BY <1>1, <1>4, <1>5 DEF WireInv

\* Types and requests are in order.
LEMMA WireInvariance == Spec => []WireInv
<1>1. Init => WireInv
  <2>1. Idle \in Call /\ Handled(Idle)
    BY DEF Idle, Call, Methods, WireMethods, Answers, Handled, Automating
  <2>2. NoRow \in Row /\ "none" \in TabStatus
    BY DEF NoRow, Row, Status, ProfileStatus, TabStatus
  <2>3. 0 \in 0..MaxDeaths /\ 0 \in 0..MaxRestarts
    BY BoundAssumption
  <2>4. Init => TypeOK
    BY <2>1, <2>2, <2>3 DEF Init, TypeOK
  <2> QED
    BY <2>1, <2>4 DEF Init, WireInv
<1>2. WireInv /\ [Next]_vars => WireInv'
  <2> SUFFICES ASSUME WireInv, [Next]_vars
               PROVE  WireInv'
    OBVIOUS
  <2>1. ASSUME NEW c \in Clients, NEW s \in Sessions, Calls(c, s)
        PROVE  WireInv'
    BY <2>1, WireCalls
  <2>2. ASSUME NEW c \in Clients, Continues(c)
        PROVE  WireInv'
    BY <2>2, WireSend, WireFails, WireNotes, WireLaunches, WireEnds, WireOperations DEF Continues
  <2>3. ASSUME NEW c \in Clients, TimeOut(c)
        PROVE  WireInv'
    BY <2>3, WireFails
  <2>4. ASSUME NEW r \in requests, NEW outcome \in Outcomes(r), Execute(r, outcome)
        PROVE  WireInv'
    BY <2>4, WireExecute
  <2>5. CASE UNCHANGED vars
    BY <2>5 DEF vars, WireInv, TypeOK, Awaited
  <2> QED
    BY <2>1, <2>2, <2>3, <2>4, <2>5, WireDeath, WireRestart DEF Next
<1> QED
  BY <1>1, <1>2, PTL DEF Spec

\* The types of all variables.
THEOREM Types == Spec => []TypeOK
<1>1. WireInv => TypeOK
  BY DEF WireInv
<1> QED
  BY <1>1, WireInvariance, PTL

\* "Retry the operation to avoid duplicate automation": however the service dies,
\* is late or is started again, one call never automates twice.
THEOREM NotRepeated == Spec => []AutomationIsNotRepeated
<1>1. WireInv => AutomationIsNotRepeated
  BY DEF WireInv, Handled, AutomationIsNotRepeated
<1> QED
  BY <1>1, WireInvariance, PTL

-----------------------------------------------------------------------------
(***************************************************************************)
(* The tables.                                                             *)
(***************************************************************************)

\* What a step may do to the tables of sessions, profiles and takeovers.
TableStep ==
  \/ UNCHANGED <<rows, takeover>>
  \/ \E s \in Sessions :
       \/ \E to \in {"running", "stopping", "stopped", "failed", "orphaned"} :
            Permits(rows[s].status, to) /\ Move(s, to)
       \/ InsertSession(s) \/ InsertTakeover(s) \/ EndTakeover(s)
  \/ Recovered

\* An attempt at a move is one of them.
LEMMA TryMoveIsStep ==
  ASSUME NEW s \in Sessions, NEW to \in {"stopped", "failed", "orphaned"}, TryMove(s, to)
  PROVE  TableStep
  BY DEF TryMove, TableStep

\* A handler that works has a session.
LEMMA MineIsSession ==
  ASSUME WireInv, NEW c \in Clients, call[c].pc # "idle"
  PROVE  Mine(c) \in Sessions
  BY DEF WireInv, Handled, Mine

\* There are no others.
LEMMA TableSteps ==
  ASSUME WireInv, [Next]_vars
  PROVE  TableStep
<1>1. ASSUME NEW c \in Clients, NEW s \in Sessions, Calls(c, s)
      PROVE  TableStep
  BY <1>1 DEF Calls, StartSession, StopSession, CallOperation, TakeoverStart, TakeoverStop,
              stored, TableStep
<1>2. ASSUME NEW c \in Clients, Continues(c)
      PROVE  TableStep
  <2>1. CASE \/ Send(c) \/ \E answer \in {"exited", "failed", "unavailable"} : SendFails(c, answer)
             \/ LaunchAgain(c) \/ Relaunched(c) \/ LaunchedTooLate(c) \/ RolledBack(c)
             \/ Remember(c) \/ Forget(c)
             \/ OperationDone(c) \/ OperationUnusable(c) \/ OperationAstray(c)
    BY <2>1 DEF Send, SendFails, LaunchAgain, Relaunched, LaunchedTooLate, RolledBack,
                Remember, Forget, Noted, OperationDone, OperationUnusable, OperationAstray, stored, TableStep
  <2>2. CASE Launched(c) \/ LaunchedAstray(c)
    BY <2>2, MineIsSession DEF Launched, LaunchedAstray, Returned, At, TableStep
  <2>3. CASE LaunchedNameless(c) \/ LaunchFails(c) \/ Stopped(c) \/ FailedClosed(c)
    <3>1. call[c].pc # "idle"
      BY <2>3 DEF LaunchedNameless, LaunchFails, Stopped, FailedClosed, Closed, Returned, Got, At
    <3> QED
      BY <2>3, <3>1, MineIsSession, TryMoveIsStep
         DEF LaunchedNameless, LaunchFails, Stopped, FailedClosed
  <2>4. CASE OperationFails(c)
    <3>1. call[c].pc # "idle"
      BY <2>4 DEF OperationFails, Operating, Final, At
    <3>2. CASE TryMove(Mine(c), "orphaned")
      BY <3>1, <3>2, MineIsSession, TryMoveIsStep
    <3>3. CASE UNCHANGED <<rows, takeover>>
      BY <3>3 DEF TableStep
    <3> QED
      BY <2>4, <3>2, <3>3 DEF OperationFails
  <2>5. CASE TakeoverAnswered(c)
    <3>1. call[c].pc # "idle"
      BY <2>5 DEF TakeoverAnswered, Final, At
    <3>2. \/ Permits(rows[Mine(c)].status, "orphaned") /\ Move(Mine(c), "orphaned")
          \/ EndTakeover(Mine(c))
          \/ UNCHANGED stored
      BY <2>5 DEF TakeoverAnswered
    <3> QED
      BY <3>1, <3>2, MineIsSession DEF TableStep, stored
  <2> QED
    BY <1>2, <2>1, <2>2, <2>3, <2>4, <2>5 DEF Continues
<1>3. ASSUME NEW c \in Clients, TimeOut(c)
      PROVE  TableStep
  BY <1>3 DEF TimeOut, stored, TableStep
<1>4. ASSUME NEW r \in requests, NEW outcome \in Outcomes(r), Execute(r, outcome)
      PROVE  TableStep
  BY <1>4 DEF Execute, stored, TableStep
<1>5. CASE ServiceDies \/ ReaderDrains \/ Restart \/ UNCHANGED vars
  BY <1>5 DEF ServiceDies, ReaderDrains, Restart, vars, stored, TableStep
<1> QED
  BY <1>1, <1>2, <1>3, <1>4, <1>5 DEF Next

\* The tables agree after each of these steps.
LEMMA AgreeStep ==
  ASSUME TypeOK, TablesAgree, TableStep
  PROVE  TablesAgree'
<1>0. rows \in [Sessions -> Row] /\ takeover \subseteq Sessions
  BY DEF TypeOK
<1>1. CASE UNCHANGED <<rows, takeover>>
  BY <1>1 DEF TablesAgree
<1>2. ASSUME NEW s \in Sessions, NEW to \in {"running", "stopping", "stopped", "failed", "orphaned"},
             Permits(rows[s].status, to), Move(s, to)
      PROVE  TablesAgree'
  <2>1. /\ takeover' \subseteq takeover
        /\ \A u \in Sessions \ {s} : rows'[u] = rows[u]
        /\ rows'[s].status = to
        /\ rows'[s].profile = IF to \in {"stopped", "failed"} THEN "free" ELSE rows[s].profile
        /\ to \in {"stopped", "failed", "orphaned"} => s \notin takeover'
    BY <1>0, <1>2, MoveShape, Constants
  <2> QED
    BY <1>2, <2>1 DEF TablesAgree, Permits, ActiveStatus
<1>3. ASSUME NEW s \in Sessions, InsertSession(s)
      PROVE  TablesAgree'
  BY <1>0, <1>3 DEF InsertSession, TablesAgree, ActiveStatus, NoRow
<1>4. ASSUME NEW s \in Sessions, InsertTakeover(s) \/ EndTakeover(s)
      PROVE  TablesAgree'
  BY <1>4 DEF InsertTakeover, EndTakeover, TablesAgree
<1>5. CASE Recovered
  BY <1>5 DEF Recovered, TablesAgree, ActiveStatus
<1> QED
  BY <1>1, <1>2, <1>3, <1>4, <1>5 DEF TableStep

\* A takeover does not outlast its session, and a profile is in use as long as its
\* session: the tables agree whichever handler, failure or restart ends it.
THEOREM Agreement == Spec => []TablesAgree
<1>1. Init => TablesAgree
  BY DEF Init, NoRow, TablesAgree, ActiveStatus
<1>2. WireInv /\ TablesAgree /\ [Next]_vars => TablesAgree'
  BY TableSteps, AgreeStep DEF WireInv
<1> QED
  BY <1>1, <1>2, WireInvariance, PTL DEF Spec


-----------------------------------------------------------------------------
(***************************************************************************)
(* What runs can be launched again.                                        *)
(***************************************************************************)

\* No session comes back from its end, and one that was launched does not run
\* without its launch.
Keeps ==
  \A s \in Sessions :
    /\ Over(rows[s]) => Over(rows'[s])
    /\ rows[s].status \notin {"none", "running"} => rows'[s].status \notin {"none", "running"}
    /\ rows'[s].status = "running" => rows[s].status = "running"
    /\ rows'[s].status = "starting" => rows[s].status = "starting"
    /\ Ran(rows[s]) => Ran(rows'[s])

\* That is so of every move but the one to running.
LEMMA MovesKeep ==
  ASSUME TypeOK,
         \/ UNCHANGED rows
         \/ \E s \in Sessions, to \in {"stopping", "stopped", "failed", "orphaned"} :
              \/ Permits(rows[s].status, to) /\ Move(s, to)
              \/ TryMove(s, to)
  PROVE  Keeps
<1>1. CASE UNCHANGED rows
  BY <1>1 DEF Keeps
<1>2. ASSUME NEW s \in Sessions, NEW to \in {"stopping", "stopped", "failed", "orphaned"},
             Permits(rows[s].status, to), Move(s, to)
      PROVE  Keeps
  <2>1. /\ \A u \in Sessions \ {s} : rows'[u] = rows[u]
        /\ rows'[s].status = to
    BY <1>2, MoveShape, Constants DEF TypeOK
  <2> QED
    BY <1>2, <2>1 DEF Keeps, Over, Ran
<1> QED
  BY <1>1, <1>2 DEF TryMove

\* The property, as the proofs use it.
LEMMA RunsKnown ==
  ASSUME LaunchInv, NEW s \in Sessions, rows[s].status = "running"
  PROVE  s \in known \/ \E c \in Clients : Failing(call[c], s)
  BY DEF LaunchInv, RunningSessionsCanBeRelaunched, Failing, Returned, At, Mine

\* And as they prove it of the next state.
LEMMA RunsKnownNext ==
  ASSUME \A s \in Sessions : rows'[s].status = "running" =>
           s \in known' \/ \E c \in Clients : Failing(call'[c], s)
  PROVE  RunningSessionsCanBeRelaunched'
  BY DEF RunningSessionsCanBeRelaunched, Failing, Returned, At, Mine

\* A step of one handler that launches nothing new and makes nothing run keeps the
\* invariant, if the handler and what it was to fail are in order.
LEMMA LaunchKind ==
  ASSUME WireInv, LaunchInv, NEW c \in Clients, Keeps, known' = known,
         \A d \in Clients \ {c} : call'[d] = call[d],
         Placed(call'[c], rows'), call'[c].pc # "noted",
         Launches(call'[c]) => Launches(call[c]) /\ call'[c].session = call[c].session,
         \A s \in Sessions : Failing(call[c], s) => rows'[s].status # "running"
  PROVE  LaunchInv'
<1>1. ASSUME NEW d \in Clients
      PROVE  Placed(call'[d], rows') /\ Kept(call'[d], rows', known')
  <2>1. call[d].pc # "idle" => call[d].session \in Sessions
    BY DEF WireInv, Handled
  <2>2. Placed(call[d], rows) /\ Kept(call[d], rows, known)
    BY DEF LaunchInv
  <2>3. CASE d = c
    BY <2>3 DEF Kept
  <2>4. CASE d # c
    <3>1. call'[d] = call[d]
      BY <2>4
    <3>2. Placed(call[d], rows')
      BY <2>1, <2>2 DEF Placed, Keeps
    <3>3. Kept(call[d], rows', known')
      BY <2>1, <2>2 DEF Kept, Keeps, Launches
    <3> QED
      BY <3>1, <3>2, <3>3
  <2> QED
    BY <2>3, <2>4
<1>2. ASSUME NEW d \in Clients, NEW e \in Clients, Launches(call'[d]), Launches(call'[e]),
             call'[d].session = call'[e].session
      PROVE  d = e
  <2>1. /\ Launches(call[d]) /\ Launches(call[e])
        /\ call'[d].session = call[d].session /\ call'[e].session = call[e].session
    BY <1>2
  <2> QED
    BY <1>2, <2>1 DEF LaunchInv
<1>3. ASSUME NEW s \in Sessions, rows'[s].status = "running"
      PROVE  s \in known' \/ \E d \in Clients : Failing(call'[d], s)
  <2>1. s \in known \/ \E d \in Clients : Failing(call[d], s)
    BY <1>3, RunsKnown DEF Keeps
  <2> QED
    BY <1>3, <2>1
<1> QED
  BY <1>1, <1>2, <1>3, RunsKnownNext DEF LaunchInv

\* Nor is anything launched by what only sends and answers.
LEMMA AnswersKeep ==
  ASSUME WireInv, LaunchInv, UNCHANGED <<rows, known>>,
         \A d \in Clients :
           /\ call'[d].pc # "idle" => call[d].pc # "idle"
           /\ call'[d].method = call[d].method /\ call'[d].stage = call[d].stage
           /\ call'[d].session = call[d].session /\ call'[d].wire = call[d].wire
           /\ call[d].pc = "noted" \/ call'[d].pc = "noted" => call'[d] = call[d]
  PROVE  LaunchInv'
<1>1. ASSUME NEW d \in Clients
      PROVE  /\ Placed(call[d], rows) => Placed(call'[d], rows')
             /\ Launches(call'[d]) => Launches(call[d])
             /\ Kept(call[d], rows, known) => Kept(call'[d], rows', known')
  BY DEF Placed, Launches, Kept
<1>2. ASSUME NEW s \in Sessions, rows'[s].status = "running"
      PROVE  s \in known' \/ \E d \in Clients : Failing(call'[d], s)
  <2>1. s \in known \/ \E d \in Clients : Failing(call[d], s)
    BY <1>2, RunsKnown
  <2> QED
    BY <2>1 DEF Failing
<1> QED
  BY <1>1, <1>2, RunsKnownNext DEF LaunchInv

\* A call takes a row of its own, ends a session, or starts on neither.
LEMMA LaunchCalls ==
  ASSUME WireInv, LaunchInv, NEW c \in Clients, NEW s \in Sessions, Calls(c, s)
  PROVE  LaunchInv'
<1>0. TypeOK /\ call \in [Clients -> Call] /\ rows \in [Sessions -> Row]
  BY DEF WireInv, TypeOK
<1>1. ASSUME NEW m \in Methods, Begin(c, m, s)
      PROVE  /\ \A d \in Clients \ {c} : call'[d] = call[d]
             /\ call'[c].pc = "send" /\ call'[c].stage = "first" /\ call'[c].method = m
             /\ call'[c].session = s /\ call'[c].wire = Wire(m)
  BY <1>0, <1>1, BeginShape
<1>6. call[c].pc = "idle"
  BY DEF Calls, StartSession, StopSession, CallOperation, TakeoverStart, TakeoverStop, Serves, At
<1>2. CASE StartSession(c, s)
  <2>1. /\ \A d \in Clients \ {c} : call'[d] = call[d]
        /\ call'[c].stage = "first" /\ call'[c].method = "session.start" /\ call'[c].session = s
        /\ call'[c].wire # "close" /\ call'[c].pc = "send"
    <3>1. PICK m \in Methods : m = "session.start" /\ Begin(c, m, s)
      BY <1>2 DEF StartSession, Methods
    <3>2. Wire(m) # "close"
      BY <3>1 DEF Wire, Visits
    <3>3. /\ \A d \in Clients \ {c} : call'[d] = call[d]
          /\ call'[c].pc = "send" /\ call'[c].stage = "first"
          /\ call'[c].method = m /\ call'[c].session = s
          /\ call'[c].wire = Wire(m)
      BY <1>1, <3>1
    <3> QED
      BY <3>1, <3>2, <3>3
  <2>2. /\ rows[s].status = "none" /\ rows'[s].status = "starting" /\ known' = known
        /\ \A u \in Sessions \ {s} : rows'[u] = rows[u]
    BY <1>0, <1>2 DEF StartSession, InsertSession, NoRow
  <2>3. ASSUME NEW d \in Clients \ {c}
        PROVE  /\ Placed(call'[d], rows') /\ Kept(call'[d], rows', known')
               /\ Launches(call'[d]) => call'[d].session # s
    <3>1. /\ Placed(call[d], rows) /\ (call[d].pc # "idle" => call[d].session \in Sessions)
          /\ Kept(call[d], rows, known)
      BY DEF LaunchInv, WireInv, Handled
    <3>2. Launches(call[d]) => call[d].session # s
      BY <2>2, <3>1 DEF Placed, Launches
    <3>3. Placed(call[d], rows')
      BY <2>2, <3>1 DEF Placed, Over, Ran
    <3>4. Kept(call[d], rows', known')
      BY <2>2, <3>1, <3>2 DEF Kept, Launches
    <3> QED
      BY <2>1, <3>2, <3>3, <3>4
  <2>4. Placed(call'[c], rows') /\ Kept(call'[c], rows', known')
    BY <2>1, <2>2 DEF Placed, Kept, Operations, Observations, Automation, Visits
  <2>5. RunningSessionsCanBeRelaunched'
    <3>1. ASSUME NEW u \in Sessions, rows'[u].status = "running"
          PROVE  u \in known' \/ \E d \in Clients : Failing(call'[d], u)
      <4>1. u \in known \/ \E d \in Clients : Failing(call[d], u)
        BY <2>2, <3>1, RunsKnown
      <4> QED
        BY <1>6, <2>1, <2>2, <4>1 DEF Failing
    <3> QED
      BY <3>1, RunsKnownNext
  <2>6. ASSUME NEW d \in Clients, NEW e \in Clients, Launches(call'[d]), Launches(call'[e]),
               call'[d].session = call'[e].session
        PROVE  d = e
    <3>1. CASE d = c \/ e = c
      BY <2>1, <2>3, <2>6, <3>1
    <3>2. CASE d # c /\ e # c
      BY <2>1, <2>6, <3>2 DEF LaunchInv
    <3> QED
      BY <3>1, <3>2
  <2> QED
    BY <2>3, <2>4, <2>5, <2>6 DEF LaunchInv
<1>3. CASE StopSession(c, s)
  <2>1. /\ Keeps /\ known' = known /\ rows'[s].status = "stopping"
    BY <1>0, <1>3, MovesKeep, MoveShape, Constants DEF StopSession, TypeOK
  <2>2. /\ \A d \in Clients \ {c} : call'[d] = call[d]
        /\ call'[c].method = "session.stop" /\ call'[c].session = s
        /\ call'[c].pc = "send" /\ call'[c].stage = "first"
    BY <1>1, <1>3 DEF StopSession, Methods
  <2>3. Placed(call'[c], rows') /\ ~Launches(call'[c])
    BY <2>1, <2>2 DEF Placed, Launches, Over, Operations, Observations, Automation, Visits
  <2>4. \A u \in Sessions : ~Failing(call[c], u)
    BY <1>6 DEF Failing
  <2> QED
    BY <2>1, <2>2, <2>3, <2>4, LaunchKind
<1>4. ASSUME NEW m \in Operations \cup Takeovers, Begin(c, m, s), UNCHANGED <<rows, known>>,
             m \in Operations => rows[s].status = "running"
      PROVE  LaunchInv'
  <2>1. m \in Methods /\ m \notin {"session.start", "session.stop"}
    BY DEF Methods, Operations, Takeovers, Observations, Automation, Visits
  <2>2. /\ \A d \in Clients \ {c} : call'[d] = call[d]
        /\ call'[c].method = m /\ call'[c].stage = "first" /\ call'[c].session = s
        /\ call'[c].pc = "send" /\ call'[c].wire = Wire(m)
    BY <1>1, <1>4, <2>1
  <2>3. Keeps
    BY <1>0, <1>4, MovesKeep
  <2>4. Wire(m) # "close"
    BY <2>1 DEF Wire
  <2>5. Placed(call'[c], rows') /\ ~Launches(call'[c])
    BY <1>4, <2>1, <2>2, <2>4 DEF Placed, Launches, Ran
  <2>6. \A u \in Sessions : ~Failing(call[c], u)
    BY <1>6 DEF Failing
  <2> QED
    BY <1>4, <2>2, <2>3, <2>5, <2>6, LaunchKind
<1>5. \/ StartSession(c, s) \/ StopSession(c, s)
      \/ \E m \in Operations \cup Takeovers :
           Begin(c, m, s) /\ UNCHANGED <<rows, known>>
           /\ (m \in Operations => rows[s].status = "running")
  <2>1. "takeover.start" \notin Operations /\ "takeover.stop" \notin Operations
    BY DEF Operations, Observations, Automation, Visits
  <2> QED
    BY <2>1 DEF Calls, CallOperation, TakeoverStart, TakeoverStop, InsertTakeover, stored, Takeovers
<1> QED
  BY <1>2, <1>3, <1>4, <1>5

\* What the client of the service remembers or forgets when a request returns: a
\* launch is remembered, and nothing that is forgotten is yet to run.
LEMMA LaunchNotes ==
  ASSUME WireInv, LaunchInv, NEW c \in Clients, Remember(c) \/ Forget(c)
  PROVE  LaunchInv'
<1> DEFINE s == call[c].session
<1>0. /\ call \in [Clients -> Call] /\ rows' = rows /\ s \in Sessions /\ Mine(c) = s
      /\ call[c].pc = "answered" /\ Placed(call[c], rows) /\ Noted(c)
  BY DEF WireInv, TypeOK, Handled, Mine, LaunchInv, Remember, Forget, Noted, stored, Got, At
<1>1. /\ \A d \in Clients \ {c} : call'[d] = call[d]
      /\ call'[c].pc = "noted" /\ call'[c].wire = call[c].wire
      /\ call'[c].stage = call[c].stage /\ call'[c].answer = call[c].answer
      /\ call'[c].method = call[c].method /\ call'[c].session = s
  BY <1>0, NotedShape
<1>2. \A d \in Clients : /\ Placed(call'[d], rows')
                         /\ Launches(call'[d]) => Launches(call[d])
                         /\ call'[d].session = call[d].session
  BY <1>0, <1>1 DEF LaunchInv, Placed, Launches
<1>3. \/ known' = known \cup {s}
      \/ /\ known' = known \ {s} /\ rows[s].status # "starting"
         /\ rows[s].status = "running" => call[c].stage = "failClosed" /\ call[c].answer = "ok"
  <2>1. CASE Remember(c)
    BY <1>0, <2>1 DEF Remember, Remembered
  <2>2. CASE Forget(c)
    BY <1>0, <2>2 DEF Forget, Got, Placed, Over, Ran
  <2> QED
    BY <2>1, <2>2
<1>4. ASSUME NEW d \in Clients
      PROVE  Kept(call'[d], rows', known')
  <2>1. Kept(call[d], rows, known)
    BY DEF LaunchInv
  <2>2. CASE d = c
    <3>1. s \in known' \/ rows[s].status # "starting"
      BY <1>3
    <3> QED
      BY <1>0, <1>1, <2>2, <3>1 DEF Kept
  <2>3. CASE d # c
    BY <1>0, <1>1, <1>3, <2>1, <2>3 DEF Kept
  <2> QED
    BY <2>2, <2>3
<1>5. ASSUME NEW u \in Sessions, rows'[u].status = "running"
      PROVE  u \in known' \/ \E d \in Clients : Failing(call'[d], u)
  <2>1. u \in known \/ \E d \in Clients : Failing(call[d], u)
    BY <1>0, <1>5, RunsKnown
  <2>2. CASE u \in known /\ u # s
    BY <1>3, <2>2
  <2>3. CASE u \in known /\ u = s
    <3>1. s \in known' \/ Failing(call'[c], s)
      BY <1>0, <1>1, <1>3, <1>5, <2>3 DEF Failing
    <3> QED
      BY <2>3, <3>1
  <2>4. ASSUME NEW d \in Clients, Failing(call[d], u)
        PROVE  Failing(call'[d], u)
    BY <1>0, <1>1, <2>4 DEF Failing
  <2> QED
    BY <2>1, <2>2, <2>3, <2>4
<1> QED
  BY <1>2, <1>4, <1>5, RunsKnownNext DEF LaunchInv

\* What was launched and is remembered runs, and what came too late is over.
LEMMA LaunchLaunches ==
  ASSUME WireInv, LaunchInv, NEW c \in Clients,
         \/ Launched(c) \/ LaunchedAstray(c) \/ LaunchedTooLate(c)
         \/ LaunchedNameless(c) \/ LaunchFails(c)
  PROVE  LaunchInv'
<1> DEFINE s == call[c].session
<1>0. /\ TypeOK /\ call \in [Clients -> Call] /\ rows \in [Sessions -> Row]
      /\ call[c].pc # "idle" /\ s \in Sessions /\ Mine(c) = s
      /\ call[c].method = "session.start" /\ call[c].stage = "first"
      /\ rows[s].status \notin {"none", "running"} /\ Kept(call[c], rows, known)
      /\ known' = known
  BY DEF WireInv, TypeOK, Handled, Mine, LaunchInv, Placed, Launched, LaunchedAstray,
         LaunchedTooLate, LaunchedNameless, LaunchFails, Returned, Got, At, Starting
<1>1. {"close"} \subseteq WireMethods /\ {"failClosed", "rollback"} \subseteq Stages
  BY DEF WireMethods, Stages
<1>7. \A u \in Sessions : ~Failing(call[c], u)
  BY <1>0 DEF Failing
<1>2. CASE Launched(c) \/ LaunchedAstray(c)
  <2>1. /\ rows'[s].status = "running" /\ rows[s].status = "starting"
        /\ \A u \in Sessions \ {s} : rows'[u] = rows[u]
    BY <1>0, <1>2, MoveShape, Constants DEF Launched, LaunchedAstray, Permits, TypeOK
  <2>0. s \in known'
    BY <1>0, <1>2, <2>1 DEF Launched, LaunchedAstray, Returned, At, Kept, Launches
  <2>2. /\ \A d \in Clients \ {c} : call'[d] = call[d]
        /\ \/ call'[c].pc = "idle"
           \/ /\ call'[c].stage = "failClosed" /\ call'[c].method = "session.start"
              /\ call'[c].session = s /\ call'[c].pc = "send"
    BY <1>0, <1>1, <1>2, ReturnShape, AskShape DEF Launched, LaunchedAstray
  <2>3. Placed(call'[c], rows') /\ Kept(call'[c], rows', known') /\ ~Launches(call'[c])
    BY <2>1, <2>2 DEF Placed, Launches, Kept, Ran
  <2>4. ASSUME NEW d \in Clients \ {c}
        PROVE  Placed(call'[d], rows') /\ Kept(call'[d], rows', known')
    <3>1. /\ Placed(call[d], rows) /\ (call[d].pc # "idle" => call[d].session \in Sessions)
          /\ ~(Launches(call[d]) /\ call[d].session = s) /\ Kept(call[d], rows, known)
      BY <1>0 DEF LaunchInv, WireInv, Handled, Launches
    <3>2. Placed(call[d], rows')
      BY <2>1, <3>1 DEF Placed, Launches, Over, Ran
    <3>3. Kept(call[d], rows', known')
      BY <1>0, <2>1, <3>1 DEF Kept, Launches
    <3> QED
      BY <2>2, <3>2, <3>3
  <2>5. ASSUME NEW u \in Sessions, rows'[u].status = "running"
        PROVE  u \in known' \/ \E d \in Clients : Failing(call'[d], u)
    <3>1. CASE u = s
      BY <2>0, <3>1
    <3>2. CASE u # s
      <4>1. u \in known \/ \E d \in Clients : Failing(call[d], u)
        BY <2>1, <2>5, <3>2, RunsKnown
      <4> QED
        BY <1>0, <1>7, <2>2, <4>1
    <3> QED
      BY <3>1, <3>2
  <2>6. ASSUME NEW d \in Clients, NEW e \in Clients, Launches(call'[d]), Launches(call'[e]),
               call'[d].session = call'[e].session
        PROVE  d = e
    BY <2>2, <2>3, <2>6 DEF LaunchInv
  <2> QED
    BY <2>3, <2>4, <2>5, <2>6, RunsKnownNext DEF LaunchInv
<1>3. CASE LaunchedTooLate(c)
  <2>1. Over(rows[s]) /\ rows' = rows
    BY <1>0, <1>3 DEF LaunchedTooLate, Permits, Over, stored
  <2>2. /\ \A d \in Clients \ {c} : call'[d] = call[d]
        /\ call'[c].stage = "rollback" /\ call'[c].session = s /\ call'[c].pc = "send"
        /\ call'[c].method = "session.start"
    BY <1>0, <1>1, <1>3, AskShape DEF LaunchedTooLate
  <2>3. Keeps
    BY <1>0, <2>1, MovesKeep
  <2>4. Placed(call'[c], rows') /\ ~Launches(call'[c])
    BY <2>1, <2>2 DEF Placed, Launches, Operations, Observations, Automation, Visits
  <2> QED
    BY <1>0, <1>7, <2>2, <2>3, <2>4, LaunchKind
<1>4. CASE LaunchedNameless(c) \/ LaunchFails(c)
  <2>1. TryMove(s, "failed")
    BY <1>0, <1>4 DEF LaunchedNameless, LaunchFails
  <2>2. Keeps
    BY <1>0, <2>1, MovesKeep
  <2>3. /\ \A d \in Clients \ {c} : call'[d] = call[d]
        /\ call'[c].pc = "idle"
    BY <1>0, <1>4, ReturnShape DEF LaunchedNameless, LaunchFails
  <2> QED
    BY <1>0, <1>7, <2>2, <2>3, LaunchKind DEF Placed, Launches
<1> QED
  BY <1>2, <1>3, <1>4

\* A handler that has closed a session it is to fail leaves it running no more.
LEMMA LaunchEnds ==
  ASSUME WireInv, LaunchInv, NEW c \in Clients, RolledBack(c) \/ Stopped(c) \/ FailedClosed(c)
  PROVE  LaunchInv'
<1> DEFINE s == call[c].session
<1>0. /\ TypeOK /\ call \in [Clients -> Call] /\ rows \in [Sessions -> Row]
      /\ call[c].pc # "idle" /\ s \in Sessions /\ Mine(c) = s /\ Placed(call[c], rows)
      /\ known' = known
  BY DEF WireInv, TypeOK, Handled, Mine, LaunchInv, RolledBack, Stopped, FailedClosed,
         Closed, Returned, Got, At
<1>1. Keeps
  BY <1>0, MovesKeep DEF RolledBack, Stopped, FailedClosed, stored
<1>2. Failing(call[c], s) => rows'[s].status # "running"
  <2>1. CASE RolledBack(c) \/ Stopped(c)
    <3>1. Over(rows[s])
      BY <1>0, <2>1 DEF RolledBack, Stopped, Placed
    <3> QED
      BY <1>0, <1>1, <3>1 DEF Keeps, Over
  <2>2. CASE FailedClosed(c) /\ call[c].answer = "ok"
    <3>1. TryMove(s, "failed")
      BY <1>0, <2>2 DEF FailedClosed
    <3>2. CASE Permits(rows[s].status, "failed")
      BY <1>0, <3>1, <3>2, MoveShape, Constants DEF TryMove, TypeOK
    <3>3. CASE ~Permits(rows[s].status, "failed")
      BY <3>1, <3>3 DEF TryMove, Permits, ActiveStatus
    <3> QED
      BY <3>2, <3>3
  <2>3. CASE FailedClosed(c) /\ call[c].answer # "ok"
    BY <2>3 DEF Failing
  <2> QED
    BY <2>1, <2>2, <2>3
<1>3. \A u \in Sessions : Failing(call[c], u) => rows'[u].status # "running"
  BY <1>2 DEF Failing
<1>4. /\ \A d \in Clients \ {c} : call'[d] = call[d]
      /\ call'[c].pc = "idle"
  BY <1>0, ReturnShape DEF RolledBack, Stopped, FailedClosed
<1> QED
  BY <1>0, <1>1, <1>3, <1>4, LaunchKind DEF Placed, Launches

\* Operations and takeovers launch nothing, but again.
LEMMA LaunchOperations ==
  ASSUME WireInv, LaunchInv, NEW c \in Clients,
         \/ OperationDone(c) \/ OperationUnusable(c) \/ OperationAstray(c) \/ OperationFails(c)
         \/ TakeoverAnswered(c) \/ LaunchAgain(c) \/ Relaunched(c)
  PROVE  LaunchInv'
<1>0. /\ TypeOK /\ call \in [Clients -> Call] /\ call[c] \in Call /\ Mine(c) \in Sessions
      /\ call[c].pc = "answered" /\ Placed(call[c], rows)
  <2>1. call[c].pc = "answered"
    BY DEF OperationDone, OperationUnusable, OperationAstray, OperationFails, TakeoverAnswered,
           LaunchAgain, Relaunched, Operating, Final, Lost, Got, At
  <2> QED
    BY <2>1, MineIsSession DEF WireInv, TypeOK, LaunchInv
<1>1. known' = known
  BY DEF OperationDone, OperationUnusable, OperationAstray, OperationFails, TakeoverAnswered,
         LaunchAgain, Relaunched
<1>2. Keeps
  <2>1. \/ UNCHANGED rows
        \/ TryMove(Mine(c), "orphaned")
        \/ Permits(rows[Mine(c)].status, "orphaned") /\ Move(Mine(c), "orphaned")
    BY DEF OperationDone, OperationUnusable, OperationAstray, OperationFails, TakeoverAnswered,
           LaunchAgain, Relaunched, EndTakeover, stored
  <2> QED
    BY <1>0, <2>1, MovesKeep
<1>7. \A u \in Sessions : ~Failing(call[c], u)
  BY <1>0 DEF Failing
<1>3. CASE \/ OperationDone(c) \/ OperationUnusable(c) \/ OperationFails(c) \/ TakeoverAnswered(c)
  <2>1. /\ \A d \in Clients \ {c} : call'[d] = call[d]
        /\ call'[c].pc = "idle"
    BY <1>0, <1>3, ReturnShape
       DEF OperationDone, OperationUnusable, OperationFails, TakeoverAnswered
  <2> QED
    BY <1>1, <1>2, <1>7, <2>1, LaunchKind DEF Placed, Launches
<1>4. ASSUME NEW wire \in WireMethods, NEW stage \in {"relaunch", "retry", "failClosed"},
             Ask(c, wire, stage),
             wire = "close" => stage = "failClosed",
             stage = "failClosed" => call[c].method \in Operations
      PROVE  LaunchInv'
  <2>1. /\ \A d \in Clients \ {c} : call'[d] = call[d]
        /\ call'[c].stage = stage /\ call'[c].method = call[c].method
        /\ call'[c].session = call[c].session /\ call'[c].wire = wire
        /\ call'[c].pc = "send"
    BY <1>0, <1>4, AskShape DEF Stages
  <2>2. ~Launches(call'[c])
    BY <2>1 DEF Launches
  <2>3. Placed(call'[c], rows')
    BY <1>0, <1>2, <1>4, <2>1 DEF Placed, Keeps, Mine
  <2> QED
    BY <1>1, <1>2, <1>7, <2>1, <2>2, <2>3, LaunchKind
<1>5. CASE OperationAstray(c) \/ LaunchAgain(c)
  BY <1>4, <1>5 DEF OperationAstray, Operating, LaunchAgain, WireMethods
<1>6. CASE Relaunched(c)
  <2>1. CASE Ask(c, Wire(call[c].method), "retry") /\ AsksAgain(call[c].method)
    <3>1. Wire(call[c].method) \in WireMethods /\ Wire(call[c].method) # "close"
      BY <1>0, <2>1, Constants DEF Call, AsksAgain, IsObservation, Observations, Wire
    <3> QED
      BY <1>4, <2>1, <3>1
  <2>2. CASE call' = [call EXCEPT ![c].stage = "retry",
                        ![c].answer = IF @ = "unavailable" THEN @ ELSE "failed"]
    <3>1. PICK answer \in Answers :
            call' = [call EXCEPT ![c] = [call[c] EXCEPT !.stage = "retry", !.answer = answer]]
      BY <1>0, <2>2 DEF Call, Answers
    <3>2. /\ \A d \in Clients \ {c} : call'[d] = call[d]
          /\ call'[c].stage = "retry" /\ call'[c].method = call[c].method
          /\ call'[c].session = call[c].session /\ call'[c].wire = call[c].wire
          /\ call'[c].pc = "answered"
      BY <1>0, <3>1 DEF Call
    <3>3. Placed(call'[c], rows') /\ ~Launches(call'[c])
      BY <1>0, <1>2, <1>6, <3>2 DEF Relaunched, Placed, Launches, Keeps, Mine
    <3> QED
      BY <1>1, <1>2, <1>7, <3>2, <3>3, LaunchKind
  <2> QED
    BY <1>6, <2>1, <2>2 DEF Relaunched
<1> QED
  BY <1>3, <1>5, <1>6

\* Sending, answering and the death of the process launch nothing.
LEMMA LaunchAnswers ==
  ASSUME WireInv, LaunchInv,
         \/ \E c \in Clients :
              \/ Send(c) \/ TimeOut(c)
              \/ \E answer \in {"exited", "failed", "unavailable"} : SendFails(c, answer)
         \/ ServiceDies \/ ReaderDrains
  PROVE  LaunchInv'
<1>0. call \in [Clients -> Call]
  BY DEF WireInv, TypeOK
<1>1. ASSUME NEW c \in Clients, Send(c)
      PROVE  LaunchInv'
  <2>1. \A d \in Clients : /\ call'[d].pc # "idle" => call[d].pc # "idle"
                           /\ call'[d].method = call[d].method /\ call'[d].stage = call[d].stage
                           /\ call'[d].session = call[d].session
                           /\ call'[d].wire = call[d].wire
                           /\ call[d].pc = "noted" \/ call'[d].pc = "noted" => call'[d] = call[d]
    BY <1>0, <1>1 DEF Send, At, Call
  <2> QED
    BY <1>1, <2>1, AnswersKeep DEF Send, stored
<1>2. ASSUME NEW c \in Clients, NEW answer \in Answers, call' = Answered(c, answer),
             call[c].pc \in {"send", "wait"}, UNCHANGED <<stored, known>>
      PROVE  LaunchInv'
  <2>1. \A d \in Clients : /\ call'[d].pc # "idle" => call[d].pc # "idle"
                           /\ call'[d].method = call[d].method /\ call'[d].stage = call[d].stage
                           /\ call'[d].session = call[d].session
                           /\ call'[d].wire = call[d].wire
                           /\ call[d].pc = "noted" \/ call'[d].pc = "noted" => call'[d] = call[d]
    BY <1>0, <1>2, AnsweredShape
  <2> QED
    BY <1>2, <2>1, AnswersKeep DEF stored
<1>3. ASSUME NEW c \in Clients, NEW answer \in {"exited", "failed", "unavailable"},
             SendFails(c, answer) \/ (TimeOut(c) /\ answer = "failed")
      PROVE  LaunchInv'
  BY <1>2, <1>3 DEF SendFails, TimeOut, At, Answers
<1>4. CASE ServiceDies
  BY <1>4, AnswersKeep DEF ServiceDies, stored
<1>5. CASE ReaderDrains
  <2>1. ASSUME NEW d \in Clients
        PROVE  /\ call'[d].pc # "idle" => call[d].pc # "idle"
               /\ call'[d].method = call[d].method /\ call'[d].stage = call[d].stage
               /\ call'[d].session = call[d].session /\ call'[d].wire = call[d].wire
               /\ call[d].pc = "noted" \/ call'[d].pc = "noted" => call'[d] = call[d]
    <3> DEFINE q == [call[d] EXCEPT !.pc = "answered", !.answer = "exited"]
    <3>1. /\ q.method = call[d].method /\ q.stage = call[d].stage
          /\ q.session = call[d].session /\ q.wire = call[d].wire /\ q.pc = "answered"
      BY <1>0 DEF Call
    <3>2. call'[d] = IF At(d, "wait") THEN q ELSE call[d]
      BY <1>5 DEF ReaderDrains
    <3> HIDE DEF q
    <3> QED
      BY <3>1, <3>2 DEF At
  <2> QED
    BY <1>5, <2>1, AnswersKeep DEF ReaderDrains, stored
<1> QED
  BY <1>1, <1>3, <1>4, <1>5

\* Nor does what the service carries out, nor a start of the core.
LEMMA LaunchService ==
  ASSUME WireInv, LaunchInv,
         \/ \E r \in requests : \E outcome \in Outcomes(r) : Execute(r, outcome)
         \/ Restart
  PROVE  LaunchInv'
<1>0. call \in [Clients -> Call]
  BY DEF WireInv, TypeOK
<1>1. ASSUME NEW r \in requests, NEW outcome \in Outcomes(r), Execute(r, outcome)
      PROVE  LaunchInv'
  <2>1. UNCHANGED <<rows, known>>
    BY <1>1 DEF Execute, stored
  <2>2. CASE r.by = Nobody
    BY <1>1, <2>1, <2>2, AnswersKeep DEF Execute
  <2>3. CASE r.by # Nobody
    <3> DEFINE c == r.by
    <3>1. c \in Clients /\ call[c] \in Call /\ call[c].pc = "wait"
      BY <1>0, <2>3 DEF WireInv, TypeOK, WireRequest, Awaited
    <3>2. PICK written \in BOOLEAN :
            call' = [call EXCEPT ![c].ran = @ + Automated(r, outcome),
                                 ![c].pc = IF written THEN "answered" ELSE @,
                                 ![c].answer = IF written THEN outcome ELSE @]
      BY <1>1, <2>3 DEF Execute
    <3>3. \A d \in Clients : /\ call'[d].pc # "idle" => call[d].pc # "idle"
                             /\ call'[d].method = call[d].method
                             /\ call'[d].stage = call[d].stage
                             /\ call'[d].session = call[d].session
                             /\ call'[d].wire = call[d].wire
                             /\ call[d].pc = "noted" \/ call'[d].pc = "noted" =>
                                  call'[d] = call[d]
      BY <1>0, <3>1, <3>2 DEF Call
    <3> QED
      BY <2>1, <3>3, AnswersKeep
  <2> QED
    BY <2>2, <2>3
<1>2. CASE Restart
  <2>1. \A d \in Clients : call'[d].pc = "idle"
    BY <1>2 DEF Restart, Idle
  <2>2. \A s \in Sessions : rows'[s].status # "running"
    BY <1>2 DEF Restart, Recovered, ActiveStatus
  <2> QED
    BY <2>1, <2>2 DEF LaunchInv, Placed, Launches, Kept, RunningSessionsCanBeRelaunched
<1> QED
  BY <1>1, <1>2

\* A session that runs is one the client of the service can launch again, so that a
\* call survives the death of the Node process, or its handler is about to fail it.
THEOREM Relaunchable == Spec => []RunningSessionsCanBeRelaunched
<1>1. Init => LaunchInv
  BY DEF Init, Idle, NoRow, LaunchInv, Placed, Launches, Kept,
         RunningSessionsCanBeRelaunched
<1>2. WireInv /\ LaunchInv /\ [Next]_vars => LaunchInv'
  <2> SUFFICES ASSUME WireInv, LaunchInv, [Next]_vars
               PROVE  LaunchInv'
    OBVIOUS
  <2>1. CASE UNCHANGED vars
    BY <2>1, AnswersKeep DEF vars
  <2>2. ASSUME NEW c \in Clients, Continues(c) \/ TimeOut(c)
        PROVE  LaunchInv'
    BY <2>2, LaunchNotes, LaunchLaunches, LaunchEnds, LaunchOperations, LaunchAnswers DEF Continues
  <2> QED
    BY <2>1, <2>2, LaunchCalls, LaunchAnswers, LaunchService DEF Next
<1>3. LaunchInv => RunningSessionsCanBeRelaunched
  BY DEF LaunchInv
<1> QED
  BY <1>1, <1>2, <1>3, WireInvariance, PTL DEF Spec

=============================================================================
