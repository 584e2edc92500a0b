--------------------------- MODULE BrowserSessions ---------------------------
(***************************************************************************)
(* The managed browser sessions of the Retcon core: their rows, takeovers, *)
(* tabs and profiles (src/crates/retcon-storage/src/browser.rs), the RPC   *)
(* handlers (retcon-core/src/browser_rpc.rs) and the client of the Node    *)
(* process that runs the browsers (retcon-browser/src/node.rs).            *)
(*                                                                         *)
(* A transaction of the repository is one step.  A request on the stdio    *)
(* transport is sent, executed and answered in steps of its own, because   *)
(* the process may die, the answer may be lost or come too late, and other *)
(* handlers run meanwhile.                                                 *)
(***************************************************************************)
EXTENDS Naturals, FiniteSets

CONSTANTS
  Clients,       \* RPC connections
  Sessions,      \* identities of browser sessions
  NoSession,     \* the session of a connection that waits for nothing
  Nobody,        \* the sender of a request whose caller waits no more
  Policy,        \* networkPolicy of each session
  Offered,       \* the methods that clients call
  MaxDeaths,     \* bound: how often the browser service dies
  MaxLate,       \* bound: requests to be executed that nobody waits for
  MaxRestarts    \* bound: how often the core is started again

ASSUME NullAssumption == NoSession \notin Sessions /\ Nobody \notin Clients
ASSUME PolicyAssumption == Policy \in [Sessions -> {"loopback", "network"}]
ASSUME BoundAssumption == MaxDeaths \in Nat /\ MaxLate \in Nat /\ MaxRestarts \in Nat

VARIABLES
  rows,       \* table browser_sessions, with the profile of each session
  takeover,   \* the sessions with an active row in browser_takeovers
  tab,        \* a tab of each session, as browser_tabs has it
  known,      \* NodeBrowserService.sessions: what can be launched again
  call,       \* what each connection is waiting for
  requests,   \* requests the service has not executed
  service,    \* whether the Node process runs
  draining,   \* the reader of a process that died has still to clear pending
  live,       \* the browsers that run in the service
  paused,     \* those whose automation is paused for the user
  deaths, restarts

vars == <<rows, takeover, tab, known, call, requests, service, draining, live,
          paused, deaths, restarts>>
stored == <<rows, takeover, tab>>
process == <<service, draining, live, paused, deaths>>

-----------------------------------------------------------------------------
(***************************************************************************)
(* State.                                                                  *)
(***************************************************************************)

ActiveStatus == {"starting", "running", "stopping"}
Status == ActiveStatus \cup {"none", "stopped", "failed", "orphaned", "interrupted"}

\* free: available or released, as the profile is persistent or not.
ProfileStatus == {"none", "active", "free", "orphaned"}

Row == [status: Status, profile: ProfileStatus]
NoRow == [status |-> "none", profile |-> "none"]

\* No tab yet, one that is open at an address of this machine or elsewhere, and
\* one that was closed.
TabStatus == {"none", "local", "elsewhere", "closed"}
OpenTab == {"local", "elsewhere"}

\* The methods of call_operation: those that observe, that go to an address and
\* that do not, and the others that talk to the service.
Observations == {"observation.snapshot"}
Visits == {"tab.open", "navigate"}
Automation == Visits \cup {"tab.close"}
Operations == Observations \cup Automation
Takeovers == {"takeover.start", "takeover.stop"}
Methods == Operations \cup Takeovers \cup {"session.start", "session.stop"}

\* map_call: what is asked of the service for a method.
Wire(m) ==
  CASE m = "session.start" -> "launch"
    [] m = "session.stop" -> "close"
    [] m = "takeover.start" -> "pause"
    [] m = "takeover.stop" -> "resume"
    [] m \in Visits -> "visit"
    [] OTHER -> "operate"

WireMethods == {"launch", "close", "pause", "resume", "visit", "operate"}

\* exited: the process died or could not be started.  unavailable: there is no
\* service, the one error that is_fatal.  failed: a timeout, a failed write or
\* an error of the service.  nameless: a launch without a session id.
\* elsewhere: done, and the page is not one of this machine.
Done == {"ok", "nameless", "elsewhere"}
Answers == Done \cup {"none", "failed", "notRunning", "exited", "unavailable"}

\* noted: the client of the service has kept or forgotten the session, and the
\* handler has still to write its row.  stage: the request the handler is at.
\* ran, how often the service has carried out the automation that was called
\* for, is history.
Call == [pc: {"idle", "send", "wait", "answered", "noted"}, method: Methods,
         session: Sessions \cup {NoSession}, wire: WireMethods,
         stage: {"first", "relaunch", "retry", "rollback", "failClosed"},
         answer: Answers, ran: 0..2]

Idle == [pc |-> "idle", method |-> "session.start", session |-> NoSession,
         wire |-> "launch", stage |-> "first", answer |-> "none", ran |-> 0]

WireRequest == [wire: WireMethods, session: Sessions, by: Clients \cup {Nobody}]

TypeOK ==
  /\ rows \in [Sessions -> Row]
  /\ takeover \subseteq Sessions
  /\ tab \in [Sessions -> TabStatus]
  /\ known \subseteq Sessions
  /\ call \in [Clients -> Call]
  /\ requests \subseteq WireRequest
  /\ service \in {"up", "down"} /\ draining \in BOOLEAN
  /\ live \subseteq Sessions /\ paused \subseteq live
  /\ deaths \in 0..MaxDeaths /\ restarts \in 0..MaxRestarts

Init ==
  /\ rows = [s \in Sessions |-> NoRow]
  /\ takeover = {}
  /\ tab = [s \in Sessions |-> "none"]
  /\ known = {}
  /\ call = [c \in Clients |-> Idle]
  /\ requests = {}
  /\ service = "down" /\ draining = FALSE
  /\ live = {} /\ paused = {}
  /\ deaths = 0 /\ restarts = 0

-----------------------------------------------------------------------------
(***************************************************************************)
(* The repository.                                                         *)
(***************************************************************************)

\* transition: the moves it permits.
Permits(from, to) ==
  \/ to = "running" /\ from = "starting"
  \/ to = "stopping" /\ from = "running"
  \/ to = "stopped" /\ from = "stopping"
  \/ to \in {"failed", "orphaned"} /\ from \in ActiveStatus

\* Mutation of TakeoverEnds: an orphaned session keeps it.
TakeoverEndsUnlessOrphaned(to) == to \in {"stopped", "failed"}

TakeoverEnds(to) == to \in {"stopped", "failed", "orphaned"}

Move(s, to) ==
  /\ rows' = [rows EXCEPT
       ![s].status = to,
       ![s].profile = IF to \in {"stopped", "failed"} THEN "free" ELSE @]
  /\ takeover' = IF TakeoverEnds(to) THEN takeover \ {s} ELSE takeover

\* A transition whose error nobody acts on.
TryMove(s, to) ==
  IF Permits(rows[s].status, to) THEN Move(s, to) ELSE UNCHANGED <<rows, takeover>>

\* prepare_session writes the row and takes a new profile.
InsertSession(s) ==
  /\ rows[s] = NoRow
  /\ rows' = [rows EXCEPT ![s] = [status |-> "starting", profile |-> "active"]]
  /\ UNCHANGED <<takeover, tab>>

\* start_takeover: the session runs, and an index admits one that is active.
InsertTakeover(s) ==
  /\ rows[s].status = "running" /\ s \notin takeover
  /\ takeover' = takeover \cup {s}
  /\ UNCHANGED <<rows, tab>>

\* stop_takeover ends whichever is active.
EndTakeover(s) == takeover' = takeover \ {s} /\ UNCHANGED <<rows, tab>>

\* upsert_tab: a tab that was closed is open again.
UpsertTab(s, address) == tab' = [tab EXCEPT ![s] = address]

\* close_tab: only one that is open.
CloseTab(s) == tab' = [tab EXCEPT ![s] = IF @ \in OpenTab THEN "closed" ELSE @]

-----------------------------------------------------------------------------
(***************************************************************************)
(* Requests to the service.                                                *)
(***************************************************************************)

At(c, p) == call[c].pc = p
Mine(c) == call[c].session
Got(c, answers) == At(c, "answered") /\ call[c].answer \in answers

\* The request of the handler is to be sent.
Ask(c, wire, stage) ==
  call' = [call EXCEPT ![c].pc = "send", ![c].wire = wire, ![c].stage = stage,
                       ![c].answer = "none"]

\* The handler begins with a request for its method.
Begin(c, m, s) ==
  call' = [call EXCEPT ![c] = [Idle EXCEPT !.pc = "send", !.method = m,
                                           !.session = s, !.wire = Wire(m)]]

Return(c) == call' = [call EXCEPT ![c] = Idle]

Answered(c, answer) == [call EXCEPT ![c].pc = "answered", ![c].answer = answer]

\* ensure_started finds the process or starts one, request_running enters the
\* request into pending and writes it.
Send(c) ==
  /\ At(c, "send")
  /\ service' = "up"
  /\ requests' = requests \cup {[wire |-> call[c].wire, session |-> Mine(c), by |-> c]}
  /\ call' = [call EXCEPT ![c].pc = "wait"]
  /\ UNCHANGED <<stored, known, draining, live, paused, deaths, restarts>>

\* The process cannot be started, greets with another protocol, or its
\* entrypoint is missing; or it has died since and the write fails.
SendFails(c, answer) ==
  /\ At(c, "send")
  /\ service = "down" \/ (deaths < MaxDeaths /\ answer = "failed")
  /\ answer \in {"exited", "failed", "unavailable"}
  /\ call' = Answered(c, answer)
  /\ UNCHANGED <<stored, known, requests, process, restarts>>

\* A caller that waits no more leaves its request to the service, which may
\* execute it as long as it runs.  Those over the bound are not executed.
Abandoned(callers) ==
  LET left == {IF r.by \in callers THEN [r EXCEPT !.by = Nobody] ELSE r : r \in requests}
  IN IF Cardinality({r \in left : r.by = Nobody}) <= MaxLate THEN left
     ELSE {r \in requests : r.by \notin callers}

\* The timeout of a request.  browser.cancel is sent, and may be too late.
TimeOut(c) ==
  /\ At(c, "wait")
  /\ call' = Answered(c, "failed")
  /\ requests' = Abandoned({c})
  /\ UNCHANGED <<stored, known, process, restarts>>

\* The process dies with its browsers and what it has not executed.
ServiceDies ==
  /\ service = "up" /\ deaths < MaxDeaths
  /\ service' = "down" /\ draining' = TRUE
  /\ live' = {} /\ paused' = {} /\ requests' = {}
  /\ deaths' = deaths + 1
  /\ UNCHANGED <<stored, known, call, restarts>>

\* Its reader comes to the end of the output and fails everything pending, be
\* it for that process or for one that was started since.
ReaderDrains ==
  LET waiting == {c \in Clients : At(c, "wait")}
  IN /\ draining
     /\ draining' = FALSE
     /\ call' = [c \in Clients |->
          IF c \in waiting THEN [call[c] EXCEPT !.pc = "answered", !.answer = "exited"]
          ELSE call[c]]
     /\ requests' = Abandoned(waiting)
     /\ UNCHANGED <<stored, known, service, live, paused, deaths, restarts>>

\* What the service answers to a request, and what it does for that answer.
Outcomes(r) ==
  IF r.wire = "launch" THEN Done \cup {"failed"}
  ELSE IF r.wire = "close" THEN {"ok", "failed"}
  ELSE IF r.session \notin live THEN {"notRunning"}
  ELSE IF r.session \in paused /\ r.wire # "resume" THEN {"failed"}
  ELSE {"ok"} \cup (IF r.wire \in {"visit", "operate"} THEN {"failed"} ELSE {})
              \cup (IF r.wire = "visit" THEN {"elsewhere"} ELSE {})

Carried(r, outcome) ==
  IF outcome \notin Done THEN UNCHANGED <<live, paused>>
  ELSE /\ live' = CASE r.wire = "launch" -> live \cup {r.session}
                    [] r.wire = "close" -> live \ {r.session}
                    [] OTHER -> live
       /\ paused' = CASE r.wire = "pause" -> paused \cup {r.session}
                      [] r.wire \in {"resume", "close"} -> paused \ {r.session}
                      [] OTHER -> paused

\* How often the execution of a request automates.
Automated(r, outcome) ==
  IF r.wire \in {"visit", "operate"} /\ call[r.by].method \in Automation /\ outcome \in Done
  THEN 1 ELSE 0

\* An answer that has not been written when the process dies is lost.
Execute(r, outcome) ==
  /\ service = "up" /\ r \in requests
  /\ outcome \in Outcomes(r)
  /\ requests' = requests \ {r}
  /\ Carried(r, outcome)
  /\ \E written \in BOOLEAN :
       call' = IF r.by = Nobody THEN call
               ELSE [call EXCEPT
                 ![r.by].ran = @ + Automated(r, outcome),
                 ![r.by].pc = IF written THEN "answered" ELSE @,
                 ![r.by].answer = IF written THEN outcome ELSE @]
  /\ UNCHANGED <<stored, known, service, draining, deaths, restarts>>

-----------------------------------------------------------------------------
(***************************************************************************)
(* call_wire: a service that has lost the session launches it again, and   *)
(* only an observation is asked for once more.                             *)
(***************************************************************************)

IsObservation(m) == m \in Observations

\* Mutation of AsksAgain: whatever it was.
AsksAlways(m) == TRUE

AsksAgain(m) == IsObservation(m)

Lost(c) == Got(c, {"exited", "notRunning"}) /\ call[c].stage = "first"
           /\ call[c].method \in Operations \cup Takeovers /\ Mine(c) \in known

\* The answer of the service is the result of the call.
Final(c) == At(c, "answered") /\ ~Lost(c) /\ call[c].stage # "relaunch"

LaunchAgain(c) ==
  /\ Lost(c)
  /\ Ask(c, "launch", "relaunch")
  /\ UNCHANGED <<stored, known, requests, process, restarts>>

\* recovered_retry_required, or the error of the launch.
Relaunched(c) ==
  /\ At(c, "answered") /\ call[c].stage = "relaunch"
  /\ IF call[c].answer \in Done /\ AsksAgain(call[c].method)
     THEN Ask(c, Wire(call[c].method), "retry")
     ELSE call' = [call EXCEPT ![c].stage = "retry",
                     ![c].answer = IF @ = "unavailable" THEN @ ELSE "failed"]
  /\ UNCHANGED <<stored, known, requests, process, restarts>>

-----------------------------------------------------------------------------
(***************************************************************************)
(* browser.session.start and browser.session.stop.                         *)
(***************************************************************************)

Quiet == UNCHANGED <<requests, process, restarts>>

Serves(c, m) == At(c, "idle") /\ m \in Offered

\* The service is said to be compatible, the project and the rest of the scope
\* are in order.
StartSession(c, s) ==
  /\ Serves(c, "session.start")
  /\ InsertSession(s)
  /\ Begin(c, "session.start", s)
  /\ UNCHANGED known /\ Quiet

Starting(c) == call[c].method = "session.start" /\ call[c].stage = "first"

\* Mutation of Remembered: launch keeps nothing.
NotRemembered(c) == UNCHANGED known

Remembered(c) == known' = known \cup {Mine(c)}

Noted(c) ==
  /\ call' = [call EXCEPT ![c].pc = "noted"]
  /\ UNCHANGED stored
  /\ Quiet

\* NodeBrowserService.launch keeps what it takes to launch again, and returns.
Remember(c) ==
  /\ Starting(c) /\ Got(c, Done)
  /\ Remembered(c)
  /\ Noted(c)

\* NodeBrowserService.close forgets the session, and returns.
Forget(c) ==
  /\ call[c].wire = "close" /\ Got(c, {"ok"})
  /\ known' = known \ {Mine(c)}
  /\ Noted(c)

\* The launch, or the close, has returned without an error.
Returned(c, answers) == At(c, "noted") /\ call[c].answer \in answers

\* The address the service reports of a page.
Address(c) == IF call[c].answer = "elsewhere" THEN "elsewhere" ELSE "local"

\* validate_url.
Permitted(s, address) == address = "local" \/ Policy[s] = "network"

\* mark_running, with the first tab.
Launched(c) ==
  /\ Starting(c) /\ Returned(c, {"ok", "elsewhere"})
  /\ Permits(rows[Mine(c)].status, "running") /\ Permitted(Mine(c), Address(c))
  /\ Move(Mine(c), "running")
  /\ UpsertTab(Mine(c), Address(c))
  /\ Return(c)
  /\ UNCHANGED known /\ Quiet

\* The first tab is not one the policy permits.
LaunchedAstray(c) ==
  /\ Starting(c) /\ Returned(c, {"elsewhere"})
  /\ Permits(rows[Mine(c)].status, "running") /\ ~Permitted(Mine(c), Address(c))
  /\ Move(Mine(c), "running") /\ UNCHANGED tab
  /\ Ask(c, "close", "failClosed")
  /\ UNCHANGED known /\ Quiet

\* mark_running is refused, and the browser is closed.
LaunchedTooLate(c) ==
  /\ Starting(c) /\ Returned(c, {"ok", "elsewhere"})
  /\ ~Permits(rows[Mine(c)].status, "running")
  /\ Ask(c, "close", "rollback")
  /\ UNCHANGED <<stored, known>>
  /\ Quiet

\* The answer has no session id, and nobody closes the browser.
LaunchedNameless(c) ==
  /\ Starting(c) /\ Returned(c, {"nameless"})
  /\ TryMove(Mine(c), "failed") /\ UNCHANGED tab
  /\ Return(c)
  /\ UNCHANGED known /\ Quiet

LaunchFails(c) ==
  /\ Starting(c) /\ Got(c, {"failed", "exited", "unavailable"})
  /\ TryMove(Mine(c), "failed") /\ UNCHANGED tab
  /\ Return(c)
  /\ UNCHANGED known /\ Quiet

\* The close has returned, with or without an error.
Closed(c) == Returned(c, {"ok"}) \/ Got(c, Answers \ {"ok"})

RolledBack(c) ==
  /\ Closed(c) /\ call[c].stage = "rollback"
  /\ Return(c)
  /\ UNCHANGED <<stored, known>> /\ Quiet

StopSession(c, s) ==
  /\ Serves(c, "session.stop")
  /\ Permits(rows[s].status, "stopping")
  /\ Move(s, "stopping") /\ UNCHANGED tab
  /\ Begin(c, "session.stop", s)
  /\ UNCHANGED known /\ Quiet

Stopped(c) ==
  /\ Closed(c) /\ call[c].method = "session.stop"
  /\ TryMove(Mine(c), IF call[c].answer = "ok" THEN "stopped" ELSE "orphaned")
  /\ UNCHANGED <<tab, known>>
  /\ Return(c)
  /\ Quiet

-----------------------------------------------------------------------------
(***************************************************************************)
(* call_operation and the takeovers.                                       *)
(***************************************************************************)

\* Of the tab methods, all but tab.open name a tab.
TabIsOpen(m, s) == m \in {"navigate", "tab.close"} => tab[s] \in OpenTab

\* validate_operation.
Acceptable(m, s, address) == m \in Visits => Permitted(s, address)

\* The address is where the caller wants to go; the page may end elsewhere.
CallOperation(c, m, s, address) ==
  /\ Serves(c, m) /\ m \in Operations
  /\ rows[s].status = "running"
  /\ TabIsOpen(m, s) /\ Acceptable(m, s, address)
  /\ IsObservation(m) \/ s \notin takeover
  /\ Begin(c, m, s)
  /\ UNCHANGED <<stored, known>> /\ Quiet

Operating(c) == call[c].method \in Operations /\ call[c].stage # "failClosed" /\ Final(c)

\* persist_call_result keeps the artifacts and then the tab.
Persisted(c) ==
  CASE call[c].method \in Visits -> UpsertTab(Mine(c), Address(c))
    [] call[c].method = "tab.close" -> CloseTab(Mine(c))
    [] OTHER -> UNCHANGED tab

OperationDone(c) ==
  /\ Operating(c) /\ call[c].answer \in Done
  /\ Permitted(Mine(c), Address(c))
  /\ Persisted(c)
  /\ Return(c)
  /\ UNCHANGED <<rows, takeover, known>> /\ Quiet

\* The file of an artifact is not where the service keeps them, or is too large:
\* what was done is answered with an error.
OperationUnusable(c) ==
  /\ Operating(c) /\ call[c].answer \in Done
  /\ Return(c)
  /\ UNCHANGED <<stored, known>> /\ Quiet

\* validate_service_result finds an address the policy forbids.
OperationAstray(c) ==
  /\ Operating(c) /\ call[c].answer \in Done
  /\ ~Permitted(Mine(c), Address(c))
  /\ Ask(c, "close", "failClosed")
  /\ UNCHANGED <<stored, known>> /\ Quiet

\* An error changes nothing, unless it is_fatal.
OperationFails(c) ==
  /\ Operating(c) /\ call[c].answer \notin Done
  /\ IF call[c].answer = "unavailable" THEN TryMove(Mine(c), "orphaned")
     ELSE UNCHANGED <<rows, takeover>>
  /\ Return(c)
  /\ UNCHANGED <<tab, known>> /\ Quiet

\* fail_closed_service_session: mark_failed, or mark_orphaned.
FailedClosed(c) ==
  /\ Closed(c) /\ call[c].stage = "failClosed"
  /\ TryMove(Mine(c), IF call[c].answer = "ok" THEN "failed" ELSE "orphaned")
  /\ UNCHANGED <<tab, known>>
  /\ Return(c)
  /\ Quiet

TakeoverStart(c, s) ==
  /\ Serves(c, "takeover.start")
  /\ InsertTakeover(s)
  /\ Begin(c, "takeover.start", s)
  /\ UNCHANGED known /\ Quiet

\* takeover_stop looks at no row before it asks the service.
TakeoverStop(c, s) ==
  /\ Serves(c, "takeover.stop")
  /\ Begin(c, "takeover.stop", s)
  /\ UNCHANGED <<stored, known>> /\ Quiet

\* A takeover that was not announced, and one that is over, end.
TakeoverAnswered(c) ==
  LET begins == call[c].method = "takeover.start"
      s == Mine(c)
  IN /\ call[c].method \in Takeovers /\ Final(c)
     /\ IF call[c].answer = "unavailable" /\ Permits(rows[s].status, "orphaned")
        THEN Move(s, "orphaned") /\ UNCHANGED tab
        ELSE IF begins # (call[c].answer = "ok") THEN EndTakeover(s)
        ELSE UNCHANGED stored
     /\ Return(c)
     /\ UNCHANGED known /\ Quiet

-----------------------------------------------------------------------------
(***************************************************************************)
(* The core comes to an end, with its child, and recovery.rs repairs the   *)
(* rows when it starts again.                                              *)
(***************************************************************************)

Recovered ==
  /\ rows' = [s \in Sessions |->
       [status |-> IF rows[s].status \in ActiveStatus THEN "interrupted" ELSE rows[s].status,
        profile |-> IF rows[s].profile = "active" THEN "orphaned" ELSE rows[s].profile]]
  /\ takeover' = {}
  /\ UNCHANGED tab

Restart ==
  /\ restarts < MaxRestarts
  /\ restarts' = restarts + 1
  /\ Recovered
  /\ known' = {} /\ call' = [c \in Clients |-> Idle] /\ requests' = {}
  /\ service' = "down" /\ draining' = FALSE /\ live' = {} /\ paused' = {}
  /\ UNCHANGED deaths

-----------------------------------------------------------------------------
(***************************************************************************)
(* The system.                                                             *)
(***************************************************************************)

Continues(c) ==
  \/ Send(c)
  \/ \E answer \in {"exited", "failed", "unavailable"} : SendFails(c, answer)
  \/ LaunchAgain(c) \/ Relaunched(c)
  \/ Remember(c) \/ Forget(c)
  \/ Launched(c) \/ LaunchedAstray(c) \/ LaunchedTooLate(c) \/ LaunchedNameless(c) \/ LaunchFails(c)
  \/ RolledBack(c) \/ Stopped(c)
  \/ OperationDone(c) \/ OperationUnusable(c) \/ OperationAstray(c) \/ OperationFails(c) \/ FailedClosed(c)
  \/ TakeoverAnswered(c)

Calls(c, s) ==
  \/ StartSession(c, s) \/ StopSession(c, s)
  \/ \E m \in Operations, address \in OpenTab : CallOperation(c, m, s, address)
  \/ TakeoverStart(c, s) \/ TakeoverStop(c, s)

Next ==
  \/ \E c \in Clients, s \in Sessions : Calls(c, s)
  \/ \E c \in Clients : Continues(c) \/ TimeOut(c)
  \/ \E r \in requests : \E outcome \in Outcomes(r) : Execute(r, outcome)
  \/ ServiceDies \/ ReaderDrains \/ Restart

Spec == Init /\ [][Next]_vars

-----------------------------------------------------------------------------
(***************************************************************************)
(* Properties.                                                             *)
(***************************************************************************)

\* A session that runs is one the client of the service can launch again, so
\* that a call survives the death of the Node process.  Only one that has just
\* been closed for what its page did may be forgotten while its row still says
\* running, and then its handler has nothing left to do but to write "failed".
RunningSessionsCanBeRelaunched ==
  \A s \in Sessions : rows[s].status = "running" =>
    \/ s \in known
    \/ \E c \in Clients :
         Mine(c) = s /\ Returned(c, {"ok"}) /\ call[c].stage = "failClosed"

\* A takeover does not outlast its session, and a profile is in use as long as
\* its session, or left over from one that was given up: the three tables
\* agree whichever handler, failure or restart ends the session.
TablesAgree ==
  \A s \in Sessions :
    /\ s \in takeover => rows[s].status \in {"running", "stopping"}
    /\ rows[s].profile = "active" => rows[s].status \in ActiveStatus \cup {"orphaned"}
    /\ rows[s].status \in ActiveStatus => rows[s].profile = "active"

\* "Retry the operation to avoid duplicate automation": however the service
\* dies, is late or is started again, one call never automates twice.
AutomationIsNotRepeated ==
  \A c \in Clients : call[c].ran <= 1

=============================================================================
