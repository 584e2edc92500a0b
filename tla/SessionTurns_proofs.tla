------------------------ MODULE SessionTurns_proofs ------------------------
(***************************************************************************)
(* Proofs about SessionTurns, for any number of sessions, turns, clients   *)
(* and restarts.  First the types, then the inductive invariant from which *)
(* the safety properties of the turns follow, then the session rows.       *)
(***************************************************************************)
EXTENDS SessionTurns, TLAPS

-----------------------------------------------------------------------------
(***************************************************************************)
(* The inductive invariant.                                                *)
(***************************************************************************)

\* A handler in progress belongs to a session and to a running core, and one
\* that has a turn to send or to cancel names it.
CallsWellFormed ==
  \A c \in Clients :
    /\ call[c].pc # "idle" => call[c].session \in Sessions /\ Running
    /\ call[c].pc \in SendPoints \cup CancelPoints => call[c].turn \in Turns

TypeInv == TypeOK /\ CallsWellFormed

\* A turn that has no row has nothing else either.
RowsFirst ==
  \A t \in Turns : turnRow[t].status = "absent" =>
    /\ process[t] = "none"
    /\ watcher[t] = "none"
    /\ \A c \in Clients : call[c].turn # t

\* turn.send registers its session before it counts the turns.
SendersAreKnown ==
  \A c \in Clients : call[c].pc \in {"sequence", "insert"} \cup SendPoints =>
    call[c].session \in known

\* What the turn.send that is at work on a turn may rely on.
SenderInv ==
  \A c \in Clients : call[c].pc \in SendPoints =>
    /\ watcher[call[c].turn] = "none"
    /\ turnRow[call[c].turn].session = call[c].session
    /\ turnRow[call[c].turn].status =
         CASE call[c].pc = "checkpoint" -> "queued"
           [] call[c].pc \in {"spawn", "started"} -> "sending"
           [] call[c].pc = "register" -> "running"
    /\ call[c].pc \in {"checkpoint", "spawn"} => process[call[c].turn] = "none"
    /\ \A d \in Clients : Sending(d, call[c].turn) => d = c

\* A handler cancels only turns that were registered, and after the kill the
\* process is gone.
CancelInv ==
  \A c \in Clients : call[c].pc \in CancelPoints =>
    /\ watcher[call[c].turn] # "none"
    /\ call[c].pc # "kill" => process[call[c].turn] # "running"

\* What the steps of a watcher have established.
WatcherInv ==
  \A t \in Turns :
    /\ watcher[t] # "none" => turnRow[t].session \in known
    /\ watcher[t] \in {"exited", "completing", "clearing", "done"} => process[t] # "running"
    /\ watcher[t] = "completing" => process[t] = "ok"
    /\ watcher[t] \in {"clearing", "done"} => turnRow[t].status \in Terminal

\* A registered turn is one of its session, and its watcher is at work.
ActiveInv ==
  \A s \in Sessions : active[s] # NoTurn =>
    /\ turnRow[active[s]].session = s
    /\ watcher[active[s]] \in WatcherState \ {"none", "done"}

\* Nothing of a core that is down is at work, and a process that is at work
\* has somebody who waits for it.
DownInv ==
  ~Running =>
    /\ \A t \in Turns : watcher[t] = "none" /\ process[t] # "running"
    /\ \A s \in Sessions : active[s] = NoTurn

TurnsInv ==
  /\ RowsFirst
  /\ SendersAreKnown
  /\ SenderInv
  /\ CancelInv
  /\ WatcherInv
  /\ ActiveInv
  /\ DownInv
  /\ EndedTurnsHaveNoProcess
  /\ LiveProcessesAreWatched
  /\ CompletedTurnsExitedCleanly
  /\ UnfinishedTurnsAreOwned

-----------------------------------------------------------------------------
(***************************************************************************)
(* Types.                                                                  *)
(***************************************************************************)

\* Everything starts empty, and empty is well typed.
LEMMA TypeInit == Init => TypeInv
  BY NullAssumption DEF Init, TypeInv, TypeOK, CallsWellFormed, Idle, Call, Points,
     NoRow, TurnRow, ProcessState, WatcherState, SendPoints, CancelPoints, Running

\* The transition table stays within the states.
LEMMA SuccessorsAreStates ==
  ASSUME NEW from, NEW to, SessionTransitionAllowed(from, to)
  PROVE  to \in SessionState
  BY DEF SessionTransitionAllowed, SessionSuccessors, SessionState, Terminal, Waiting

\* Writing a turn's status keeps the rows a table of rows.
LEMMA WriteTurnType ==
  ASSUME TypeOK, NEW t \in Turns, NEW to \in TurnState, WriteTurn(t, to)
  PROVE  turnRow' \in [Turns -> TurnRow]
  BY DEF TypeOK, WriteTurn, TurnRow

\* A handler moves to another point and may record the state it has reached.
LEMMA MoveType ==
  ASSUME TypeInv, NEW c \in Clients, call[c].pc # "idle", core' = core,
         NEW p \in Points, NEW st \in SessionState \cup TurnState \cup {"none", "absent"},
         p \in SendPoints \cup CancelPoints => call[c].turn \in Turns,
         call' = [call EXCEPT ![c].pc = p, ![c].state = st]
  PROVE  call' \in [Clients -> Call] /\ CallsWellFormed'
<1> DEFINE moved == [call[c] EXCEPT !.pc = p, !.state = st]
<1>1. call \in [Clients -> Call] /\ CallsWellFormed
  BY DEF TypeInv, TypeOK
<1>2. moved \in Call
  BY <1>1 DEF Call
<1>3. moved.pc = p /\ moved.session = call[c].session /\ moved.turn = call[c].turn
  BY <1>1 DEF Call
<1>4. call' = [call EXCEPT ![c] = moved]
  BY <1>1
<1> HIDE DEF moved
<1>5. call' \in [Clients -> Call]
  BY <1>1, <1>2, <1>4
<1>6. CallsWellFormed'
  BY <1>1, <1>3, <1>4 DEF CallsWellFormed, Running
<1> QED
  BY <1>5, <1>6

\* A call keeps its fields when it moves on with another turn or sequence.
LEMMA CallFields ==
  ASSUME NEW k \in Call, NEW p \in Points
  PROVE  /\ \A t \in Turns \cup {NoTurn} : [k EXCEPT !.pc = p, !.turn = t] \in Call
         /\ \A n \in Nat : [k EXCEPT !.pc = p, !.sequence = n] \in Call
  BY DEF Call

\* The points the handlers of turns name.
LEMMA TurnPoints == {"settle", "kill", "insert"} \subseteq Points
  BY DEF Points, SendPoints, CancelPoints

\* A handler that moves on to one of its points stays a well-formed call.
LEMMA GotoType ==
  ASSUME TypeInv, NEW c \in Clients, call[c].pc # "idle", core' = core,
         NEW p \in Points,
         p \in SendPoints \cup CancelPoints => call[c].turn \in Turns,
         Goto(c, p)
  PROVE  call' \in [Clients -> Call] /\ CallsWellFormed'
  BY DEF TypeInv, TypeOK, CallsWellFormed, Call, Running, Goto

\* A client whose handler answers is idle again.
LEMMA ReturnType ==
  ASSUME TypeInv, NEW c \in Clients, core' = core, Return(c)
  PROVE  call' \in [Clients -> Call] /\ CallsWellFormed'
  BY DEF TypeInv, TypeOK, CallsWellFormed, Call, Running, Return, Idle, Points,
     SendPoints, CancelPoints

\* transition_session writes a state of the table, or nothing, and moves its handler.
LEMMA TransitionType ==
  ASSUME TypeInv, NEW c \in Clients, call[c].pc # "idle", core' = core,
         NEW to, NEW next \in Points \ (SendPoints \cup CancelPoints),
         TransitionSession(c, to, next)
  PROVE  /\ sessionStatus' \in [Sessions -> SessionState \cup {"absent"}]
         /\ call' \in [Clients -> Call]
         /\ CallsWellFormed'
<1>1. CASE ~SessionTransitionAllowed(call[c].state, to)
  BY <1>1, ReturnType DEF TransitionSession, TypeInv, TypeOK
<1>2. CASE SessionTransitionAllowed(call[c].state, to)
  <2>1. to \in SessionState
    BY <1>2, SuccessorsAreStates
  <2>2. sessionStatus' \in [Sessions -> SessionState \cup {"absent"}]
    BY <1>2, <2>1 DEF TransitionSession, TypeInv, TypeOK
  <2>3. CASE next = "idle"
    BY <1>2, <2>2, <2>3, ReturnType DEF TransitionSession, Return
  <2>4. CASE next # "idle"
    <3>1. call' = [call EXCEPT ![c].pc = next, ![c].state = to]
      BY <1>2, <2>4 DEF TransitionSession
    <3> QED
      BY <2>1, <2>2, <3>1, MoveType
  <2> QED
    BY <2>3, <2>4
<1> QED
  BY <1>1, <1>2

\* Every step keeps the types; one case per action of Next.
LEMMA TypeStep == TypeInv /\ [Next]_vars => TypeInv'
<1> SUFFICES ASSUME TypeInv, [Next]_vars PROVE TypeInv'
  OBVIOUS
<1>1. ASSUME NEW c \in Clients, NEW s \in Sessions, CreateSession(c, s)
      PROVE  TypeInv'
  BY <1>1 DEF CreateSession, SessionState, durable, registry, lifecycle, TypeInv, TypeOK,
     CallsWellFormed, Running
<1>2. ASSUME NEW c \in Clients, NEW s \in Sessions, StartSession(c, s)
      PROVE  TypeInv'
  BY <1>2 DEF StartSession, MayCall, Enter, Call, Points, SendPoints, CancelPoints, Methods,
     durable, registry, lifecycle, TypeInv, TypeOK, CallsWellFormed, Running
<1>3. ASSUME NEW c \in Clients, NEW s \in Sessions, CancelSession(c, s)
      PROVE  TypeInv'
  BY <1>3 DEF CancelSession, MayCall, Enter, Call, Points, SendPoints, CancelPoints,
     Methods, durable, registry, lifecycle, TypeInv, TypeOK, CallsWellFormed, Running
<1>4. ASSUME NEW c \in Clients, NEW s \in Sessions, PauseSession(c, s)
      PROVE  TypeInv'
  BY <1>4 DEF PauseSession, MayCall, Enter, Call, Points, SendPoints, CancelPoints, Methods,
     durable, registry, lifecycle, TypeInv, TypeOK, CallsWellFormed, Running
<1>5. ASSUME NEW c \in Clients, NEW s \in Sessions, ResumeSession(c, s)
      PROVE  TypeInv'
  BY <1>5 DEF ResumeSession, MayCall, Enter, Call, Points, SendPoints, CancelPoints,
     Methods, durable, registry, lifecycle, TypeInv, TypeOK, CallsWellFormed, Running
<1>6. ASSUME NEW c \in Clients, NEW s \in Sessions, SendTurn(c, s)
      PROVE  TypeInv'
  BY <1>6 DEF SendTurn, MayCall, Enter, Call, Points, SendPoints, CancelPoints, Methods,
     durable, registry, lifecycle, TypeInv, TypeOK, CallsWellFormed, Running
<1>7. ASSUME NEW c \in Clients, NEW s \in Sessions, CancelTurn(c, s)
      PROVE  TypeInv'
  BY <1>7 DEF CancelTurn, MayCall, Enter, Call, Points, SendPoints, CancelPoints, Methods,
     durable, registry, lifecycle, TypeInv, TypeOK, CallsWellFormed, Running
<1>8. ASSUME NEW c \in Clients, StartStep(c)
      PROVE  TypeInv'
  BY <1>8, TransitionType DEF StartStep, At, Points, SendPoints, CancelPoints, durable,
     registry, lifecycle, TypeInv, TypeOK
<1>9. ASSUME NEW c \in Clients, StartUpsert(c)
      PROVE  TypeInv'
  BY <1>9, ReturnType DEF StartUpsert, At, durable, registry, lifecycle, TypeInv, TypeOK,
     CallsWellFormed, Running
<1>10. ASSUME NEW c \in Clients, Lookup(c)
       PROVE  TypeInv'
  <2>1. call[c].session \in Sessions /\ call[c].pc # "idle"
    BY <1>10 DEF Lookup, At, TypeInv, TypeOK, CallsWellFormed, Running
  <2>2. active[call[c].session] \in Turns \cup {NoTurn}
    BY <2>1 DEF TypeInv, TypeOK
  <2>3. CASE active[call[c].session] = NoTurn
    <3>1. call' = [call EXCEPT ![c].pc = "settle", ![c].turn = NoTurn]
      BY <1>10, <2>3 DEF Lookup
    <3>2. call' \in [Clients -> Call]
      <4>1. [call[c] EXCEPT !.pc = "settle", !.turn = NoTurn] \in Call
        BY CallFields, TurnPoints DEF TypeInv, TypeOK
      <4>2. call' = [call EXCEPT ![c] = [call[c] EXCEPT !.pc = "settle", !.turn = NoTurn]]
        BY <3>1 DEF TypeInv, TypeOK
      <4> QED
        BY <4>1, <4>2 DEF TypeInv, TypeOK
    <3>3. CallsWellFormed'
      BY <1>10, <2>1, <3>1 DEF Lookup, Points, SendPoints, CancelPoints, lifecycle, TypeInv, TypeOK, CallsWellFormed, Running
    <3> QED
      BY <1>10, <3>2, <3>3 DEF Lookup, durable, registry, lifecycle, TypeInv, TypeOK
  <2>4. CASE active[call[c].session] \in Turns
    <3>1. call' = [call EXCEPT ![c].pc = "kill", ![c].turn = active[call[c].session]]
      BY <1>10, <2>4, NullAssumption DEF Lookup
    <3>2. call' \in [Clients -> Call]
      <4>1. [call[c] EXCEPT !.pc = "kill", !.turn = active[call[c].session]] \in Call
        BY <2>4, CallFields, TurnPoints DEF TypeInv, TypeOK
      <4>2. call' = [call EXCEPT ![c] = [call[c] EXCEPT !.pc = "kill", !.turn = active[call[c].session]]]
        BY <3>1 DEF TypeInv, TypeOK
      <4> QED
        BY <4>1, <4>2 DEF TypeInv, TypeOK
    <3>3. CallsWellFormed'
      BY <1>10, <2>1, <2>4, <3>1 DEF Lookup, Points, SendPoints, CancelPoints, lifecycle, TypeInv, TypeOK, CallsWellFormed, Running
    <3> QED
      BY <1>10, <3>2, <3>3 DEF Lookup, durable, registry, lifecycle, TypeInv, TypeOK
  <2> QED
    BY <2>2, <2>3, <2>4
<1>11. ASSUME NEW c \in Clients, Kill(c)
       PROVE  TypeInv'
  BY <1>11, GotoType DEF Kill, At, Killed, ProcessState, Points, SendPoints, CancelPoints,
     durable, registry, lifecycle, TypeInv, TypeOK, CallsWellFormed, Running
<1>12. ASSUME NEW c \in Clients, Unregister(c)
       PROVE  TypeInv'
  BY <1>12, GotoType DEF Unregister, At, SetActive, Points, SendPoints, CancelPoints,
     durable, registry, lifecycle, TypeInv, TypeOK, CallsWellFormed, Running
<1>13. ASSUME NEW c \in Clients, SettleSession(c)
       PROVE  TypeInv'
  BY <1>13, TransitionType, ReturnType DEF SettleSession, At, Points, SendPoints,
     CancelPoints, durable, registry, lifecycle, TypeInv, TypeOK
<1>14. ASSUME NEW c \in Clients, ResumePreparing(c)
       PROVE  TypeInv'
  BY <1>14, TransitionType DEF ResumePreparing, At, Points, SendPoints, CancelPoints,
     durable, registry, lifecycle, TypeInv, TypeOK
<1>15. ASSUME NEW c \in Clients, ResumeRunning(c)
       PROVE  TypeInv'
  BY <1>15, TransitionType DEF ResumeRunning, At, Points, SendPoints, CancelPoints, durable,
     registry, lifecycle, TypeInv, TypeOK
<1>16. ASSUME NEW c \in Clients, SendUpsert(c)
       PROVE  TypeInv'
  BY <1>16, GotoType DEF SendUpsert, At, Points, SendPoints, CancelPoints, durable,
     registry, lifecycle, TypeInv, TypeOK, CallsWellFormed, Running
<1>17. ASSUME NEW c \in Clients, SendSequence(c)
       PROVE  TypeInv'
  <2>1. PICK m \in {1} \cup {turnRow[t].sequence + 1 : t \in Turns} :
          call' = [call EXCEPT ![c].pc = "insert", ![c].sequence = m]
    BY <1>17 DEF SendSequence
  <2>2. m \in Nat
    BY <2>1 DEF TypeInv, TypeOK, CallsWellFormed, Running, TurnRow
  <2>3. call[c].pc = "sequence" /\ UNCHANGED <<durable, registry, watcher, process, lifecycle>>
    BY <1>17 DEF SendSequence, At
  <2>4. call' \in [Clients -> Call]
    <3>1. call[c] \in Call
      BY DEF TypeInv, TypeOK
    <3>2. [call[c] EXCEPT !.pc = "insert", !.sequence = m] \in Call
      BY <2>2, <3>1, CallFields, TurnPoints
    <3>3. call' = [call EXCEPT ![c] = [call[c] EXCEPT !.pc = "insert", !.sequence = m]]
      BY <2>1 DEF TypeInv, TypeOK
    <3> QED
      BY <3>2, <3>3 DEF TypeInv, TypeOK
  <2>5. CallsWellFormed'
    BY <2>1, <2>3 DEF TypeInv, TypeOK, CallsWellFormed, Running, SendPoints, CancelPoints, lifecycle
  <2> QED
    BY <2>3, <2>4, <2>5 DEF TypeInv, TypeOK, durable, registry, lifecycle
<1>18. ASSUME NEW c \in Clients, SendInsert(c)
       PROVE  TypeInv'
  <2>1. call[c].pc = "insert" /\ UNCHANGED <<sessionStatus, registry, watcher, process, lifecycle>>
    BY <1>18 DEF SendInsert, At
  <2>2. CASE Return(c) /\ UNCHANGED turnRow
    BY <2>1, <2>2, ReturnType DEF TypeInv, TypeOK, registry, lifecycle
  <2>3. ASSUME NEW t \in Turns,
               turnRow' = [turnRow EXCEPT ![t] = [status |-> "queued", session |-> call[c].session,
                                                  sequence |-> call[c].sequence]],
               call' = [call EXCEPT ![c].pc = "checkpoint", ![c].turn = t, ![c].state = "queued"]
        PROVE  TypeInv'
    <3>1. call[c] \in Call
      BY DEF TypeInv, TypeOK
    <3>2. turnRow' \in [Turns -> TurnRow]
      BY <2>3, <3>1 DEF TypeInv, TypeOK, Call, TurnRow, TurnState
    <3>3. call' \in [Clients -> Call]
      BY <2>3, <3>1 DEF TypeInv, TypeOK, Call, Points, SendPoints, TurnState
    <3>4. CallsWellFormed'
      BY <2>1, <2>3 DEF TypeInv, TypeOK, CallsWellFormed, Running, SendPoints, CancelPoints, lifecycle
    <3> QED
      BY <2>1, <3>2, <3>3, <3>4 DEF TypeInv, TypeOK, registry, lifecycle
  <2> QED
    BY <1>18, <2>2, <2>3 DEF SendInsert, Unused
<1>19. ASSUME NEW c \in Clients, SendCheckpoint(c)
       PROVE  TypeInv'
  BY <1>19, MoveType, WriteTurnType DEF SendCheckpoint, At, TurnState, Points, SendPoints,
     CancelPoints, durable, registry, lifecycle, TypeInv, TypeOK, CallsWellFormed, Running
<1>20. ASSUME NEW c \in Clients, SendStarted(c)
       PROVE  TypeInv'
  BY <1>20, MoveType, WriteTurnType DEF SendStarted, At, TurnState, Points, SendPoints,
     CancelPoints, durable, registry, lifecycle, TypeInv, TypeOK, CallsWellFormed, Running
<1>21. ASSUME NEW c \in Clients, SendSpawn(c)
       PROVE  TypeInv'
  BY <1>21, GotoType DEF SendSpawn, At, ProcessState, Points, SendPoints, CancelPoints,
     durable, registry, lifecycle, TypeInv, TypeOK, CallsWellFormed, Running
<1>22. ASSUME NEW c \in Clients, SendNotSpawned(c)
       PROVE  TypeInv'
  BY <1>22, ReturnType, WriteTurnType DEF SendNotSpawned, At, TurnState, Points, SendPoints,
     CancelPoints, durable, registry, lifecycle, TypeInv, TypeOK, CallsWellFormed, Running
<1>23. ASSUME NEW c \in Clients, SendRegister(c)
       PROVE  TypeInv'
  BY <1>23, ReturnType DEF SendRegister, At, SetActive, WatcherState, Points, SendPoints,
     CancelPoints, durable, registry, lifecycle, TypeInv, TypeOK, CallsWellFormed, Running
<1>24. ASSUME NEW c \in Clients, CancelReread(c)
       PROVE  TypeInv'
  <2>1. call[c].turn \in Turns /\ call[c].pc = "reread" /\ core' = core
    BY <1>24 DEF CancelReread, At, lifecycle, TypeInv, TypeOK, CallsWellFormed, Running, CancelPoints
  <2>2. turnRow[call[c].turn].status \in TurnState \cup {"absent"}
    BY <2>1 DEF TypeInv, TypeOK, TurnRow
  <2>3. call' \in [Clients -> Call] /\ CallsWellFormed'
    BY <1>24, <2>1, <2>2, MoveType, ReturnType DEF CancelReread, Points, CancelPoints
  <2> QED
    BY <1>24, <2>3 DEF CancelReread, TypeInv, TypeOK, durable, registry, lifecycle
<1>25. ASSUME NEW c \in Clients, CancelWrite(c)
       PROVE  TypeInv'
  BY <1>25, ReturnType, WriteTurnType DEF CancelWrite, At, TurnState, Points, SendPoints,
     CancelPoints, durable, registry, lifecycle, TypeInv, TypeOK, CallsWellFormed, Running
<1>26. ASSUME NEW c \in Clients, DropCall(c)
       PROVE  TypeInv'
  BY <1>26, ReturnType DEF DropCall, durable, registry, lifecycle, TypeInv, TypeOK,
     CallsWellFormed, Running
<1>27. ASSUME NEW t \in Turns, WatcherLock(t)
       PROVE  TypeInv'
  BY <1>27 DEF WatcherLock, WatchAt, Watch, WatcherState, durable, registry, lifecycle,
     TypeInv, TypeOK, CallsWellFormed, Running
<1>28. ASSUME NEW t \in Turns, WatcherWait(t)
       PROVE  TypeInv'
  BY <1>28 DEF WatcherWait, WatchAt, Watch, WatcherState, durable, registry, lifecycle,
     TypeInv, TypeOK, CallsWellFormed, Running
<1>29. ASSUME NEW t \in Turns, WatcherFinish(t)
       PROVE  TypeInv'
  BY <1>29, WriteTurnType DEF WatcherFinish, WatchAt, Watch, WatcherState, TurnState,
     durable, registry, lifecycle, TypeInv, TypeOK, CallsWellFormed, Running
<1>30. ASSUME NEW t \in Turns, WatcherComplete(t)
       PROVE  TypeInv'
  BY <1>30, WriteTurnType DEF WatcherComplete, WatchAt, Watch, WatcherState, TurnState,
     durable, registry, lifecycle, TypeInv, TypeOK, CallsWellFormed, Running
<1>31. ASSUME NEW t \in Turns, WatcherClear(t)
       PROVE  TypeInv'
  BY <1>31 DEF WatcherClear, WatchAt, Watch, WatcherState, SetActive, durable, registry,
     lifecycle, TypeInv, TypeOK, CallsWellFormed, Running
<1>32. ASSUME NEW t \in Turns, ProviderExits(t)
       PROVE  TypeInv'
  BY <1>32 DEF ProviderExits, ProcessState, durable, registry, lifecycle, TypeInv, TypeOK,
     CallsWellFormed, Running
<1>33. ASSUME NEW t \in Turns, ShutdownKill(t)
       PROVE  TypeInv'
  BY <1>33 DEF ShutdownKill, Killed, ProcessState, durable, registry, lifecycle, TypeInv,
     TypeOK, CallsWellFormed, Running
<1>34. ASSUME RequestShutdown
       PROVE  TypeInv'
  BY <1>34 DEF RequestShutdown, durable, registry, lifecycle, TypeInv, TypeOK,
     CallsWellFormed, Running
<1>35. ASSUME StopServing
       PROVE  TypeInv'
  BY <1>35 DEF StopServing, durable, registry, lifecycle, TypeInv, TypeOK, CallsWellFormed,
     Running
<1>36. ASSUME TakeHandles
       PROVE  TypeInv'
  BY <1>36 DEF TakeHandles, durable, registry, lifecycle, TypeInv, TypeOK, CallsWellFormed,
     Running
<1>37. ASSUME Exit
       PROVE  TypeInv'
  BY <1>37 DEF Exit, LoseMemory, ProcessState, WatcherState, Idle, Call, Points, SendPoints,
     CancelPoints, durable, registry, lifecycle, TypeInv, TypeOK, CallsWellFormed, Running
<1>38. ASSUME Crash
       PROVE  TypeInv'
  BY <1>38 DEF Crash, LoseMemory, ProcessState, WatcherState, Idle, Call, Points,
     SendPoints, CancelPoints, durable, registry, lifecycle, TypeInv, TypeOK,
     CallsWellFormed, Running
<1>39. ASSUME Restart
       PROVE  TypeInv'
  BY <1>39 DEF Restart, durable, registry, lifecycle, SessionState, TurnState, TurnRow,
     TypeInv, TypeOK, CallsWellFormed, Running
<1>40. CASE UNCHANGED vars
  BY <1>40 DEF vars, TypeInv, TypeOK, CallsWellFormed, Running
<1> QED
  BY <1>1, <1>2, <1>3, <1>4, <1>5, <1>6, <1>7, <1>8, <1>9, <1>10, <1>11, <1>12, <1>13,
     <1>14, <1>15, <1>16, <1>17, <1>18, <1>19, <1>20, <1>21, <1>22, <1>23, <1>24, <1>25,
     <1>26, <1>27, <1>28, <1>29, <1>30, <1>31, <1>32, <1>33, <1>34, <1>35, <1>36, <1>37,
     <1>38, <1>39, <1>40 DEF Next, Request, HandlerStep, WatcherStep, ShutdownStep

\* Every variable keeps its type: rows hold states of session_engine.rs, the
\* registry holds sessions and turns, calls are at points of their handlers.
THEOREM Types == Spec => []TypeOK
<1>1. Init => TypeInv
  BY TypeInit
<1>2. TypeInv /\ [Next]_vars => TypeInv'
  BY TypeStep
<1>3. TypeInv => TypeOK
  BY DEF TypeInv
<1> QED
  BY <1>1, <1>2, <1>3, PTL DEF Spec

-----------------------------------------------------------------------------
(***************************************************************************)
(* The turns.                                                              *)
(***************************************************************************)

\* Without rows, processes and calls there is nothing to own.
LEMMA TurnsInit == Init => TurnsInv
  BY NullAssumption DEF Init, TurnsInv, RowsFirst, SendersAreKnown, SenderInv, CancelInv, WatcherInv,
     ActiveInv, DownInv, EndedTurnsHaveNoProcess, LiveProcessesAreWatched,
     CompletedTurnsExitedCleanly, UnfinishedTurnsAreOwned, Unfinished, Sending, Running,
     Idle, NoRow, Terminal, TurnState, SendPoints, CancelPoints

\* A step of one client that neither is nor becomes a turn.send at work on a
\* turn, and that begins no cancellation, leaves the invariant alone.
LEMMA QuietStep ==
  ASSUME TypeInv, TypeInv', TurnsInv, NEW c \in Clients,
         UNCHANGED <<turnRow, active, watcher, process>>,
         known \subseteq known', Running <=> Running', serving' => serving,
         \A d \in Clients \ {c} : call'[d] = call[d],
         call[c].pc \notin SendPoints, call'[c].pc \notin SendPoints,
         call'[c].turn \in {call[c].turn, NoTurn},
         call'[c].pc \in {"sequence", "insert"} => call'[c].session \in known',
         call'[c].pc \in CancelPoints =>
           /\ call[c].pc \in CancelPoints
           /\ call'[c].turn = call[c].turn
           /\ call'[c].pc # "kill" => process[call[c].turn] # "running"
  PROVE  TurnsInv'
  <1>1. RowsFirst'
    BY NullAssumption DEF TurnsInv, RowsFirst, TypeInv, TypeOK, Running, CallsWellFormed
  <1>2. SendersAreKnown'
    BY NullAssumption DEF TurnsInv, SendersAreKnown, SendPoints, TypeInv, TypeOK, Running
  <1>3. SenderInv'
    BY NullAssumption DEF TurnsInv, SenderInv, SendPoints, CancelPoints, Sending, TypeInv,
       TypeOK, Running, CallsWellFormed
  <1>4. CancelInv'
    BY NullAssumption DEF TurnsInv, CancelInv, CancelPoints, TypeInv, TypeOK, Running,
       CallsWellFormed
  <1>5. WatcherInv'
    BY NullAssumption DEF TurnsInv, WatcherInv, TypeInv, TypeOK, Running
  <1>6. ActiveInv'
    BY NullAssumption DEF TurnsInv, ActiveInv, TypeInv, TypeOK, Running
  <1>7. DownInv'
    BY NullAssumption DEF TurnsInv, DownInv, TypeInv, TypeOK, Running
  <1>8. EndedTurnsHaveNoProcess'
    BY NullAssumption DEF TurnsInv, EndedTurnsHaveNoProcess, TypeInv, TypeOK, Running
  <1>9. LiveProcessesAreWatched'
    BY NullAssumption DEF TurnsInv, LiveProcessesAreWatched, SendPoints, TypeInv, TypeOK,
       Running
  <1>10. CompletedTurnsExitedCleanly'
    BY NullAssumption DEF TurnsInv, CompletedTurnsExitedCleanly, TypeInv, TypeOK, Running
  <1>11. UnfinishedTurnsAreOwned'
    BY NullAssumption DEF TurnsInv, UnfinishedTurnsAreOwned, Unfinished, Sending,
       SendPoints, TypeInv, TypeOK, Running
  <1> QED
    BY <1>1, <1>2, <1>3, <1>4, <1>5, <1>6, <1>7, <1>8, <1>9, <1>10, <1>11 DEF TurnsInv

\* What a change of the point and the read state does to the fields of a call.
LEMMA MovedFields ==
  ASSUME NEW r \in Call, NEW p, NEW st
  PROVE  /\ [r EXCEPT !.pc = p, !.state = st].pc = p
         /\ [r EXCEPT !.pc = p, !.state = st].turn = r.turn
         /\ [r EXCEPT !.pc = p, !.state = st].session = r.session
  BY DEF Call

\* A transition moves one client, to the next point or out of its handler.
LEMMA TransitionMoves ==
  ASSUME TypeOK, NEW c \in Clients, NEW to, NEW next, TransitionSession(c, to, next)
  PROVE  /\ \A d \in Clients \ {c} : call'[d] = call[d]
         /\ \/ call'[c] = Idle
            \/ /\ call'[c].pc = next
               /\ call'[c].turn = call[c].turn
               /\ call'[c].session = call[c].session
<1>1. call \in [Clients -> Call] /\ call[c] \in Call
  BY DEF TypeOK
<1>2. CASE call' = [call EXCEPT ![c] = Idle]
  BY <1>1, <1>2
<1>3. CASE call' = [call EXCEPT ![c] = [call[c] EXCEPT !.pc = next, !.state = to]]
  BY <1>1, <1>3, MovedFields
<1> QED
  BY <1>1, <1>2, <1>3 DEF TransitionSession, Return

\* A write of a turn row changes one status and nothing else.
LEMMA WriteTurnEffect ==
  ASSUME TypeOK, NEW t \in Turns, NEW to, WriteTurn(t, to)
  PROVE  \A u \in Turns :
           /\ turnRow'[u].session = turnRow[u].session
           /\ turnRow'[u].sequence = turnRow[u].sequence
           /\ turnRow'[u].status = IF u = t THEN to ELSE turnRow[u].status
  BY DEF TypeOK, WriteTurn, TurnRow

\* Every step keeps the ownership of turns; one case per action of Next.
LEMMA TurnsStep == TypeInv /\ TypeInv' /\ TurnsInv /\ [Next]_vars => TurnsInv'
<1> SUFFICES ASSUME TypeInv, TypeInv', TurnsInv, [Next]_vars PROVE TurnsInv'
  OBVIOUS
<1>1. ASSUME NEW c \in Clients, NEW s \in Sessions, CreateSession(c, s)
      PROVE  TurnsInv'
  BY <1>1, QuietStep, NullAssumption DEF CreateSession, Idle, durable, registry, lifecycle,
     SendPoints, CancelPoints, Running, TypeInv, TypeOK, CallsWellFormed, Call
<1>2. ASSUME NEW c \in Clients, NEW s \in Sessions, StartSession(c, s)
      PROVE  TurnsInv'
  BY <1>2, QuietStep, NullAssumption DEF StartSession, MayCall, Enter, durable, registry,
     lifecycle, SendPoints, CancelPoints, Running, TypeInv, TypeOK, CallsWellFormed, Call
<1>3. ASSUME NEW c \in Clients, NEW s \in Sessions, CancelSession(c, s)
      PROVE  TurnsInv'
  BY <1>3, QuietStep, NullAssumption DEF CancelSession, MayCall, Enter, durable, registry,
     lifecycle, SendPoints, CancelPoints, Running, TypeInv, TypeOK, CallsWellFormed, Call
<1>4. ASSUME NEW c \in Clients, NEW s \in Sessions, PauseSession(c, s)
      PROVE  TurnsInv'
  BY <1>4, QuietStep, NullAssumption DEF PauseSession, MayCall, Enter, durable, registry,
     lifecycle, SendPoints, CancelPoints, Running, TypeInv, TypeOK, CallsWellFormed, Call
<1>5. ASSUME NEW c \in Clients, NEW s \in Sessions, ResumeSession(c, s)
      PROVE  TurnsInv'
  BY <1>5, QuietStep, NullAssumption DEF ResumeSession, MayCall, Enter, durable, registry,
     lifecycle, SendPoints, CancelPoints, Running, TypeInv, TypeOK, CallsWellFormed, Call
<1>6. ASSUME NEW c \in Clients, NEW s \in Sessions, SendTurn(c, s)
      PROVE  TurnsInv'
  BY <1>6, QuietStep, NullAssumption DEF SendTurn, MayCall, Enter, durable, registry,
     lifecycle, SendPoints, CancelPoints, Running, TypeInv, TypeOK, CallsWellFormed, Call
<1>7. ASSUME NEW c \in Clients, NEW s \in Sessions, CancelTurn(c, s)
      PROVE  TurnsInv'
  BY <1>7, NullAssumption DEF CancelTurn, MayCall, TurnsInv, RowsFirst, SendersAreKnown,
     SenderInv, CancelInv, WatcherInv, ActiveInv, DownInv, EndedTurnsHaveNoProcess,
     LiveProcessesAreWatched, CompletedTurnsExitedCleanly, UnfinishedTurnsAreOwned,
     Unfinished, Sending, Running, TypeInv, TypeOK, CallsWellFormed, durable, registry,
     lifecycle, SendPoints, CancelPoints, Call
<1>8. ASSUME NEW c \in Clients, StartStep(c)
      PROVE  TurnsInv'
  <2>1. /\ \A d \in Clients \ {c} : call'[d] = call[d]
        /\ call'[c].pc \in {"idle", "step", "upsert", "resuming"}
        /\ call'[c].turn \in {call[c].turn, NoTurn}
    BY <1>8, TransitionMoves DEF StartStep, TypeInv, Idle
  <2> QED
    BY <1>8, <2>1, QuietStep DEF StartStep, At, durable, registry, lifecycle, Running, SendPoints,
       CancelPoints
<1>9. ASSUME NEW c \in Clients, SettleSession(c)
      PROVE  TurnsInv'
  BY <1>9, QuietStep, NullAssumption DEF SettleSession, At, TransitionSession, Return, Idle,
     durable, registry, lifecycle, SendPoints, CancelPoints, Running, TypeInv, TypeOK,
     CallsWellFormed, Call
<1>10. ASSUME NEW c \in Clients, ResumePreparing(c)
       PROVE  TurnsInv'
  <2>1. /\ \A d \in Clients \ {c} : call'[d] = call[d]
        /\ call'[c].pc \in {"idle", "step", "upsert", "resuming"}
        /\ call'[c].turn \in {call[c].turn, NoTurn}
    BY <1>10, TransitionMoves DEF ResumePreparing, TypeInv, Idle
  <2> QED
    BY <1>10, <2>1, QuietStep DEF ResumePreparing, At, durable, registry, lifecycle, Running, SendPoints,
       CancelPoints
<1>11. ASSUME NEW c \in Clients, ResumeRunning(c)
       PROVE  TurnsInv'
  BY <1>11, QuietStep, NullAssumption DEF ResumeRunning, At, TransitionSession, Return,
     Idle, durable, registry, lifecycle, SendPoints, CancelPoints, Running, TypeInv, TypeOK,
     CallsWellFormed, Call
<1>12. ASSUME NEW c \in Clients, StartUpsert(c)
       PROVE  TurnsInv'
  BY <1>12, QuietStep, NullAssumption DEF StartUpsert, At, Return, Idle, durable, registry,
     lifecycle, SendPoints, CancelPoints, Running, TypeInv, TypeOK, CallsWellFormed, Call
<1>13. ASSUME NEW c \in Clients, Lookup(c)
       PROVE  TurnsInv'
  <2> DEFINE t == active[call[c].session]
  <2>1. /\ call[c].pc = "lookup" /\ call[c].session \in Sessions
        /\ UNCHANGED <<turnRow, known, active, watcher, process, core, serving>>
        /\ \A d \in Clients \ {c} : call'[d] = call[d]
        /\ call'[c].turn = t
        /\ call'[c].pc = IF t = NoTurn THEN "settle" ELSE "kill"
    BY <1>13 DEF Lookup, At, durable, registry, lifecycle, TypeInv, TypeOK, CallsWellFormed, Call
  <2>2. t # NoTurn => t \in Turns /\ watcher[t] # "none"
    BY <2>1 DEF TypeInv, TypeOK, TurnsInv, ActiveInv
  <2> HIDE DEF t
  <2>3. RowsFirst'
    BY <2>1, <2>2, NullAssumption DEF TurnsInv, RowsFirst, TypeInv, TypeOK, Running
  <2>4. SendersAreKnown'
    BY <2>1, <2>2, NullAssumption DEF TurnsInv, SendersAreKnown, SendPoints, TypeInv,
       TypeOK, Running
  <2>5. SenderInv'
    BY <2>1, <2>2, NullAssumption DEF TurnsInv, SenderInv, SendPoints, CancelPoints,
       Sending, TypeInv, TypeOK, Running
  <2>6. CancelInv'
    BY <2>1, <2>2, NullAssumption DEF TurnsInv, CancelInv, CancelPoints, TypeInv, TypeOK,
       Running
  <2>7. WatcherInv'
    BY <2>1, <2>2, NullAssumption DEF TurnsInv, WatcherInv, TypeInv, TypeOK, Running
  <2>8. ActiveInv'
    BY <2>1, <2>2, NullAssumption DEF TurnsInv, ActiveInv, TypeInv, TypeOK, Running
  <2>9. DownInv'
    BY <2>1, <2>2, NullAssumption DEF TurnsInv, DownInv, TypeInv, TypeOK, Running
  <2>10. EndedTurnsHaveNoProcess'
    BY <2>1, <2>2, NullAssumption DEF TurnsInv, EndedTurnsHaveNoProcess, TypeInv, TypeOK,
       Running
  <2>11. LiveProcessesAreWatched'
    BY <2>1, <2>2, NullAssumption DEF TurnsInv, LiveProcessesAreWatched, SendPoints,
       TypeInv, TypeOK, Running
  <2>12. CompletedTurnsExitedCleanly'
    BY <2>1, <2>2, NullAssumption DEF TurnsInv, CompletedTurnsExitedCleanly, TypeInv,
       TypeOK, Running
  <2>13. UnfinishedTurnsAreOwned'
    BY <2>1, <2>2, NullAssumption DEF TurnsInv, UnfinishedTurnsAreOwned, Unfinished,
       Sending, SendPoints, TypeInv, TypeOK, Running
  <2> QED
    BY <2>3, <2>4, <2>5, <2>6, <2>7, <2>8, <2>9, <2>10, <2>11, <2>12, <2>13 DEF TurnsInv
<1>14. ASSUME NEW c \in Clients, Kill(c)
       PROVE  TurnsInv'
  BY <1>14, NullAssumption DEF Kill, At, Goto, Killed, TurnsInv, RowsFirst, SendersAreKnown,
     SenderInv, CancelInv, WatcherInv, ActiveInv, DownInv, EndedTurnsHaveNoProcess,
     LiveProcessesAreWatched, CompletedTurnsExitedCleanly, UnfinishedTurnsAreOwned,
     Unfinished, Sending, Running, TypeInv, TypeOK, CallsWellFormed, durable, registry,
     lifecycle, SendPoints, CancelPoints, Call
<1>15. ASSUME NEW c \in Clients, Unregister(c)
       PROVE  TurnsInv'
  BY <1>15, NullAssumption DEF Unregister, At, Goto, SetActive, TurnsInv, RowsFirst,
     SendersAreKnown, SenderInv, CancelInv, WatcherInv, ActiveInv, DownInv,
     EndedTurnsHaveNoProcess, LiveProcessesAreWatched, CompletedTurnsExitedCleanly,
     UnfinishedTurnsAreOwned, Unfinished, Sending, Running, TypeInv, TypeOK,
     CallsWellFormed, durable, registry, lifecycle, SendPoints, CancelPoints, Call
<1>16. ASSUME NEW c \in Clients, SendUpsert(c)
       PROVE  TurnsInv'
  BY <1>16, QuietStep, NullAssumption DEF SendUpsert, At, Goto, durable, registry,
     lifecycle, SendPoints, CancelPoints, Running, TypeInv, TypeOK, CallsWellFormed, Call
<1>17. ASSUME NEW c \in Clients, SendSequence(c)
       PROVE  TurnsInv'
  <2>1. PICK m \in {1} \cup {turnRow[t].sequence + 1 : t \in Turns} :
          call' = [call EXCEPT ![c].pc = "insert", ![c].sequence = m]
    BY <1>17 DEF SendSequence
  <2>2. /\ call[c].pc = "sequence" /\ call \in [Clients -> Call] /\ call[c] \in Call
        /\ UNCHANGED <<turnRow, known, active, watcher, process, core, serving>>
        /\ call[c].session \in known
    BY <1>17 DEF SendSequence, At, durable, registry, lifecycle, TypeInv, TypeOK, TurnsInv,
       SendersAreKnown
  <2>3. /\ \A d \in Clients \ {c} : call'[d] = call[d]
        /\ call'[c].pc = "insert" /\ call'[c].turn = call[c].turn
        /\ call'[c].session = call[c].session
    BY <2>1, <2>2 DEF Call
  <2> QED
    BY <2>2, <2>3, QuietStep DEF Running, SendPoints, CancelPoints
<1>18. ASSUME NEW c \in Clients, SendInsert(c)
       PROVE  TurnsInv'
  <2>1. /\ call[c].pc = "insert" /\ call[c] \in Call /\ call \in [Clients -> Call]
        /\ call[c].session \in known
        /\ UNCHANGED <<known, active, watcher, process, core, serving>>
    BY <1>18 DEF SendInsert, At, registry, lifecycle, TypeInv, TypeOK, TurnsInv, SendersAreKnown
  <2>2. CASE Return(c) /\ UNCHANGED turnRow
    BY <2>1, <2>2, QuietStep DEF Return, Idle, registry, Running, SendPoints, CancelPoints
  <2>3. ASSUME NEW t \in Unused,
               turnRow' = [turnRow EXCEPT ![t] = [status |-> "queued", session |-> call[c].session,
                                                  sequence |-> call[c].sequence]],
               call' = [call EXCEPT ![c].pc = "checkpoint", ![c].turn = t, ![c].state = "queued"]
        PROVE  TurnsInv'
    <3>1. /\ \A u \in Turns \ {t} : turnRow'[u] = turnRow[u]
          /\ turnRow'[t].status = "queued" /\ turnRow'[t].session = call[c].session
          /\ t \in Turns /\ turnRow[t].status = "absent"
      BY <2>3 DEF Unused, TypeInv, TypeOK
    <3>2. /\ \A d \in Clients \ {c} : call'[d] = call[d]
          /\ call'[c].pc = "checkpoint" /\ call'[c].turn = t
          /\ call'[c].session = call[c].session
      BY <2>1, <2>3 DEF Call
    <3>3. watcher[t] = "none" /\ process[t] = "none" /\ \A d \in Clients : call[d].turn # t
      BY <3>1 DEF TurnsInv, RowsFirst
    <3>4. RowsFirst'
      BY <2>1, <3>1, <3>2, <3>3, NullAssumption DEF TurnsInv, RowsFirst, TypeInv, TypeOK,
         CallsWellFormed, Running
    <3>5. SendersAreKnown'
      BY <2>1, <3>1, <3>2, <3>3, NullAssumption DEF TurnsInv, SendersAreKnown, SendPoints,
         TypeInv, TypeOK, CallsWellFormed, Running
    <3>6. SenderInv'
      BY <2>1, <3>1, <3>2, <3>3, NullAssumption DEF TurnsInv, SenderInv, SendPoints,
         CancelPoints, Sending, TypeInv, TypeOK, CallsWellFormed, Running, RowsFirst
    <3>7. CancelInv'
      BY <2>1, <3>1, <3>2, <3>3, NullAssumption DEF TurnsInv, CancelInv, CancelPoints,
         TypeInv, TypeOK, CallsWellFormed, Running
    <3>8. WatcherInv'
      BY <2>1, <3>1, <3>2, <3>3, NullAssumption DEF TurnsInv, WatcherInv, TypeInv, TypeOK,
         CallsWellFormed, Running, Terminal, TurnState
    <3>9. ActiveInv'
      BY <2>1, <3>1, <3>2, <3>3, NullAssumption DEF TurnsInv, ActiveInv, TypeInv, TypeOK,
         CallsWellFormed, Running
    <3>10. DownInv'
      BY <2>1, <3>1, <3>2, <3>3, NullAssumption DEF TurnsInv, DownInv, TypeInv, TypeOK,
         CallsWellFormed, Running
    <3>11. EndedTurnsHaveNoProcess'
      BY <2>1, <3>1, <3>2, <3>3, NullAssumption DEF TurnsInv, EndedTurnsHaveNoProcess,
         TypeInv, TypeOK, CallsWellFormed, Running, Terminal, TurnState
    <3>12. LiveProcessesAreWatched'
      BY <2>1, <3>1, <3>2, <3>3, NullAssumption DEF TurnsInv, LiveProcessesAreWatched,
         SendPoints, TypeInv, TypeOK, CallsWellFormed, Running
    <3>13. CompletedTurnsExitedCleanly'
      BY <2>1, <3>1, <3>2, <3>3, NullAssumption DEF TurnsInv, CompletedTurnsExitedCleanly,
         TypeInv, TypeOK, CallsWellFormed, Running
    <3>14. UnfinishedTurnsAreOwned'
      BY <2>1, <3>1, <3>2, <3>3, NullAssumption DEF TurnsInv, UnfinishedTurnsAreOwned,
         Unfinished, Sending, SendPoints, TypeInv, TypeOK, CallsWellFormed, Running
    <3> QED
      BY <3>4, <3>5, <3>6, <3>7, <3>8, <3>9, <3>10, <3>11, <3>12, <3>13, <3>14 DEF TurnsInv
  <2> QED
    BY <1>18, <2>2, <2>3 DEF SendInsert
<1>19. ASSUME NEW c \in Clients, SendCheckpoint(c)
       PROVE  TurnsInv'
  <2> DEFINE t == call[c].turn
  <2>1. /\ call[c].pc = "checkpoint" /\ call \in [Clients -> Call] /\ call[c] \in Call /\ t \in Turns
        /\ UNCHANGED <<known, active, watcher, process, core, serving>>
    BY <1>19 DEF SendCheckpoint, At, registry, lifecycle, TypeInv, TypeOK, CallsWellFormed, SendPoints
  <2>2. \A u \in Turns : /\ turnRow'[u].session = turnRow[u].session
                          /\ turnRow'[u].status = IF u = t THEN "sending" ELSE turnRow[u].status
    BY <1>19, <2>1, WriteTurnEffect DEF SendCheckpoint, TypeInv
  <2>3. call' = [call EXCEPT ![c] = [call[c] EXCEPT !.pc = "spawn", !.state = "sending"]]
    BY <1>19, <2>1 DEF SendCheckpoint
  <2>4. /\ \A d \in Clients \ {c} : call'[d] = call[d]
        /\ call'[c].pc = "spawn" /\ call'[c].turn = t /\ call'[c].session = call[c].session
    BY <2>1, <2>3, MovedFields
  <2>5. /\ watcher[t] = "none" /\ turnRow[t].status = "queued" /\ process[t] = "none"
        /\ turnRow[t].session = call[c].session
        /\ \A d \in Clients : Sending(d, t) => d = c
    BY <2>1 DEF TurnsInv, SenderInv, SendPoints
  <2>6. t = call[c].turn
    OBVIOUS
  <2> HIDE DEF t
  <2>7. RowsFirst'
    BY <2>1, <2>2, <2>4, <2>5, <2>6 DEF TurnsInv, RowsFirst, CallsWellFormed, TypeInv
  <2>8. SendersAreKnown'
    BY <2>1, <2>2, <2>4, <2>5, <2>6 DEF TurnsInv, SendersAreKnown, SendPoints,
       CallsWellFormed, TypeInv
  <2>9. SenderInv'
    BY <2>1, <2>2, <2>4, <2>5, <2>6 DEF TurnsInv, SenderInv, SendPoints, CancelPoints,
       Sending, CallsWellFormed, TypeInv
  <2>10. CancelInv'
    BY <2>1, <2>2, <2>4, <2>5, <2>6 DEF TurnsInv, CancelInv, CancelPoints, CallsWellFormed,
       TypeInv
  <2>11. WatcherInv'
    BY <2>1, <2>2, <2>4, <2>5, <2>6 DEF TurnsInv, WatcherInv, CallsWellFormed, TypeInv,
       Terminal, TurnState, Running
  <2>12. ActiveInv'
    BY <2>1, <2>2, <2>4, <2>5, <2>6 DEF TurnsInv, ActiveInv, CallsWellFormed, TypeInv,
       TypeOK
  <2>13. DownInv'
    BY <2>1, <2>2, <2>4, <2>5, <2>6 DEF TurnsInv, DownInv, CallsWellFormed, TypeInv, Running
  <2>14. EndedTurnsHaveNoProcess'
    BY <2>1, <2>2, <2>4, <2>5, <2>6 DEF TurnsInv, EndedTurnsHaveNoProcess, CallsWellFormed,
       TypeInv, Terminal, TurnState, Running
  <2>15. LiveProcessesAreWatched'
    BY <2>1, <2>2, <2>4, <2>5, <2>6 DEF TurnsInv, LiveProcessesAreWatched, SendPoints,
       CallsWellFormed, TypeInv, Sending
  <2>16. CompletedTurnsExitedCleanly'
    BY <2>1, <2>2, <2>4, <2>5, <2>6 DEF TurnsInv, CompletedTurnsExitedCleanly,
       CallsWellFormed, TypeInv
  <2>17. UnfinishedTurnsAreOwned'
    BY <2>1, <2>2, <2>4, <2>5, <2>6 DEF TurnsInv, UnfinishedTurnsAreOwned, Unfinished,
       Sending, SendPoints, CallsWellFormed, TypeInv, Terminal, TurnState, Running
  <2> QED
    BY <2>7, <2>8, <2>9, <2>10, <2>11, <2>12, <2>13, <2>14, <2>15, <2>16, <2>17 DEF TurnsInv
<1>20. ASSUME NEW c \in Clients, SendStarted(c)
       PROVE  TurnsInv'
  <2> DEFINE t == call[c].turn
  <2>1. /\ call[c].pc = "started" /\ call \in [Clients -> Call] /\ call[c] \in Call /\ t \in Turns
        /\ UNCHANGED <<known, active, watcher, process, core, serving>>
    BY <1>20 DEF SendStarted, At, registry, lifecycle, TypeInv, TypeOK, CallsWellFormed, SendPoints
  <2>2. \A u \in Turns : /\ turnRow'[u].session = turnRow[u].session
                          /\ turnRow'[u].status = IF u = t THEN "running" ELSE turnRow[u].status
    BY <1>20, <2>1, WriteTurnEffect DEF SendStarted, TypeInv
  <2>3. call' = [call EXCEPT ![c] = [call[c] EXCEPT !.pc = "register", !.state = "running"]]
    BY <1>20, <2>1 DEF SendStarted
  <2>4. /\ \A d \in Clients \ {c} : call'[d] = call[d]
        /\ call'[c].pc = "register" /\ call'[c].turn = t /\ call'[c].session = call[c].session
    BY <2>1, <2>3, MovedFields
  <2>5. /\ watcher[t] = "none" /\ turnRow[t].status = "sending"
        /\ turnRow[t].session = call[c].session
        /\ \A d \in Clients : Sending(d, t) => d = c
    BY <2>1 DEF TurnsInv, SenderInv, SendPoints
  <2>6. t = call[c].turn
    OBVIOUS
  <2> HIDE DEF t
  <2>7. RowsFirst'
    BY <2>1, <2>2, <2>4, <2>5, <2>6 DEF TurnsInv, RowsFirst, CallsWellFormed, TypeInv
  <2>8. SendersAreKnown'
    BY <2>1, <2>2, <2>4, <2>5, <2>6 DEF TurnsInv, SendersAreKnown, SendPoints,
       CallsWellFormed, TypeInv
  <2>9. SenderInv'
    BY <2>1, <2>2, <2>4, <2>5, <2>6 DEF TurnsInv, SenderInv, SendPoints, CancelPoints,
       Sending, CallsWellFormed, TypeInv
  <2>10. CancelInv'
    BY <2>1, <2>2, <2>4, <2>5, <2>6 DEF TurnsInv, CancelInv, CancelPoints, CallsWellFormed,
       TypeInv
  <2>11. WatcherInv'
    BY <2>1, <2>2, <2>4, <2>5, <2>6 DEF TurnsInv, WatcherInv, CallsWellFormed, TypeInv,
       Terminal, TurnState, Running
  <2>12. ActiveInv'
    BY <2>1, <2>2, <2>4, <2>5, <2>6 DEF TurnsInv, ActiveInv, CallsWellFormed, TypeInv,
       TypeOK
  <2>13. DownInv'
    BY <2>1, <2>2, <2>4, <2>5, <2>6 DEF TurnsInv, DownInv, CallsWellFormed, TypeInv, Running
  <2>14. EndedTurnsHaveNoProcess'
    BY <2>1, <2>2, <2>4, <2>5, <2>6 DEF TurnsInv, EndedTurnsHaveNoProcess, CallsWellFormed,
       TypeInv, Terminal, TurnState, Running
  <2>15. LiveProcessesAreWatched'
    BY <2>1, <2>2, <2>4, <2>5, <2>6 DEF TurnsInv, LiveProcessesAreWatched, SendPoints,
       CallsWellFormed, TypeInv, Sending
  <2>16. CompletedTurnsExitedCleanly'
    BY <2>1, <2>2, <2>4, <2>5, <2>6 DEF TurnsInv, CompletedTurnsExitedCleanly,
       CallsWellFormed, TypeInv
  <2>17. UnfinishedTurnsAreOwned'
    BY <2>1, <2>2, <2>4, <2>5, <2>6 DEF TurnsInv, UnfinishedTurnsAreOwned, Unfinished,
       Sending, SendPoints, CallsWellFormed, TypeInv, Terminal, TurnState, Running
  <2> QED
    BY <2>7, <2>8, <2>9, <2>10, <2>11, <2>12, <2>13, <2>14, <2>15, <2>16, <2>17 DEF TurnsInv
<1>21. ASSUME NEW c \in Clients, SendNotSpawned(c)
       PROVE  TurnsInv'
  BY <1>21, NullAssumption DEF SendNotSpawned, At, Return, Idle, WriteTurn, TurnState,
     Terminal, TurnRow, TurnsInv, RowsFirst, SendersAreKnown, SenderInv, CancelInv,
     WatcherInv, ActiveInv, DownInv, EndedTurnsHaveNoProcess, LiveProcessesAreWatched,
     CompletedTurnsExitedCleanly, UnfinishedTurnsAreOwned, Unfinished, Sending, Running,
     TypeInv, TypeOK, CallsWellFormed, durable, registry, lifecycle, SendPoints,
     CancelPoints, Call
<1>22. ASSUME NEW c \in Clients, SendSpawn(c)
       PROVE  TurnsInv'
  BY <1>22, NullAssumption DEF SendSpawn, At, Goto, TurnState, Terminal, TurnsInv,
     RowsFirst, SendersAreKnown, SenderInv, CancelInv, WatcherInv, ActiveInv, DownInv,
     EndedTurnsHaveNoProcess, LiveProcessesAreWatched, CompletedTurnsExitedCleanly,
     UnfinishedTurnsAreOwned, Unfinished, Sending, Running, TypeInv, TypeOK,
     CallsWellFormed, durable, registry, lifecycle, SendPoints, CancelPoints, Call
<1>23. ASSUME NEW c \in Clients, SendRegister(c)
       PROVE  TurnsInv'
  BY <1>23, NullAssumption DEF SendRegister, At, Return, Idle, SetActive, WatcherState,
     TurnsInv, RowsFirst, SendersAreKnown, SenderInv, CancelInv, WatcherInv, ActiveInv,
     DownInv, EndedTurnsHaveNoProcess, LiveProcessesAreWatched, CompletedTurnsExitedCleanly,
     UnfinishedTurnsAreOwned, Unfinished, Sending, Running, TypeInv, TypeOK,
     CallsWellFormed, durable, registry, lifecycle, SendPoints, CancelPoints, Call
<1>24. ASSUME NEW c \in Clients, CancelReread(c)
       PROVE  TurnsInv'
  <2>1. call[c].pc = "reread" /\ call \in [Clients -> Call] /\ call[c] \in Call
    BY <1>24 DEF CancelReread, At, TypeInv, TypeOK
  <2>2. process[call[c].turn] # "running"
    BY <2>1 DEF TurnsInv, CancelInv, CancelPoints
  <2>3. CASE call' = [call EXCEPT ![c] = Idle]
    BY <1>24, <2>1, <2>3, QuietStep DEF CancelReread, Idle, durable, registry, lifecycle,
       Running, SendPoints, CancelPoints
  <2>4. CASE call' = [call EXCEPT ![c].pc = "cancelled",
                                  ![c].state = turnRow[call[c].turn].status]
    <3>1. call' = [call EXCEPT ![c] = [call[c] EXCEPT !.pc = "cancelled",
                                        !.state = turnRow[call[c].turn].status]]
      BY <2>1, <2>4
    <3>2. /\ \A d \in Clients \ {c} : call'[d] = call[d]
          /\ call'[c].pc = "cancelled" /\ call'[c].turn = call[c].turn
      BY <2>1, <3>1, MovedFields
    <3> QED
      BY <1>24, <2>1, <2>2, <3>2, QuietStep DEF CancelReread, durable, registry, lifecycle,
         Running, SendPoints, CancelPoints
  <2> QED
    BY <1>24, <2>3, <2>4 DEF CancelReread, Return
<1>25. ASSUME NEW c \in Clients, CancelWrite(c)
       PROVE  TurnsInv'
  <2> DEFINE t == call[c].turn
  <2>1. /\ call[c].pc = "cancelled" /\ call \in [Clients -> Call] /\ t \in Turns
        /\ UNCHANGED <<known, active, watcher, process, core, serving>>
        /\ call' = [call EXCEPT ![c] = Idle]
    BY <1>25 DEF CancelWrite, At, Return, registry, lifecycle, TypeInv, TypeOK, CallsWellFormed,
       CancelPoints
  <2>2. CASE UNCHANGED turnRow
    BY <2>1, <2>2, QuietStep DEF Idle, Running, SendPoints, CancelPoints
  <2>3. CASE WriteTurn(t, "cancelled")
    <3>1. \A u \in Turns : /\ turnRow'[u].session = turnRow[u].session
                            /\ turnRow'[u].status = IF u = t THEN "cancelled" ELSE turnRow[u].status
      BY <2>1, <2>3, WriteTurnEffect DEF TypeInv
    <3>2. watcher[t] # "none" /\ process[t] # "running"
      BY <2>1 DEF TurnsInv, CancelInv, CancelPoints
    <3>3. call'[c].pc = "idle" /\ call'[c].turn = NoTurn /\ \A d \in Clients \ {c} : call'[d] = call[d]
      BY <2>1 DEF Idle
    <3> HIDE DEF t
    <3>4. RowsFirst'
      BY <2>1, <3>1, <3>2, <3>3, NullAssumption DEF TurnsInv, RowsFirst, TypeInv, TypeOK,
         CallsWellFormed, Running
    <3>5. SendersAreKnown'
      BY <2>1, <3>1, <3>2, <3>3, NullAssumption DEF TurnsInv, SendersAreKnown, SendPoints,
         TypeInv, TypeOK, CallsWellFormed, Running
    <3>6. SenderInv'
      BY <2>1, <3>1, <3>2, <3>3, NullAssumption DEF TurnsInv, SenderInv, SendPoints,
         CancelPoints, Sending, TypeInv, TypeOK, CallsWellFormed, Running, CancelPoints
    <3>7. CancelInv'
      BY <2>1, <3>1, <3>2, <3>3, NullAssumption DEF TurnsInv, CancelInv, CancelPoints,
         TypeInv, TypeOK, CallsWellFormed, Running
    <3>8. WatcherInv'
      BY <2>1, <3>1, <3>2, <3>3, NullAssumption DEF TurnsInv, WatcherInv, TypeInv, TypeOK,
         CallsWellFormed, Running, Terminal, TurnState
    <3>9. ActiveInv'
      BY <2>1, <3>1, <3>2, <3>3, NullAssumption DEF TurnsInv, ActiveInv, TypeInv, TypeOK,
         CallsWellFormed, Running
    <3>10. DownInv'
      BY <2>1, <3>1, <3>2, <3>3, NullAssumption DEF TurnsInv, DownInv, TypeInv, TypeOK,
         CallsWellFormed, Running
    <3>11. EndedTurnsHaveNoProcess'
      BY <2>1, <3>1, <3>2, <3>3, NullAssumption DEF TurnsInv, EndedTurnsHaveNoProcess,
         TypeInv, TypeOK, CallsWellFormed, Running, Terminal, TurnState
    <3>12. LiveProcessesAreWatched'
      BY <2>1, <3>1, <3>2, <3>3, NullAssumption DEF TurnsInv, LiveProcessesAreWatched,
         SendPoints, TypeInv, TypeOK, CallsWellFormed, Running
    <3>13. CompletedTurnsExitedCleanly'
      BY <2>1, <3>1, <3>2, <3>3, NullAssumption DEF TurnsInv, CompletedTurnsExitedCleanly,
         TypeInv, TypeOK, CallsWellFormed, Running
    <3>14. UnfinishedTurnsAreOwned'
      BY <2>1, <3>1, <3>2, <3>3, NullAssumption DEF TurnsInv, UnfinishedTurnsAreOwned,
         Unfinished, Sending, SendPoints, TypeInv, TypeOK, CallsWellFormed, Running,
         Terminal, TurnState
    <3> QED
      BY <3>4, <3>5, <3>6, <3>7, <3>8, <3>9, <3>10, <3>11, <3>12, <3>13, <3>14 DEF TurnsInv
  <2> QED
    BY <1>25, <2>2, <2>3 DEF CancelWrite
<1>26. ASSUME NEW c \in Clients, DropCall(c)
       PROVE  TurnsInv'
  BY <1>26, NullAssumption DEF DropCall, Return, Idle, Awaits, TurnsInv, RowsFirst,
     SendersAreKnown, SenderInv, CancelInv, WatcherInv, ActiveInv, DownInv,
     EndedTurnsHaveNoProcess, LiveProcessesAreWatched, CompletedTurnsExitedCleanly,
     UnfinishedTurnsAreOwned, Unfinished, Sending, Running, TypeInv, TypeOK,
     CallsWellFormed, durable, registry, lifecycle, SendPoints, CancelPoints, Call
<1>27. ASSUME NEW t \in Turns, WatcherLock(t)
       PROVE  TurnsInv'
  BY <1>27, NullAssumption DEF WatcherLock, WatchAt, Watch, WatcherState, TurnsInv,
     RowsFirst, SendersAreKnown, SenderInv, CancelInv, WatcherInv, ActiveInv, DownInv,
     EndedTurnsHaveNoProcess, LiveProcessesAreWatched, CompletedTurnsExitedCleanly,
     UnfinishedTurnsAreOwned, Unfinished, Sending, Running, TypeInv, TypeOK,
     CallsWellFormed, durable, registry, lifecycle, SendPoints, CancelPoints, Call
<1>28. ASSUME NEW t \in Turns, WatcherWait(t)
       PROVE  TurnsInv'
  BY <1>28, NullAssumption DEF WatcherWait, WatchAt, Watch, WatcherState, TurnsInv,
     RowsFirst, SendersAreKnown, SenderInv, CancelInv, WatcherInv, ActiveInv, DownInv,
     EndedTurnsHaveNoProcess, LiveProcessesAreWatched, CompletedTurnsExitedCleanly,
     UnfinishedTurnsAreOwned, Unfinished, Sending, Running, TypeInv, TypeOK,
     CallsWellFormed, durable, registry, lifecycle, SendPoints, CancelPoints, Call
<1>29. ASSUME NEW t \in Turns, WatcherFinish(t)
       PROVE  TurnsInv'
  <2>1. PICK to \in {"completing", "failed"} :
          /\ WriteTurn(t, to)
          /\ watcher' = [watcher EXCEPT ![t] = IF to = "failed" THEN "clearing" ELSE "completing"]
          /\ process[t] = "ok" <=> to = "completing"
    BY <1>29 DEF WatcherFinish, Watch
  <2>2. /\ watcher[t] = "exited" /\ UNCHANGED <<call, known, active, process, core, serving>>
    BY <1>29 DEF WatcherFinish, WatchAt, registry, lifecycle
  <2>3. \A u \in Turns : /\ turnRow'[u].session = turnRow[u].session
                          /\ turnRow'[u].status = IF u = t THEN to ELSE turnRow[u].status
    BY <2>1, WriteTurnEffect DEF TypeInv
  <2>4. watcher \in [Turns -> WatcherState]
    BY DEF TypeInv, TypeOK
  <2>5. process[t] # "running" /\ turnRow[t].session \in known
    BY <2>2 DEF TurnsInv, WatcherInv
  <2>6. RowsFirst'
    BY <2>1, <2>2, <2>3, <2>4, <2>5 DEF TurnsInv, RowsFirst, TypeInv, CallsWellFormed,
       Running
  <2>7. SendersAreKnown'
    BY <2>1, <2>2, <2>3, <2>4, <2>5 DEF TurnsInv, SendersAreKnown, SendPoints, TypeInv,
       CallsWellFormed, Running
  <2>8. SenderInv'
    BY <2>1, <2>2, <2>3, <2>4, <2>5 DEF TurnsInv, SenderInv, SendPoints, CancelPoints,
       Sending, TypeInv, CallsWellFormed, Running, TypeOK
  <2>9. CancelInv'
    BY <2>1, <2>2, <2>3, <2>4, <2>5 DEF TurnsInv, CancelInv, CancelPoints, TypeInv,
       CallsWellFormed, Running
  <2>10. WatcherInv'
    BY <2>1, <2>2, <2>3, <2>4, <2>5 DEF TurnsInv, WatcherInv, TypeInv, CallsWellFormed,
       Running, Terminal, TurnState
  <2>11. ActiveInv'
    BY <2>1, <2>2, <2>3, <2>4, <2>5 DEF TurnsInv, ActiveInv, TypeInv, CallsWellFormed,
       Running, WatcherState, TypeOK
  <2>12. DownInv'
    BY <2>1, <2>2, <2>3, <2>4, <2>5 DEF TurnsInv, DownInv, TypeInv, CallsWellFormed, Running
  <2>13. EndedTurnsHaveNoProcess'
    BY <2>1, <2>2, <2>3, <2>4, <2>5 DEF TurnsInv, EndedTurnsHaveNoProcess, TypeInv,
       CallsWellFormed, Running, Terminal, TurnState
  <2>14. LiveProcessesAreWatched'
    BY <2>1, <2>2, <2>3, <2>4, <2>5 DEF TurnsInv, LiveProcessesAreWatched, SendPoints,
       TypeInv, CallsWellFormed, Running
  <2>15. CompletedTurnsExitedCleanly'
    BY <2>1, <2>2, <2>3, <2>4, <2>5 DEF TurnsInv, CompletedTurnsExitedCleanly, TypeInv,
       CallsWellFormed, Running
  <2>16. UnfinishedTurnsAreOwned'
    BY <2>1, <2>2, <2>3, <2>4, <2>5 DEF TurnsInv, UnfinishedTurnsAreOwned, Unfinished,
       Sending, SendPoints, TypeInv, CallsWellFormed, Running, Terminal, TurnState
  <2> QED
    BY <2>6, <2>7, <2>8, <2>9, <2>10, <2>11, <2>12, <2>13, <2>14, <2>15, <2>16 DEF TurnsInv
<1>30. ASSUME NEW t \in Turns, WatcherComplete(t)
       PROVE  TurnsInv'
  BY <1>30, NullAssumption DEF WatcherComplete, WatchAt, Watch, WatcherState, WriteTurn,
     TurnState, Terminal, TurnRow, TurnsInv, RowsFirst, SendersAreKnown, SenderInv,
     CancelInv, WatcherInv, ActiveInv, DownInv, EndedTurnsHaveNoProcess,
     LiveProcessesAreWatched, CompletedTurnsExitedCleanly, UnfinishedTurnsAreOwned,
     Unfinished, Sending, Running, TypeInv, TypeOK, CallsWellFormed, durable, registry,
     lifecycle, SendPoints, CancelPoints, Call
<1>31. ASSUME NEW t \in Turns, WatcherClear(t)
       PROVE  TurnsInv'
  BY <1>31, NullAssumption DEF WatcherClear, WatchAt, Watch, WatcherState, SetActive,
     TurnsInv, RowsFirst, SendersAreKnown, SenderInv, CancelInv, WatcherInv, ActiveInv,
     DownInv, EndedTurnsHaveNoProcess, LiveProcessesAreWatched, CompletedTurnsExitedCleanly,
     UnfinishedTurnsAreOwned, Unfinished, Sending, Running, TypeInv, TypeOK,
     CallsWellFormed, durable, registry, lifecycle, SendPoints, CancelPoints, Call
<1>32. ASSUME NEW t \in Turns, ProviderExits(t)
       PROVE  TurnsInv'
  BY <1>32, NullAssumption DEF ProviderExits, TurnsInv, RowsFirst, SendersAreKnown,
     SenderInv, CancelInv, WatcherInv, ActiveInv, DownInv, EndedTurnsHaveNoProcess,
     LiveProcessesAreWatched, CompletedTurnsExitedCleanly, UnfinishedTurnsAreOwned,
     Unfinished, Sending, Running, TypeInv, TypeOK, CallsWellFormed, durable, registry,
     lifecycle, SendPoints, CancelPoints, Call
<1>33. ASSUME NEW t \in Turns, ShutdownKill(t)
       PROVE  TurnsInv'
  BY <1>33, NullAssumption DEF ShutdownKill, Killed, TurnsInv, RowsFirst, SendersAreKnown,
     SenderInv, CancelInv, WatcherInv, ActiveInv, DownInv, EndedTurnsHaveNoProcess,
     LiveProcessesAreWatched, CompletedTurnsExitedCleanly, UnfinishedTurnsAreOwned,
     Unfinished, Sending, Running, TypeInv, TypeOK, CallsWellFormed, durable, registry,
     lifecycle, SendPoints, CancelPoints, Call
<1>34. ASSUME RequestShutdown
       PROVE  TurnsInv'
  BY <1>34, NullAssumption DEF RequestShutdown, TurnsInv, RowsFirst, SendersAreKnown,
     SenderInv, CancelInv, WatcherInv, ActiveInv, DownInv, EndedTurnsHaveNoProcess,
     LiveProcessesAreWatched, CompletedTurnsExitedCleanly, UnfinishedTurnsAreOwned,
     Unfinished, Sending, Running, TypeInv, TypeOK, CallsWellFormed, durable, registry,
     lifecycle, SendPoints, CancelPoints, Call
<1>35. ASSUME StopServing
       PROVE  TurnsInv'
  BY <1>35, NullAssumption DEF StopServing, TurnsInv, RowsFirst, SendersAreKnown, SenderInv,
     CancelInv, WatcherInv, ActiveInv, DownInv, EndedTurnsHaveNoProcess,
     LiveProcessesAreWatched, CompletedTurnsExitedCleanly, UnfinishedTurnsAreOwned,
     Unfinished, Sending, Running, TypeInv, TypeOK, CallsWellFormed, durable, registry,
     lifecycle, SendPoints, CancelPoints, Call
<1>36. ASSUME TakeHandles
       PROVE  TurnsInv'
  BY <1>36, NullAssumption DEF TakeHandles, TurnsInv, RowsFirst, SendersAreKnown, SenderInv,
     CancelInv, WatcherInv, ActiveInv, DownInv, EndedTurnsHaveNoProcess,
     LiveProcessesAreWatched, CompletedTurnsExitedCleanly, UnfinishedTurnsAreOwned,
     Unfinished, Sending, Running, TypeInv, TypeOK, CallsWellFormed, durable, registry,
     lifecycle, SendPoints, CancelPoints, Call
<1>37. ASSUME Exit
       PROVE  TurnsInv'
  BY <1>37, NullAssumption DEF Exit, LoseMemory, Idle, TurnsInv, RowsFirst, SendersAreKnown,
     SenderInv, CancelInv, WatcherInv, ActiveInv, DownInv, EndedTurnsHaveNoProcess,
     LiveProcessesAreWatched, CompletedTurnsExitedCleanly, UnfinishedTurnsAreOwned,
     Unfinished, Sending, Running, TypeInv, TypeOK, CallsWellFormed, durable, registry,
     lifecycle, SendPoints, CancelPoints, Call
<1>38. ASSUME Crash
       PROVE  TurnsInv'
  BY <1>38, NullAssumption DEF Crash, LoseMemory, Idle, TurnsInv, RowsFirst,
     SendersAreKnown, SenderInv, CancelInv, WatcherInv, ActiveInv, DownInv,
     EndedTurnsHaveNoProcess, LiveProcessesAreWatched, CompletedTurnsExitedCleanly,
     UnfinishedTurnsAreOwned, Unfinished, Sending, Running, TypeInv, TypeOK,
     CallsWellFormed, durable, registry, lifecycle, SendPoints, CancelPoints, Call
<1>39. ASSUME Restart
       PROVE  TurnsInv'
  BY <1>39, NullAssumption DEF Restart, Terminal, TurnState, TurnRow, TurnsInv, RowsFirst,
     SendersAreKnown, SenderInv, CancelInv, WatcherInv, ActiveInv, DownInv,
     EndedTurnsHaveNoProcess, LiveProcessesAreWatched, CompletedTurnsExitedCleanly,
     UnfinishedTurnsAreOwned, Unfinished, Sending, Running, TypeInv, TypeOK,
     CallsWellFormed, durable, registry, lifecycle, SendPoints, CancelPoints, Call
<1>40. CASE UNCHANGED vars
  <2>1. RowsFirst'
    BY <1>40 DEF TurnsInv, RowsFirst, vars, Running
  <2>2. SendersAreKnown'
    BY <1>40 DEF TurnsInv, SendersAreKnown, SendPoints, vars, Running
  <2>3. SenderInv'
    BY <1>40 DEF TurnsInv, SenderInv, SendPoints, CancelPoints, Sending, vars, Running
  <2>4. CancelInv'
    BY <1>40 DEF TurnsInv, CancelInv, CancelPoints, vars, Running
  <2>5. WatcherInv'
    BY <1>40 DEF TurnsInv, WatcherInv, vars, Running
  <2>6. ActiveInv'
    BY <1>40 DEF TurnsInv, ActiveInv, vars, Running
  <2>7. DownInv'
    BY <1>40 DEF TurnsInv, DownInv, vars, Running
  <2>8. EndedTurnsHaveNoProcess'
    BY <1>40 DEF TurnsInv, EndedTurnsHaveNoProcess, vars, Running
  <2>9. LiveProcessesAreWatched'
    BY <1>40 DEF TurnsInv, LiveProcessesAreWatched, SendPoints, vars, Running
  <2>10. CompletedTurnsExitedCleanly'
    BY <1>40 DEF TurnsInv, CompletedTurnsExitedCleanly, vars, Running
  <2>11. UnfinishedTurnsAreOwned'
    BY <1>40 DEF TurnsInv, UnfinishedTurnsAreOwned, Unfinished, Sending, SendPoints, vars,
       Running
  <2> QED
    BY <2>1, <2>2, <2>3, <2>4, <2>5, <2>6, <2>7, <2>8, <2>9, <2>10, <2>11 DEF TurnsInv
<1> QED
  BY <1>1, <1>2, <1>3, <1>4, <1>5, <1>6, <1>7, <1>8, <1>9, <1>10, <1>11, <1>12, <1>13,
     <1>14, <1>15, <1>16, <1>17, <1>18, <1>19, <1>20, <1>21, <1>22, <1>23, <1>24, <1>25,
     <1>26, <1>27, <1>28, <1>29, <1>30, <1>31, <1>32, <1>33, <1>34, <1>35, <1>36, <1>37,
     <1>38, <1>39, <1>40 DEF Next, Request, HandlerStep, WatcherStep, ShutdownStep

\* While requests are served, a turn in progress has a turn.send or a watcher
\* that will end it, whatever handlers, cancellations and crashes interleave.
THEOREM OwnedTurns == Spec => []UnfinishedTurnsAreOwned
<1>1. Init => TypeInv /\ TurnsInv
  BY TypeInit, TurnsInit
<1>2. TypeInv /\ TurnsInv /\ [Next]_vars => TypeInv' /\ TurnsInv'
  BY TypeStep, TurnsStep
<1>3. TurnsInv => UnfinishedTurnsAreOwned
  BY DEF TurnsInv
<1> QED
  BY <1>1, <1>2, <1>3, PTL DEF Spec

\* No provider process of this core works on a turn whose row has ended: every
\* path that ends a row has killed the child or has seen it exit.
THEOREM EndedTurns == Spec => []EndedTurnsHaveNoProcess
<1>1. Init => TypeInv /\ TurnsInv
  BY TypeInit, TurnsInit
<1>2. TypeInv /\ TurnsInv /\ [Next]_vars => TypeInv' /\ TurnsInv'
  BY TypeStep, TurnsStep
<1>3. TurnsInv => EndedTurnsHaveNoProcess
  BY DEF TurnsInv
<1> QED
  BY <1>1, <1>2, <1>3, PTL DEF Spec

\* No provider process is spawned and forgotten: a watcher waits for it, or the
\* turn.send that spawned it is about to start one.
THEOREM WatchedProcesses == Spec => []LiveProcessesAreWatched
<1>1. Init => TypeInv /\ TurnsInv
  BY TypeInit, TurnsInit
<1>2. TypeInv /\ TurnsInv /\ [Next]_vars => TypeInv' /\ TurnsInv'
  BY TypeStep, TurnsStep
<1>3. TurnsInv => LiveProcessesAreWatched
  BY DEF TurnsInv
<1> QED
  BY <1>1, <1>2, <1>3, PTL DEF Spec

\* A turn is recorded as completed only if its provider exited with code 0.
THEOREM CompletedTurns == Spec => []CompletedTurnsExitedCleanly
<1>1. Init => TypeInv /\ TurnsInv
  BY TypeInit, TurnsInit
<1>2. TypeInv /\ TurnsInv /\ [Next]_vars => TypeInv' /\ TurnsInv'
  BY TypeStep, TurnsStep
<1>3. TurnsInv => CompletedTurnsExitedCleanly
  BY DEF TurnsInv
<1> QED
  BY <1>1, <1>2, <1>3, PTL DEF Spec

\* A registration never outlives the watcher that clears it, so turn.send does
\* not refuse a session for ever.
THEOREM Registrations == Spec => []RegistrationsEnd
<1>1. Init => TypeInv /\ TurnsInv
  BY TypeInit, TurnsInit
<1>2. TypeInv /\ TurnsInv /\ [Next]_vars => TypeInv' /\ TurnsInv'
  BY TypeStep, TurnsStep
<1>3. TurnsInv => RegistrationsEnd
  BY DEF TurnsInv, ActiveInv, RegistrationsEnd
<1> QED
  BY <1>1, <1>2, <1>3, PTL DEF Spec

-----------------------------------------------------------------------------
(***************************************************************************)
(* The numbers of the turns of a session.                                  *)
(***************************************************************************)

\* Every number before n is taken in session s.
TakenBefore(s, n) ==
  \A k \in 1..(n - 1) : \E u \in Turns : turnRow[u].session = s /\ turnRow[u].sequence = k

\* The numbers are dense, and a number that waits to be inserted leaves no gap.
SequencesInv ==
  /\ \A t \in Turns : turnRow[t].status = "absent" => turnRow[t].session = NoSession
  /\ \A t, u \in Turns :
       (/\ turnRow[t].session \in Sessions
        /\ turnRow[t].session = turnRow[u].session
        /\ turnRow[t].sequence = turnRow[u].sequence) => t = u
  /\ \A t \in Turns : turnRow[t].session \in Sessions =>
       TakenBefore(turnRow[t].session, turnRow[t].sequence)
  /\ \A c \in Clients : call[c].pc = "insert" =>
       TakenBefore(call[c].session, call[c].sequence)

\* Rows keep their session and number, and no other number waits to be inserted.
LEMMA NumbersKept ==
  ASSUME TypeInv, SequencesInv,
         \A t \in Turns : /\ turnRow'[t].session = turnRow[t].session
                          /\ turnRow'[t].sequence = turnRow[t].sequence
                          /\ turnRow'[t].status = "absent" => turnRow[t].status = "absent",
         \A c \in Clients : call'[c].pc = "insert" => call'[c] = call[c]
  PROVE  SequencesInv'
<1>1. \A s, n : TakenBefore(s, n) => TakenBefore(s, n)'
  BY DEF TakenBefore
<1> QED
  BY <1>1 DEF SequencesInv

\* Every step keeps the numbering dense: only SendNumber reads a number and
\* only SendInsert and a crash between them use it up or drop it.
LEMMA SequencesStep == TypeInv /\ TypeInv' /\ SequencesInv /\ [Next]_vars => SequencesInv'
<1> SUFFICES ASSUME TypeInv, TypeInv', SequencesInv, [Next]_vars PROVE SequencesInv'
  OBVIOUS
<1>1. ASSUME NEW c \in Clients, NEW s \in Sessions, CreateSession(c, s)
      PROVE  SequencesInv'
  BY <1>1, NumbersKept DEF CreateSession, durable, registry, lifecycle, TypeInv, TypeOK,
     Call
<1>2. ASSUME NEW c \in Clients, NEW s \in Sessions, StartSession(c, s)
      PROVE  SequencesInv'
  BY <1>2, NumbersKept DEF StartSession, MayCall, Enter, durable, registry, lifecycle,
     TypeInv, TypeOK, Call
<1>3. ASSUME NEW c \in Clients, NEW s \in Sessions, CancelSession(c, s)
      PROVE  SequencesInv'
  BY <1>3, NumbersKept DEF CancelSession, MayCall, Enter, durable, registry, lifecycle,
     TypeInv, TypeOK, Call
<1>4. ASSUME NEW c \in Clients, NEW s \in Sessions, PauseSession(c, s)
      PROVE  SequencesInv'
  BY <1>4, NumbersKept DEF PauseSession, MayCall, Enter, durable, registry, lifecycle,
     TypeInv, TypeOK, Call
<1>5. ASSUME NEW c \in Clients, NEW s \in Sessions, ResumeSession(c, s)
      PROVE  SequencesInv'
  BY <1>5, NumbersKept DEF ResumeSession, MayCall, Enter, durable, registry, lifecycle,
     TypeInv, TypeOK, Call
<1>6. ASSUME NEW c \in Clients, NEW s \in Sessions, SendTurn(c, s)
      PROVE  SequencesInv'
  BY <1>6, NumbersKept DEF SendTurn, MayCall, Enter, durable, registry, lifecycle, TypeInv,
     TypeOK, Call
<1>7. ASSUME NEW c \in Clients, NEW s \in Sessions, CancelTurn(c, s)
      PROVE  SequencesInv'
  BY <1>7, NumbersKept DEF CancelTurn, MayCall, Enter, durable, registry, lifecycle,
     TypeInv, TypeOK, Call
<1>8. ASSUME NEW c \in Clients, StartStep(c)
      PROVE  SequencesInv'
  BY <1>8, TransitionMoves, NumbersKept DEF StartStep, Return, Idle, durable, registry,
     lifecycle, TypeInv, TypeOK, Call
<1>9. ASSUME NEW c \in Clients, SettleSession(c)
      PROVE  SequencesInv'
  BY <1>9, TransitionMoves, NumbersKept DEF SettleSession, Return, Idle, durable, registry,
     lifecycle, TypeInv, TypeOK, Call
<1>10. ASSUME NEW c \in Clients, ResumePreparing(c)
       PROVE  SequencesInv'
  BY <1>10, TransitionMoves, NumbersKept DEF ResumePreparing, Return, Idle, durable,
     registry, lifecycle, TypeInv, TypeOK, Call
<1>11. ASSUME NEW c \in Clients, ResumeRunning(c)
       PROVE  SequencesInv'
  BY <1>11, TransitionMoves, NumbersKept DEF ResumeRunning, Return, Idle, durable, registry,
     lifecycle, TypeInv, TypeOK, Call
<1>12. ASSUME NEW c \in Clients, StartUpsert(c)
       PROVE  SequencesInv'
  BY <1>12, NumbersKept DEF StartUpsert, At, Return, Idle, durable, registry, lifecycle,
     TypeInv, TypeOK, Call
<1>13. ASSUME NEW c \in Clients, Lookup(c)
       PROVE  SequencesInv'
  BY <1>13, NumbersKept DEF Lookup, At, durable, registry, lifecycle, TypeInv, TypeOK, Call
<1>14. ASSUME NEW c \in Clients, Kill(c)
       PROVE  SequencesInv'
  BY <1>14, NumbersKept DEF Kill, At, Goto, durable, registry, lifecycle, TypeInv, TypeOK,
     Call
<1>15. ASSUME NEW c \in Clients, Unregister(c)
       PROVE  SequencesInv'
  BY <1>15, NumbersKept DEF Unregister, At, Goto, durable, registry, lifecycle, TypeInv,
     TypeOK, Call
<1>16. ASSUME NEW c \in Clients, SendUpsert(c)
       PROVE  SequencesInv'
  BY <1>16, NumbersKept DEF SendUpsert, At, Goto, durable, registry, lifecycle, TypeInv,
     TypeOK, Call
<1>17. ASSUME NEW c \in Clients, SendSpawn(c)
       PROVE  SequencesInv'
  BY <1>17, NumbersKept DEF SendSpawn, At, Goto, durable, registry, lifecycle, TypeInv,
     TypeOK, Call
<1>18. ASSUME NEW c \in Clients, SendSequence(c)
       PROVE  SequencesInv'
  <2>1. PICK m \in {1} \cup {turnRow[t].sequence + 1 : t \in Turns} :
          /\ IsNextSequence(call[c].session, m)
          /\ call' = [call EXCEPT ![c].pc = "insert", ![c].sequence = m]
    BY <1>18 DEF SendSequence
  <2>2. /\ \A d \in Clients \ {c} : call'[d] = call[d]
        /\ call'[c].session = call[c].session /\ call'[c].sequence = m
        /\ call[c].session \in Sessions /\ UNCHANGED turnRow
    BY <1>18, <2>1 DEF SendSequence, At, durable, TypeInv, TypeOK, CallsWellFormed, Call
  <2>3. TakenBefore(call[c].session, m)
    <3>1. CASE m = 1
      BY <3>1 DEF TakenBefore
    <3>2. ASSUME NEW t \in TurnsOf(call[c].session), m = turnRow[t].sequence + 1
          PROVE  TakenBefore(call[c].session, m)
      <4>1. TakenBefore(call[c].session, turnRow[t].sequence) /\ turnRow[t].sequence \in Nat
        BY <2>2 DEF SequencesInv, TurnsOf, TypeInv, TypeOK, TurnRow
      <4> QED
        BY <3>2, <4>1 DEF TakenBefore, TurnsOf
    <3> QED
      BY <2>1, <3>1, <3>2 DEF IsNextSequence
  <2>4. \A s, n : TakenBefore(s, n) => TakenBefore(s, n)'
    BY <2>2 DEF TakenBefore
  <2> QED
    BY <2>2, <2>3, <2>4 DEF SequencesInv
<1>19. ASSUME NEW c \in Clients, SendInsert(c)
       PROVE  SequencesInv'
  <2>1. CASE Return(c) /\ UNCHANGED turnRow
    BY <2>1, NumbersKept DEF Return, Idle, TypeInv, TypeOK
  <2>2. ASSUME NEW t \in Unused,
               \A u \in TurnsOf(call[c].session) : turnRow[u].sequence # call[c].sequence,
               turnRow' = [turnRow EXCEPT ![t] = [status |-> "queued", session |-> call[c].session,
                                                  sequence |-> call[c].sequence]],
               call' = [call EXCEPT ![c].pc = "checkpoint", ![c].turn = t, ![c].state = "queued"]
        PROVE  SequencesInv'
    <3>1. /\ t \in Turns /\ turnRow[t].session = NoSession
          /\ call[c].pc = "insert" /\ call[c].session \in Sessions /\ call[c].sequence \in Nat
      BY <1>19, <2>2 DEF SendInsert, At, Unused, SequencesInv, TypeInv, TypeOK, CallsWellFormed, Call
    <3>2. /\ \A u \in Turns \ {t} : turnRow'[u] = turnRow[u]
          /\ turnRow'[t].status = "queued" /\ turnRow'[t].session = call[c].session
          /\ turnRow'[t].sequence = call[c].sequence
      BY <2>2, <3>1 DEF TypeInv, TypeOK
    <3>3. call'[c].pc # "insert" /\ \A d \in Clients \ {c} : call'[d] = call[d]
      BY <2>2 DEF TypeInv, TypeOK, Call
    <3>4. \A s \in Sessions : \A n : TakenBefore(s, n) => TakenBefore(s, n)'
      BY <3>1, <3>2, NullAssumption DEF TakenBefore
    <3>5. \A d \in Clients : call[d].pc = "insert" => call[d].session \in Sessions
      BY DEF TypeInv, CallsWellFormed
    <3>6. TakenBefore(call[c].session, call[c].sequence)
      BY <3>1 DEF SequencesInv
    <3>7. \A u \in Turns : turnRow'[u].status = "absent" => turnRow'[u].session = NoSession
      BY <3>2 DEF SequencesInv
    <3>8. \A u, v \in Turns :
            /\ turnRow'[u].session \in Sessions
            /\ turnRow'[u].session = turnRow'[v].session
            /\ turnRow'[u].sequence = turnRow'[v].sequence
            => u = v
      BY <2>2, <3>1, <3>2 DEF SequencesInv, TurnsOf
    <3>9. (\A u \in Turns : turnRow[u].session \in Sessions =>
            TakenBefore(turnRow[u].session, turnRow[u].sequence))'
      BY <3>1, <3>2, <3>4, <3>6 DEF SequencesInv
    <3>10. (\A d \in Clients : call[d].pc = "insert" =>
             TakenBefore(call[d].session, call[d].sequence))'
      BY <3>3, <3>4, <3>5 DEF SequencesInv
    <3> QED
      BY <3>7, <3>8, <3>9, <3>10 DEF SequencesInv
  <2> QED
    BY <1>19, <2>1, <2>2 DEF SendInsert
<1>20. ASSUME NEW c \in Clients, SendCheckpoint(c)
       PROVE  SequencesInv'
  <2>1. call[c].turn \in Turns
    BY <1>20 DEF SendCheckpoint, At, TypeInv, CallsWellFormed, SendPoints, CancelPoints
  <2>2. call'[c].pc # "insert" /\ \A d \in Clients \ {c} : call'[d] = call[d]
    BY <1>20 DEF SendCheckpoint, Return, Idle, TypeInv, TypeOK, Call
  <2>3. UNCHANGED turnRow \/ \E to \in TurnState : WriteTurn(call[c].turn, to)
    BY <1>20 DEF SendCheckpoint, TurnState
  <2> QED
    BY <2>1, <2>2, <2>3, WriteTurnEffect, NumbersKept DEF TypeInv, TurnState
<1>21. ASSUME NEW c \in Clients, SendNotSpawned(c)
       PROVE  SequencesInv'
  <2>1. call[c].turn \in Turns
    BY <1>21 DEF SendNotSpawned, At, TypeInv, CallsWellFormed, SendPoints, CancelPoints
  <2>2. call'[c].pc # "insert" /\ \A d \in Clients \ {c} : call'[d] = call[d]
    BY <1>21 DEF SendNotSpawned, Return, Idle, TypeInv, TypeOK, Call
  <2>3. UNCHANGED turnRow \/ \E to \in TurnState : WriteTurn(call[c].turn, to)
    BY <1>21 DEF SendNotSpawned, TurnState
  <2> QED
    BY <2>1, <2>2, <2>3, WriteTurnEffect, NumbersKept DEF TypeInv, TurnState
<1>22. ASSUME NEW c \in Clients, SendStarted(c)
       PROVE  SequencesInv'
  <2>1. call[c].turn \in Turns
    BY <1>22 DEF SendStarted, At, TypeInv, CallsWellFormed, SendPoints, CancelPoints
  <2>2. call'[c].pc # "insert" /\ \A d \in Clients \ {c} : call'[d] = call[d]
    BY <1>22 DEF SendStarted, Return, Idle, TypeInv, TypeOK, Call
  <2>3. UNCHANGED turnRow \/ \E to \in TurnState : WriteTurn(call[c].turn, to)
    BY <1>22 DEF SendStarted, TurnState
  <2> QED
    BY <2>1, <2>2, <2>3, WriteTurnEffect, NumbersKept DEF TypeInv, TurnState
<1>23. ASSUME NEW c \in Clients, CancelWrite(c)
       PROVE  SequencesInv'
  <2>1. call[c].turn \in Turns
    BY <1>23 DEF CancelWrite, At, TypeInv, CallsWellFormed, SendPoints, CancelPoints
  <2>2. call'[c].pc # "insert" /\ \A d \in Clients \ {c} : call'[d] = call[d]
    BY <1>23 DEF CancelWrite, Return, Idle, TypeInv, TypeOK, Call
  <2>3. UNCHANGED turnRow \/ \E to \in TurnState : WriteTurn(call[c].turn, to)
    BY <1>23 DEF CancelWrite, TurnState
  <2> QED
    BY <2>1, <2>2, <2>3, WriteTurnEffect, NumbersKept DEF TypeInv, TurnState
<1>24. ASSUME NEW c \in Clients, SendRegister(c)
       PROVE  SequencesInv'
  BY <1>24, NumbersKept DEF SendRegister, At, Return, Idle, durable, registry, lifecycle,
     TypeInv, TypeOK, Call
<1>25. ASSUME NEW c \in Clients, CancelReread(c)
       PROVE  SequencesInv'
  BY <1>25, NumbersKept DEF CancelReread, At, Return, Idle, durable, registry, lifecycle,
     TypeInv, TypeOK, Call
<1>26. ASSUME NEW c \in Clients, DropCall(c)
       PROVE  SequencesInv'
  BY <1>26, NumbersKept DEF DropCall, At, Return, Idle, durable, registry, lifecycle,
     TypeInv, TypeOK, Call
<1>27. ASSUME NEW t \in Turns, WatcherLock(t)
       PROVE  SequencesInv'
  BY <1>27, NumbersKept DEF WatcherLock, durable, registry, lifecycle, TypeInv, TypeOK, Call
<1>28. ASSUME NEW t \in Turns, WatcherWait(t)
       PROVE  SequencesInv'
  BY <1>28, NumbersKept DEF WatcherWait, durable, registry, lifecycle, TypeInv, TypeOK, Call
<1>29. ASSUME NEW t \in Turns, WatcherClear(t)
       PROVE  SequencesInv'
  BY <1>29, NumbersKept DEF WatcherClear, durable, registry, lifecycle, TypeInv, TypeOK,
     Call
<1>30. ASSUME NEW t \in Turns, WatcherFinish(t)
       PROVE  SequencesInv'
  BY <1>30, WriteTurnEffect, NumbersKept DEF WatcherFinish, TypeInv
<1>31. ASSUME NEW t \in Turns, WatcherComplete(t)
       PROVE  SequencesInv'
  BY <1>31, WriteTurnEffect, NumbersKept DEF WatcherComplete, TypeInv
<1>32. ASSUME NEW t \in Turns, ProviderExits(t)
       PROVE  SequencesInv'
  BY <1>32, NumbersKept DEF ProviderExits, durable, registry, lifecycle, TypeInv, TypeOK,
     Call
<1>33. ASSUME NEW t \in Turns, ShutdownKill(t)
       PROVE  SequencesInv'
  BY <1>33, NumbersKept DEF ShutdownKill, durable, registry, lifecycle, TypeInv, TypeOK,
     Call
<1>34. ASSUME RequestShutdown
       PROVE  SequencesInv'
  BY <1>34, NumbersKept DEF RequestShutdown, durable, registry, lifecycle, TypeInv, TypeOK,
     Call
<1>35. ASSUME StopServing
       PROVE  SequencesInv'
  BY <1>35, NumbersKept DEF StopServing, durable, registry, lifecycle, TypeInv, TypeOK, Call
<1>36. ASSUME TakeHandles
       PROVE  SequencesInv'
  BY <1>36, NumbersKept DEF TakeHandles, durable, registry, lifecycle, TypeInv, TypeOK, Call
<1>37. ASSUME Exit
       PROVE  SequencesInv'
  BY <1>37, NumbersKept DEF Exit, LoseMemory, Idle, durable, registry, lifecycle, TypeInv,
     TypeOK, Call
<1>38. ASSUME Crash
       PROVE  SequencesInv'
  BY <1>38, NumbersKept DEF Crash, LoseMemory, Idle, durable, registry, lifecycle, TypeInv,
     TypeOK, Call
<1>39. ASSUME Restart
       PROVE  SequencesInv'
  BY <1>39, NumbersKept DEF Restart, TurnRow, TurnState, durable, registry, lifecycle,
     TypeInv, TypeOK, Call
<1>40. CASE UNCHANGED vars
  BY <1>40, NumbersKept DEF vars
<1> QED
  BY <1>1, <1>2, <1>3, <1>4, <1>5, <1>6, <1>7, <1>8, <1>9, <1>10, <1>11, <1>12, <1>13,
     <1>14, <1>15, <1>16, <1>17, <1>18, <1>19, <1>20, <1>21, <1>22, <1>23, <1>24, <1>25,
     <1>26, <1>27, <1>28, <1>29, <1>30, <1>31, <1>32, <1>33, <1>34, <1>35, <1>36, <1>37,
     <1>38, <1>39, <1>40 DEF Next, Request, HandlerStep, WatcherStep, ShutdownStep

\* next_sequence and the insert are two statements, and still the turns of a
\* session are numbered without a gap or a duplicate.
THEOREM DenseSequences == Spec => []TurnSequencesAreDense
<1>1. Init => TypeInv /\ SequencesInv
  <2>1. Init => SequencesInv
    BY NullAssumption DEF Init, SequencesInv, NoRow, Idle
  <2> QED
    BY <2>1, TypeInit
<1>2. TypeInv /\ SequencesInv /\ [Next]_vars => TypeInv' /\ SequencesInv'
  BY TypeStep, SequencesStep
<1>3. TypeInv /\ SequencesInv => TurnSequencesAreDense
  <2> SUFFICES ASSUME TypeInv, SequencesInv, NEW s \in Sessions, NEW t \in TurnsOf(s)
               PROVE  /\ \A u \in TurnsOf(s) : turnRow[u].sequence = turnRow[t].sequence => u = t
                      /\ \A n \in 1..turnRow[t].sequence :
                           \E u \in TurnsOf(s) : turnRow[u].sequence = n
    BY DEF TurnSequencesAreDense
  <2>1. t \in Turns /\ turnRow[t].session = s /\ turnRow[t].sequence \in Nat
    BY DEF TurnsOf, TypeInv, TypeOK, TurnRow
  <2>2. \A u \in TurnsOf(s) : turnRow[u].sequence = turnRow[t].sequence => u = t
    BY <2>1 DEF SequencesInv, TurnsOf
  <2>3. ASSUME NEW n \in 1..turnRow[t].sequence
        PROVE  \E u \in TurnsOf(s) : turnRow[u].sequence = n
    <3>1. CASE n = turnRow[t].sequence
      BY <3>1
    <3>2. CASE n \in 1..(turnRow[t].sequence - 1)
      BY <2>1, <3>2 DEF SequencesInv, TakenBefore, TurnsOf
    <3> QED
      BY <2>1, <3>1, <3>2
  <2> QED
    BY <2>2, <2>3
<1> QED
  BY <1>1, <1>2, <1>3, PTL DEF Spec

-----------------------------------------------------------------------------
(***************************************************************************)
(* The session rows.                                                       *)
(***************************************************************************)

\* session.resume knows the row is preparing, from where it cannot run.
ResumingInv == \A c \in Clients : call[c].pc = "resuming" => call[c].state = "preparing"

RowsInv == LiveSessionsAreAttended /\ ResumingInv

\* What one call of transition_session does to the row and to the handler.
LEMMA TransitionEffect ==
  ASSUME TypeOK, NEW c \in Clients, NEW to, NEW next, TransitionSession(c, to, next)
  PROVE  \/ /\ SessionTransitionAllowed(call[c].state, to)
            /\ sessionStatus' = [sessionStatus EXCEPT ![call[c].session] = to]
            /\ \/ next = "idle" /\ call'[c] = Idle
               \/ /\ next # "idle" /\ call'[c].pc = next
                  /\ call'[c].session = call[c].session
                  /\ call'[c].method = call[c].method
                  /\ call'[c].state = to
         \/ /\ ~SessionTransitionAllowed(call[c].state, to)
            /\ UNCHANGED sessionStatus /\ call'[c] = Idle
<1>1. call \in [Clients -> Call] /\ call[c] \in Call
  BY DEF TypeOK
<1>2. LET m == [call[c] EXCEPT !.pc = next, !.state = to]
      IN m.pc = next /\ m.session = call[c].session /\ m.method = call[c].method /\ m.state = to
  BY <1>1 DEF Call
<1>3. CASE /\ SessionTransitionAllowed(call[c].state, to)
           /\ sessionStatus' = [sessionStatus EXCEPT ![call[c].session] = to]
           /\ call' = [call EXCEPT ![c] = IF next = "idle" THEN Idle
                                          ELSE [@ EXCEPT !.pc = next, !.state = to]]
  <2>1. CASE next = "idle"
    BY <1>1, <1>3, <2>1
  <2>2. CASE next # "idle"
    <3>1. call'[c] = [call[c] EXCEPT !.pc = next, !.state = to]
      BY <1>1, <1>3, <2>2
    <3> QED
      BY <1>2, <1>3, <2>2, <3>1
  <2> QED
    BY <2>1, <2>2
<1>4. CASE /\ ~SessionTransitionAllowed(call[c].state, to)
           /\ Return(c) /\ UNCHANGED sessionStatus
  BY <1>1, <1>4 DEF Return
<1> QED
  BY <1>3, <1>4 DEF TransitionSession

\* A step that writes no session row and forgets no session.
LEMMA QuietRows ==
  ASSUME TypeInv, RowsInv, UNCHANGED sessionStatus, known \subseteq known', Running' => Running,
         \A d \in Clients :
           \/ call'[d].pc = call[d].pc /\ call'[d].session = call[d].session
                /\ call'[d].state = call[d].state
           \/ /\ call'[d].pc # "resuming"
              /\ call[d].pc # "step"
              /\ call[d].pc = "upsert" => call[d].session \in known'
  PROVE  RowsInv'
  BY DEF RowsInv, LiveSessionsAreAttended, ResumingInv

\* Every step keeps the running rows known and the resumes pending.
LEMMA RowsStep == TypeInv /\ TypeInv' /\ RowsInv /\ [Next]_vars => RowsInv'
<1> SUFFICES ASSUME TypeInv, TypeInv', RowsInv, [Next]_vars PROVE RowsInv'
  OBVIOUS
<1>1. ASSUME NEW c \in Clients, NEW s \in Sessions, CreateSession(c, s)
      PROVE  RowsInv'
  BY <1>1 DEF CreateSession, RowsInv, LiveSessionsAreAttended, ResumingInv, durable,
     registry, lifecycle, Running, TypeInv, TypeOK, CallsWellFormed, Call
<1>2. ASSUME NEW c \in Clients, NEW s \in Sessions, StartSession(c, s)
      PROVE  RowsInv'
  BY <1>2, QuietRows DEF StartSession, MayCall, Enter, durable, registry, lifecycle,
     Running, TypeInv, TypeOK, CallsWellFormed, Call
<1>3. ASSUME NEW c \in Clients, NEW s \in Sessions, CancelSession(c, s)
      PROVE  RowsInv'
  BY <1>3, QuietRows DEF CancelSession, MayCall, Enter, durable, registry, lifecycle,
     Running, TypeInv, TypeOK, CallsWellFormed, Call
<1>4. ASSUME NEW c \in Clients, NEW s \in Sessions, PauseSession(c, s)
      PROVE  RowsInv'
  BY <1>4, QuietRows DEF PauseSession, MayCall, Enter, durable, registry, lifecycle,
     Running, TypeInv, TypeOK, CallsWellFormed, Call
<1>5. ASSUME NEW c \in Clients, NEW s \in Sessions, ResumeSession(c, s)
      PROVE  RowsInv'
  BY <1>5, QuietRows DEF ResumeSession, MayCall, Enter, durable, registry, lifecycle,
     Running, TypeInv, TypeOK, CallsWellFormed, Call
<1>6. ASSUME NEW c \in Clients, NEW s \in Sessions, SendTurn(c, s)
      PROVE  RowsInv'
  BY <1>6, QuietRows DEF SendTurn, MayCall, Enter, durable, registry, lifecycle, Running,
     TypeInv, TypeOK, CallsWellFormed, Call
<1>7. ASSUME NEW c \in Clients, NEW s \in Sessions, CancelTurn(c, s)
      PROVE  RowsInv'
  BY <1>7, QuietRows DEF CancelTurn, MayCall, Enter, durable, registry, lifecycle, Running,
     TypeInv, TypeOK, CallsWellFormed, Call
<1>8. ASSUME NEW c \in Clients, StartStep(c)
      PROVE  RowsInv'
  <2> DEFINE to == NextOfStart(call[c].state)
             next == IF NextOfStart(call[c].state) = "running" THEN "upsert" ELSE "step"
  <2>1. /\ call[c].pc = "step"
        /\ UNCHANGED <<known, core>> /\ call[c].session \in Sessions
        /\ TransitionSession(c, to, next)
    BY <1>8 DEF StartStep, At, registry, lifecycle, TypeInv, CallsWellFormed
  <2>2. \A d \in Clients \ {c} : call'[d] = call[d]
    BY <2>1, TransitionMoves DEF TypeInv
  <2>3. \/ /\ sessionStatus' = [sessionStatus EXCEPT ![call[c].session] = to]
           /\ call'[c].pc = next /\ call'[c].session = call[c].session /\ call'[c].state = to
        \/ /\ ~SessionTransitionAllowed(call[c].state, to)
           /\ UNCHANGED sessionStatus /\ call'[c] = Idle
    BY <2>1, TransitionEffect DEF TypeInv
  <2>4. call[c].state = "starting" => SessionTransitionAllowed(call[c].state, to)
    BY DEF NextOfStart, SessionTransitionAllowed, SessionSuccessors
  <2> HIDE DEF to
  <2>5. next \in {"upsert", "step"} /\ (next = "upsert" <=> to = "running")
    BY DEF to
  <2> HIDE DEF next
  <2>6. ResumingInv'
    BY <2>2, <2>3, <2>5 DEF RowsInv, ResumingInv, Idle
  <2>7. ASSUME NEW s \in Sessions, Running', sessionStatus'[s] = "running"
        PROVE  s \in known' \/ \E d \in Clients : call'[d].session = s /\ call'[d].pc = "upsert"
    BY <2>1, <2>2, <2>3, <2>5, <2>7 DEF RowsInv, LiveSessionsAreAttended, Idle, Running, TypeInv, TypeOK
  <2>8. ASSUME NEW s \in Sessions, Running', sessionStatus'[s] = "starting"
        PROVE  \E d \in Clients :
                 call'[d].session = s /\ call'[d].pc = "step" /\ call'[d].state = "starting"
    <3>1. CASE sessionStatus[s] = "starting" /\ call'[c] = Idle
      <4>1. PICK d \in Clients :
               call[d].session = s /\ call[d].pc = "step" /\ call[d].state = "starting"
        BY <2>1, <2>8, <3>1 DEF RowsInv, LiveSessionsAreAttended, Running
      <4>2. CASE d # c
        BY <2>2, <4>1, <4>2
      <4>3. CASE d = c
        BY <2>3, <2>4, <2>5, <3>1, <4>1, <4>3 DEF Idle
      <4> QED
        BY <4>2, <4>3
    <3>2. CASE s # call[c].session /\ sessionStatus[s] = "starting"
      BY <2>1, <2>2, <2>8, <3>2 DEF RowsInv, LiveSessionsAreAttended, Running
    <3>3. CASE s = call[c].session /\ to = "starting" /\ call'[c].pc = next
               /\ call'[c].session = call[c].session /\ call'[c].state = to
      BY <2>5, <3>3
    <3> QED
      BY <2>1, <2>3, <2>8, <3>1, <3>2, <3>3 DEF TypeInv, TypeOK
  <2> QED
    BY <2>6, <2>7, <2>8 DEF RowsInv, LiveSessionsAreAttended
<1>9. ASSUME NEW c \in Clients, SettleSession(c)
      PROVE  RowsInv'
  <2>1. /\ call[c].pc = "settle" /\ \A d \in Clients \ {c} : call'[d] = call[d]
        /\ UNCHANGED <<known, core>> /\ call[c].session \in Sessions
    BY <1>9, TransitionMoves DEF SettleSession, At, Return, registry, lifecycle, TypeInv, TypeOK,
       CallsWellFormed
  <2>2. /\ call'[c] = Idle
        /\ \/ UNCHANGED sessionStatus
           \/ \E to \in {"cancelled", "paused"} :
                sessionStatus' = [sessionStatus EXCEPT ![call[c].session] = to]
    <3>1. CASE UNCHANGED sessionStatus /\ Return(c)
      BY <3>1 DEF Return, TypeInv, TypeOK
    <3>2. CASE TransitionSession(c, "cancelled", "idle")
      BY <3>2, TransitionEffect DEF TypeInv
    <3>3. CASE TransitionSession(c, "paused", "idle")
      BY <3>3, TransitionEffect DEF TypeInv
    <3> QED
      BY <1>9, <3>1, <3>2, <3>3 DEF SettleSession
  <2> QED
    BY <2>1, <2>2 DEF RowsInv, LiveSessionsAreAttended, ResumingInv, Idle, Running, TypeInv, TypeOK
<1>10. ASSUME NEW c \in Clients, ResumePreparing(c)
       PROVE  RowsInv'
  <2> DEFINE to == "preparing"
             next == "resuming"
  <2>1. /\ call[c].pc = "preparing"
        /\ UNCHANGED <<known, core>> /\ call[c].session \in Sessions
        /\ TransitionSession(c, to, next)
    BY <1>10 DEF ResumePreparing, At, registry, lifecycle, TypeInv, CallsWellFormed
  <2>2. \A d \in Clients \ {c} : call'[d] = call[d]
    BY <2>1, TransitionMoves DEF TypeInv
  <2>3. \/ /\ sessionStatus' = [sessionStatus EXCEPT ![call[c].session] = to]
           /\ call'[c].pc = next /\ call'[c].session = call[c].session /\ call'[c].state = to
        \/ UNCHANGED sessionStatus /\ call'[c] = Idle
    BY <2>1, TransitionEffect DEF TypeInv
  <2> QED
    BY <2>1, <2>2, <2>3 DEF RowsInv, LiveSessionsAreAttended, ResumingInv, Idle, Running, TypeInv, TypeOK
<1>11. ASSUME NEW c \in Clients, ResumeRunning(c)
       PROVE  RowsInv'
  <2> DEFINE to == "running"
             next == "idle"
  <2>1. /\ call[c].pc = "resuming"
        /\ UNCHANGED <<known, core>> /\ call[c].session \in Sessions
        /\ TransitionSession(c, to, next)
    BY <1>11 DEF ResumeRunning, At, registry, lifecycle, TypeInv, CallsWellFormed
  <2>2. \A d \in Clients \ {c} : call'[d] = call[d]
    BY <2>1, TransitionMoves DEF TypeInv
  <2>3. ~SessionTransitionAllowed(call[c].state, to)
    BY <2>1 DEF RowsInv, ResumingInv, SessionTransitionAllowed, SessionSuccessors, Waiting
  <2>4. UNCHANGED sessionStatus /\ call'[c] = Idle
    BY <2>1, <2>3, TransitionEffect DEF TypeInv
  <2> QED
    BY <2>1, <2>2, <2>4, QuietRows DEF Idle, Running
<1>12. ASSUME NEW c \in Clients, StartUpsert(c)
       PROVE  RowsInv'
  BY <1>12, QuietRows DEF StartUpsert, At, Return, Idle, durable, registry, lifecycle,
     Running, TypeInv, TypeOK, CallsWellFormed, Call
<1>13. ASSUME NEW c \in Clients, Lookup(c)
       PROVE  RowsInv'
  BY <1>13, QuietRows DEF Lookup, At, durable, registry, lifecycle, Running, TypeInv,
     TypeOK, CallsWellFormed, Call
<1>14. ASSUME NEW c \in Clients, Kill(c)
       PROVE  RowsInv'
  BY <1>14, QuietRows DEF Kill, At, Goto, SetActive, durable, registry, lifecycle, Running,
     TypeInv, TypeOK, CallsWellFormed, Call
<1>15. ASSUME NEW c \in Clients, Unregister(c)
       PROVE  RowsInv'
  BY <1>15, QuietRows DEF Unregister, At, Goto, SetActive, durable, registry, lifecycle,
     Running, TypeInv, TypeOK, CallsWellFormed, Call
<1>16. ASSUME NEW c \in Clients, SendUpsert(c)
       PROVE  RowsInv'
  BY <1>16, QuietRows DEF SendUpsert, At, Goto, SetActive, durable, registry, lifecycle,
     Running, TypeInv, TypeOK, CallsWellFormed, Call
<1>17. ASSUME NEW c \in Clients, SendSpawn(c)
       PROVE  RowsInv'
  BY <1>17, QuietRows DEF SendSpawn, At, Goto, SetActive, durable, registry, lifecycle,
     Running, TypeInv, TypeOK, CallsWellFormed, Call
<1>18. ASSUME NEW c \in Clients, SendSequence(c)
       PROVE  RowsInv'
  BY <1>18, QuietRows DEF SendSequence, At, durable, registry, lifecycle, Running, TypeInv,
     TypeOK, CallsWellFormed, Call
<1>19. ASSUME NEW c \in Clients, SendInsert(c)
       PROVE  RowsInv'
  <2>1. call[c].pc = "insert" /\ UNCHANGED <<sessionStatus, known, core>>
    BY <1>19 DEF SendInsert, At, registry, lifecycle
  <2>2. \A d \in Clients \ {c} : call'[d] = call[d]
    BY <1>19 DEF SendInsert, Return, TypeInv, TypeOK
  <2>3. call'[c].pc # "resuming"
    <3>1. CASE Return(c)
      BY <3>1 DEF Return, Idle, TypeInv, TypeOK
    <3>2. ASSUME NEW t \in Unused,
                 call' = [call EXCEPT ![c].pc = "checkpoint", ![c].turn = t, ![c].state = "queued"]
          PROVE  call'[c].pc # "resuming"
      BY <3>2 DEF TypeInv, TypeOK, Call
    <3> QED
      BY <1>19, <3>1, <3>2 DEF SendInsert
  <2> QED
    BY <2>1, <2>2, <2>3, QuietRows DEF Running
<1>20. ASSUME NEW c \in Clients, SendCheckpoint(c)
       PROVE  RowsInv'
  BY <1>20, QuietRows DEF SendCheckpoint, At, Return, Idle, durable, registry, lifecycle,
     Running, TypeInv, TypeOK, CallsWellFormed, Call
<1>21. ASSUME NEW c \in Clients, SendNotSpawned(c)
       PROVE  RowsInv'
  BY <1>21, QuietRows DEF SendNotSpawned, At, Return, Idle, durable, registry, lifecycle,
     Running, TypeInv, TypeOK, CallsWellFormed, Call
<1>22. ASSUME NEW c \in Clients, SendStarted(c)
       PROVE  RowsInv'
  BY <1>22, QuietRows DEF SendStarted, At, Return, Idle, durable, registry, lifecycle,
     Running, TypeInv, TypeOK, CallsWellFormed, Call
<1>23. ASSUME NEW c \in Clients, CancelWrite(c)
       PROVE  RowsInv'
  BY <1>23, QuietRows DEF CancelWrite, At, Return, Idle, durable, registry, lifecycle,
     Running, TypeInv, TypeOK, CallsWellFormed, Call
<1>24. ASSUME NEW c \in Clients, SendRegister(c)
       PROVE  RowsInv'
  BY <1>24, QuietRows DEF SendRegister, At, Return, Idle, Awaits, SetActive, durable,
     registry, lifecycle, Running, TypeInv, TypeOK, CallsWellFormed, Call
<1>25. ASSUME NEW c \in Clients, CancelReread(c)
       PROVE  RowsInv'
  BY <1>25, QuietRows DEF CancelReread, At, Return, Idle, Awaits, SetActive, durable,
     registry, lifecycle, Running, TypeInv, TypeOK, CallsWellFormed, Call
<1>26. ASSUME NEW c \in Clients, DropCall(c)
       PROVE  RowsInv'
  BY <1>26, QuietRows DEF DropCall, At, Return, Idle, Awaits, SetActive, durable, registry,
     lifecycle, Running, TypeInv, TypeOK, CallsWellFormed, Call
<1>27. ASSUME NEW t \in Turns, WatcherLock(t)
       PROVE  RowsInv'
  BY <1>27, QuietRows DEF WatcherLock, WatchAt, SetActive, durable, registry, lifecycle,
     Running, TypeInv, TypeOK, CallsWellFormed, Call
<1>28. ASSUME NEW t \in Turns, WatcherWait(t)
       PROVE  RowsInv'
  BY <1>28, QuietRows DEF WatcherWait, WatchAt, SetActive, durable, registry, lifecycle,
     Running, TypeInv, TypeOK, CallsWellFormed, Call
<1>29. ASSUME NEW t \in Turns, WatcherClear(t)
       PROVE  RowsInv'
  BY <1>29, QuietRows DEF WatcherClear, WatchAt, SetActive, durable, registry, lifecycle,
     Running, TypeInv, TypeOK, CallsWellFormed, Call
<1>30. ASSUME NEW t \in Turns, WatcherFinish(t)
       PROVE  RowsInv'
  BY <1>30, QuietRows DEF WatcherFinish, WatchAt, SetActive, durable, registry, lifecycle,
     Running, TypeInv, TypeOK, CallsWellFormed, Call
<1>31. ASSUME NEW t \in Turns, WatcherComplete(t)
       PROVE  RowsInv'
  BY <1>31, QuietRows DEF WatcherComplete, WatchAt, SetActive, durable, registry, lifecycle,
     Running, TypeInv, TypeOK, CallsWellFormed, Call
<1>32. ASSUME NEW t \in Turns, ProviderExits(t)
       PROVE  RowsInv'
  BY <1>32, QuietRows DEF ProviderExits, durable, registry, lifecycle, Running, TypeInv,
     TypeOK, CallsWellFormed, Call
<1>33. ASSUME NEW t \in Turns, ShutdownKill(t)
       PROVE  RowsInv'
  BY <1>33, QuietRows DEF ShutdownKill, durable, registry, lifecycle, Running, TypeInv,
     TypeOK, CallsWellFormed, Call
<1>34. ASSUME RequestShutdown
       PROVE  RowsInv'
  BY <1>34, QuietRows DEF RequestShutdown, durable, registry, lifecycle, Running, TypeInv,
     TypeOK, CallsWellFormed, Call
<1>35. ASSUME StopServing
       PROVE  RowsInv'
  BY <1>35, QuietRows DEF StopServing, durable, registry, lifecycle, Running, TypeInv,
     TypeOK, CallsWellFormed, Call
<1>36. ASSUME TakeHandles
       PROVE  RowsInv'
  BY <1>36, QuietRows DEF TakeHandles, durable, registry, lifecycle, Running, TypeInv,
     TypeOK, CallsWellFormed, Call
<1>37. ASSUME Exit
       PROVE  RowsInv'
  BY <1>37 DEF Exit, LoseMemory, Idle, RowsInv, LiveSessionsAreAttended, ResumingInv,
     Running, TypeInv, TypeOK
<1>38. ASSUME Crash
       PROVE  RowsInv'
  BY <1>38 DEF Crash, LoseMemory, Idle, RowsInv, LiveSessionsAreAttended, ResumingInv,
     Running, TypeInv, TypeOK
<1>39. ASSUME Restart
       PROVE  RowsInv'
  BY <1>39 DEF Restart, RowsInv, LiveSessionsAreAttended, ResumingInv, CallsWellFormed,
     TypeInv, Running, TypeOK
<1>40. CASE UNCHANGED vars
  BY <1>40, QuietRows DEF vars, Running
<1> QED
  BY <1>1, <1>2, <1>3, <1>4, <1>5, <1>6, <1>7, <1>8, <1>9, <1>10, <1>11, <1>12, <1>13,
     <1>14, <1>15, <1>16, <1>17, <1>18, <1>19, <1>20, <1>21, <1>22, <1>23, <1>24, <1>25,
     <1>26, <1>27, <1>28, <1>29, <1>30, <1>31, <1>32, <1>33, <1>34, <1>35, <1>36, <1>37,
     <1>38, <1>39, <1>40 DEF Next, Request, HandlerStep, WatcherStep, ShutdownStep

\* A session row says "running" or "starting" only for a session this core is at
\* work on: recovery has disconnected the rows of the previous run before anything
\* is served, and start_session always comes from starting to its upsert.
THEOREM AttendedSessions == Spec => []LiveSessionsAreAttended
<1>1. Init => TypeInv /\ RowsInv
  <2>1. Init => RowsInv
    BY DEF Init, RowsInv, LiveSessionsAreAttended, ResumingInv, Idle
  <2> QED
    BY <2>1, TypeInit
<1>2. TypeInv /\ RowsInv /\ [Next]_vars => TypeInv' /\ RowsInv'
  BY TypeStep, RowsStep
<1>3. RowsInv => LiveSessionsAreAttended
  BY DEF RowsInv
<1> QED
  BY <1>1, <1>2, <1>3, PTL DEF Spec

=============================================================================
