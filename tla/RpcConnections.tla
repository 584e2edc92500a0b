---------------------------- MODULE RpcConnections ----------------------------
(***************************************************************************)
(* The connections of the RPC server (retcon-core/src/server.rs, frame.rs) *)
(* and what they give a client of the event bus.  A connection authenti-   *)
(* cates, says hello, takes a receiver, and then selects between the next  *)
(* frame and the next event; a request is dispatched where it is read.  A  *)
(* long frame may arrive in two pieces: the read that an event interrupts  *)
(* forgets the first.  The client is the one the protocol describes        *)
(* (schemas/protocol/README.md): after it reconnects it asks for what was  *)
(* emitted after its last retained sequence, page by page.  The wire keeps *)
(* the order, so a line is with the client when it is written.  The one    *)
(* request is events.replay; ping and request.cancel change nothing here:  *)
(* a cancel is read when the request before it has been answered.          *)
(***************************************************************************)
EXTENDS EventBus

CONSTANTS Page   \* the limit of a replay

ASSUME PageAssumption == Page \in Nat \ {0}

VARIABLES
  link,     \* the connection, as the server sees it
  arrived,  \* what the server has not read of a frame
  partial,  \* the first piece of a frame has been read
  sending,  \* what the client has sent of a request that has no answer
  since,    \* the number the bus was at when the receiver was taken
  told,     \* the client has been told that it lags
  seen,     \* the events the client has been given
  last,     \* its last retained sequence
  after,    \* where its replay began
  cursor,   \* how far its replay has come
  replay    \* whether it asks, or has been given all

wireVars == <<arrived, partial, sending>>
clientVars == <<told, seen, last, after, cursor, replay>>
vars == <<busVars, link, wireVars, since, clientVars>>

TypeOK ==
  /\ BusTypeOK
  /\ link \in [Clients -> {"closed", "greeted", "open"}]
  /\ arrived \in [Clients -> {"nothing", "head", "tail", "frame"}]
  /\ partial \in [Clients -> BOOLEAN]
  /\ sending \in [Clients -> {"nothing", "half", "whole"}]
  /\ since \in [Clients -> Nat]
  /\ told \in [Clients -> BOOLEAN]
  /\ seen \in [Clients -> SUBSET (1 .. MaxEmits)]
  /\ {last, after, cursor} \subseteq [Clients -> 0 .. MaxEmits]
  /\ replay \in [Clients -> {"not yet", "asking", "done"}]

-----------------------------------------------------------------------------
(***************************************************************************)
(* The life of a connection.                                               *)
(***************************************************************************)

\* Authentication and the two hellos; that a wrong one ends the connection needs no
\* state.
Greet(c) ==
  /\ up /\ link[c] = "closed"
  /\ link' = [link EXCEPT ![c] = "greeted"]
  /\ UNCHANGED <<busVars, wireVars, since, clientVars>>

\* The receiver is taken after the server's hello is written.
Subscribe(c) ==
  /\ link[c] = "greeted"
  /\ link' = [link EXCEPT ![c] = "open"]
  /\ receivers' = receivers \cup {c}
  /\ since' = [since EXCEPT ![c] = next]
  /\ UNCHANGED <<up, next, log, queue, rows, inserts, emitVars, box, lost, countVars,
                 wireVars, clientVars>>

\* Either side hangs up: the receiver goes with what it had not given, and the
\* client keeps what it has seen.
Hangs(c) ==
  /\ link' = [link EXCEPT ![c] = "closed"]
  /\ receivers' = receivers \ {c}
  /\ box' = [box EXCEPT ![c] = <<>>]
  /\ lost' = [lost EXCEPT ![c] = 0]
  /\ arrived' = [arrived EXCEPT ![c] = "nothing"]
  /\ partial' = [partial EXCEPT ![c] = FALSE]
  /\ sending' = [sending EXCEPT ![c] = "nothing"]
  /\ since' = [since EXCEPT ![c] = 0]
  /\ told' = [told EXCEPT ![c] = FALSE]
  /\ after' = [after EXCEPT ![c] = 0]
  /\ cursor' = [cursor EXCEPT ![c] = 0]
  /\ replay' = [replay EXCEPT ![c] = "not yet"]
  /\ UNCHANGED <<up, next, log, queue, rows, inserts, emitVars, countVars, seen, last>>

Unconnected ==
  /\ link' = [c \in Clients |-> "closed"]
  /\ arrived' = [c \in Clients |-> "nothing"] /\ sending' = arrived'
  /\ partial' = [c \in Clients |-> FALSE] /\ told' = partial'
  /\ since' = [c \in Clients |-> 0] /\ after' = since' /\ cursor' = since'
  /\ replay' = [c \in Clients |-> "not yet"]

Close(c) == link[c] # "closed" /\ Hangs(c)

\* Nothing of the connections survives the core.
Down ==
  /\ Crash
  /\ Unconnected
  /\ UNCHANGED <<seen, last>>

-----------------------------------------------------------------------------
(***************************************************************************)
(* The client.                                                             *)
(***************************************************************************)

\* A request begins: the first of a replay starts after the last sequence.
SendHead(c) ==
  /\ link[c] = "open" /\ sending[c] = "nothing" /\ replay[c] # "done"
  /\ arrived' = [arrived EXCEPT ![c] = "head"]
  /\ sending' = [sending EXCEPT ![c] = "half"]
  /\ replay' = [replay EXCEPT ![c] = "asking"]
  /\ IF replay[c] = "asking"
     THEN UNCHANGED <<after, cursor>>
     ELSE /\ after' = [after EXCEPT ![c] = last[c]]
          /\ cursor' = [cursor EXCEPT ![c] = last[c]]
  /\ UNCHANGED <<busVars, link, partial, since, told, seen, last>>

SendTail(c) ==
  /\ sending[c] = "half"
  /\ sending' = [sending EXCEPT ![c] = "whole"]
  /\ arrived' = [arrived EXCEPT ![c] = IF @ = "head" THEN "frame" ELSE "tail"]
  /\ UNCHANGED <<busVars, link, partial, since, clientVars>>

-----------------------------------------------------------------------------
(***************************************************************************)
(* The server's select: the next frame.                                    *)
(***************************************************************************)

ReadHead(c) ==
  /\ link[c] = "open" /\ arrived[c] = "head"
  /\ arrived' = [arrived EXCEPT ![c] = "nothing"]
  /\ partial' = [partial EXCEPT ![c] = TRUE]
  /\ UNCHANGED <<busVars, link, sending, since, clientVars>>

FrameIsWhole(c) == arrived[c] = "frame" \/ (arrived[c] = "tail" /\ partial[c])

\* partition_after: how many events of the log are not after n; that it searches by
\* halves tells nothing of a log that is in order.
PartitionAfter(n) == Max({0} \cup {i \in DOMAIN log : log[i].number <= n})

\* EventBus::replay
Answer(n) ==
  SubSeq(log, PartitionAfter(n) + 1, Min({PartitionAfter(n) + Page, Len(log)}))

HighestOf(n, events) == Max({n} \cup Numbers(Range(events)))

\* A page that is not full is the last one.
Replay(c) ==
  /\ link[c] = "open" /\ FrameIsWhole(c)
  /\ LET page == Answer(cursor[c])
     IN  /\ seen' = [seen EXCEPT ![c] = @ \cup {e.id : e \in Range(page)}]
         /\ cursor' = [cursor EXCEPT ![c] = IF Len(page) < Page THEN 0 ELSE HighestOf(@, page)]
         /\ last' = [last EXCEPT ![c] = HighestOf(@, page)]
         /\ replay' = [replay EXCEPT ![c] = IF Len(page) < Page THEN "done" ELSE "asking"]
  /\ arrived' = [arrived EXCEPT ![c] = "nothing"]
  /\ partial' = [partial EXCEPT ![c] = FALSE]
  /\ sending' = [sending EXCEPT ![c] = "nothing"]
  /\ UNCHANGED <<busVars, link, since, told, after>>

\* Mutation of Refuse: what cannot be parsed is not answered.
Ignore(c) ==
  /\ link[c] = "open" /\ arrived[c] = "tail" /\ ~partial[c]
  /\ arrived' = [arrived EXCEPT ![c] = "nothing"]
  /\ UNCHANGED <<busVars, link, partial, sending, since, clientVars>>

\* The rest of a frame whose first piece was forgotten is no request: the answer
\* is an error that names none.
Refuse(c) ==
  /\ link[c] = "open" /\ arrived[c] = "tail" /\ ~partial[c]
  /\ arrived' = [arrived EXCEPT ![c] = "nothing"]
  /\ sending' = [sending EXCEPT ![c] = "nothing"]
  /\ UNCHANGED <<busVars, link, partial, since, clientVars>>

\* A rest that is only the newline is taken for the end of the connection.
ReadEnd(c) ==
  /\ link[c] = "open" /\ arrived[c] = "tail" /\ ~partial[c]
  /\ Hangs(c)

-----------------------------------------------------------------------------
(***************************************************************************)
(* The server's select: the next event.  The read of a frame is dropped.   *)
(***************************************************************************)

Receive(c) ==
  /\ link[c] = "open" /\ lost[c] = 0 /\ box[c] # <<>>
  /\ seen' = [seen EXCEPT ![c] = @ \cup {Head(box[c]).id}]
  /\ last' = [last EXCEPT ![c] = HighestOf(@, <<Head(box[c])>>)]
  /\ box' = [box EXCEPT ![c] = Tail(@)]
  /\ partial' = [partial EXCEPT ![c] = FALSE]
  /\ UNCHANGED <<up, next, log, queue, rows, inserts, emitVars, receivers, lost, countVars,
                 link, arrived, sending, since, told, after, cursor, replay>>

\* Mutation of Lag: the receiver goes on with the oldest event that it still has.
GoOn(c) ==
  /\ link[c] = "open" /\ lost[c] > 0
  /\ lost' = [lost EXCEPT ![c] = 0]
  /\ partial' = [partial EXCEPT ![c] = FALSE]
  /\ UNCHANGED <<up, next, log, queue, rows, inserts, emitVars, receivers, box, countVars,
                 link, arrived, sending, since, clientVars>>

\* system.eventsLagged
Lag(c) ==
  /\ link[c] = "open" /\ lost[c] > 0
  /\ lost' = [lost EXCEPT ![c] = 0]
  /\ told' = [told EXCEPT ![c] = TRUE]
  /\ partial' = [partial EXCEPT ![c] = FALSE]
  /\ UNCHANGED <<up, next, log, queue, rows, inserts, emitVars, receivers, box, countVars,
                 link, arrived, sending, since, seen, last, after, cursor, replay>>

-----------------------------------------------------------------------------
Bus ==
  /\ Open \/ Write \/ \E t \in Emitters : Emit(t)
  /\ UNCHANGED <<link, wireVars, since, clientVars>>

Connection(c) ==
  \/ Greet(c) \/ Subscribe(c) \/ Close(c)
  \/ SendHead(c) \/ SendTail(c)
  \/ ReadHead(c) \/ Replay(c) \/ Refuse(c) \/ ReadEnd(c)
  \/ Receive(c) \/ Lag(c)

Init ==
  /\ BusInit
  /\ link = [c \in Clients |-> "closed"]
  /\ arrived = [c \in Clients |-> "nothing"]
  /\ partial = [c \in Clients |-> FALSE]
  /\ sending = [c \in Clients |-> "nothing"]
  /\ since = [c \in Clients |-> 0]
  /\ told = [c \in Clients |-> FALSE]
  /\ seen = [c \in Clients |-> {}]
  /\ last = [c \in Clients |-> 0] /\ after = last /\ cursor = last
  /\ replay = [c \in Clients |-> "not yet"]

Next == Down \/ Bus \/ \E c \in Clients : Connection(c)

Spec == Init /\ [][Next]_vars

-----------------------------------------------------------------------------
(***************************************************************************)
(* Properties.                                                             *)
(***************************************************************************)

\* What the client has been promised: what came after its receiver, and, once its
\* replay has ended, what came after the sequence where that began.
Promised(c, e) ==
  \/ e.number >= since[c]
  \/ replay[c] = "done" /\ e.number > after[c]

(***************************************************************************)
(* No client of a connection misses an event without being told: what it   *)
(* was promised and what the log still has, it has been given, or its      *)
(* receiver has it, or the emitter has not broadcast it, or the client has *)
(* been or will be told that it lags.  The numbers are given out before    *)
(* the broadcast, the receiver is taken before the replay is answered, and *)
(* both races are open while events come out of order and pages are asked  *)
(* for one by one.                                                         *)
(***************************************************************************)
NothingIsMissedSilently ==
  \A c \in receivers :
    told[c] \/ lost[c] > 0
    \/ \A e \in Range(log) :
         Promised(c, e) => (e.id \in seen[c] \/ e \in Range(box[c]) \cup InTheMaking)

(***************************************************************************)
(* A client that has sent a request is not left without any sign: while it *)
(* waits, the server still has something of the request to read, and what  *)
(* it reads is answered, or refused with an error that names no request,   *)
(* or ends the connection.  An event that interrupts the read of a frame   *)
(* costs the request, but never the client's turn.                         *)
(***************************************************************************)
WaitingClientsAreHeard ==
  \A c \in Clients : sending[c] = "whole" => arrived[c] \in {"tail", "frame"}

=============================================================================
