------------------------------- MODULE EventBus -------------------------------
(***************************************************************************)
(* The event bus of the core (retcon-core/src/event.rs).  An event gets    *)
(* its number and its place in the log in memory under one lock; it is     *)
(* handed to the writer's queue and broadcast after the unlock, so two     *)
(* emitters may do that in another order than their numbers.  Volatile     *)
(* events take numbers, but no row: after a restart their numbers are      *)
(* given out again.  The broadcast channel keeps the newest Capacity       *)
(* events for each receiver.  Kinds, payloads and times are left out: when *)
(* the table is pruned, none of its rows has grown old, or all have.       *)
(***************************************************************************)
EXTENDS Naturals, Sequences, FiniteSets, SequencesExt, FiniteSetsExt

CONSTANTS
  Emitters,     \* tasks and handlers that emit
  Clients,      \* receivers of the broadcast
  Retained,     \* DEFAULT_MAX_EVENTS
  PruneEvery,   \* PRUNE_EVERY_N_INSERTS
  Capacity,     \* of the broadcast channel
  MaxEmits,     \* bounds the events
  MaxFaults     \* bounds the failing inserts and the ends of the core

ASSUME BusAssumption ==
  /\ {Retained, PruneEvery, Capacity} \subseteq Nat \ {0}
  /\ {MaxEmits, MaxFaults} \subseteq Nat

VARIABLES
  up,        \* the core runs
  next,      \* next_sequence
  log,       \* the events in memory
  queue,     \* the writer's jobs
  rows,      \* agent_events
  inserts,   \* inserts_since_prune
  making,    \* the event each emitter is about
  stage,     \* how far it has come with it
  receivers, \* who has a receiver
  box,       \* what a receiver will be given
  lost,      \* how many events a receiver has been too slow for
  emitted,   \* the number of events so far
  faults     \* failing inserts and ends of the core so far

emitVars == <<making, stage>>
channelVars == <<receivers, box, lost>>
countVars == <<emitted, faults>>
busVars == <<up, next, log, queue, rows, inserts, emitVars, channelVars, countVars>>

Event == [id : 1 .. MaxEmits, number : 1 .. MaxEmits, durable : BOOLEAN]
NoEvent == [id |-> 0, number |-> 0, durable |-> FALSE]

BusTypeOK ==
  /\ up \in BOOLEAN
  /\ next \in 1 .. MaxEmits + 1
  /\ log \in BoundedSeq(Event, Retained)
  /\ queue \in Seq(Event)
  /\ rows \subseteq Event
  /\ inserts \in Nat
  /\ making \in [Emitters -> Event \cup {NoEvent}]
  /\ stage \in [Emitters -> {"idle", "numbered", "pruning", "queued"}]
  /\ receivers \subseteq Clients
  /\ box \in [Clients -> Seq(Event)]
  /\ lost \in [Clients -> Nat]
  /\ emitted \in 0 .. MaxEmits /\ faults \in 0 .. MaxFaults

-----------------------------------------------------------------------------
(***************************************************************************)
(* The table.                                                              *)
(***************************************************************************)

Numbers(events) == {e.number : e \in events}

Newest(events, n) ==
  {e \in events : Cardinality({f \in events : f.number > e.number}) < n}

\* prune_database: what is old goes, and what is not among the newest.
Pruned(events, old) == {e \in Newest(events, Retained) : e.id > old}

\* Events in the order of their numbers.
InOrder(events) == \A i, j \in DOMAIN events : i < j => events[i].number < events[j].number

\* load_recent_events: the newest rows, in this order.
Hydrated(events) ==
  {recent \in BoundedSeq(events, Retained) :
     Range(recent) = Newest(events, Retained) /\ InOrder(recent)}

\* Mutation of NumberAfter: the rows are counted.
CountAfter(events) == Cardinality(events) + 1

NumberAfter(events) == Max({0} \cup Numbers(events)) + 1

-----------------------------------------------------------------------------
(***************************************************************************)
(* EventBus::emit and emit_volatile.                                       *)
(***************************************************************************)

LastOf(events, n) == IF Len(events) <= n THEN events ELSE Tail(events)

\* The number and the place in the log, under the lock.
Number(t, durable) ==
  /\ up /\ stage[t] = "idle" /\ emitted < MaxEmits
  /\ LET e == [id |-> emitted + 1, number |-> next, durable |-> durable]
     IN  /\ log' = LastOf(Append(log, e), Retained)
         /\ making' = [making EXCEPT ![t] = e]
  /\ next' = next + 1
  /\ emitted' = emitted + 1
  /\ stage' = [stage EXCEPT ![t] = IF durable THEN "numbered" ELSE "queued"]
  /\ UNCHANGED <<up, queue, rows, inserts, channelVars, faults>>

\* persist_tx.send and fetch_add.
Queue(t) ==
  /\ stage[t] = "numbered"
  /\ queue' = Append(queue, making[t])
  /\ inserts' = inserts + 1
  /\ stage' = [stage EXCEPT ![t] = IF inserts' % PruneEvery = 0 THEN "pruning" ELSE "queued"]
  /\ UNCHANGED <<up, next, log, rows, making, channelVars, countVars>>

Prune(t) ==
  /\ stage[t] = "pruning"
  /\ \E old \in {0, emitted} : rows' = Pruned(rows, old)
  /\ inserts' = 0
  /\ stage' = [stage EXCEPT ![t] = "queued"]
  /\ UNCHANGED <<up, next, log, queue, making, channelVars, countVars>>

\* A full channel overwrites the oldest event that a receiver has not taken.
Broadcast(t) ==
  /\ stage[t] = "queued"
  /\ box' = [c \in Clients |->
               IF c \in receivers THEN LastOf(Append(box[c], making[t]), Capacity) ELSE box[c]]
  /\ lost' = [c \in Clients |->
               IF c \in receivers /\ Len(box[c]) = Capacity THEN lost[c] + 1 ELSE lost[c]]
  /\ making' = [making EXCEPT ![t] = NoEvent]
  /\ stage' = [stage EXCEPT ![t] = "idle"]
  /\ UNCHANGED <<up, next, log, queue, rows, inserts, receivers, countVars>>

-----------------------------------------------------------------------------
(***************************************************************************)
(* event_writer_loop.  A failing insert is only logged.                    *)
(***************************************************************************)

Taken == Head(queue).number \in Numbers(rows)

WriteRow ==
  /\ up /\ queue # <<>>
  /\ rows' = IF Taken THEN rows ELSE rows \cup {Head(queue)}
  /\ UNCHANGED faults

LoseRow ==
  /\ up /\ queue # <<>>
  /\ faults < MaxFaults /\ faults' = faults + 1
  /\ UNCHANGED rows

Write ==
  /\ WriteRow \/ LoseRow
  /\ queue' = Tail(queue)
  /\ UNCHANGED <<up, next, log, inserts, emitVars, channelVars, emitted>>

-----------------------------------------------------------------------------
(***************************************************************************)
(* The end of the core, at any moment, and EventBus::open.                 *)
(***************************************************************************)

Crash ==
  /\ up /\ faults < MaxFaults
  /\ up' = FALSE /\ faults' = faults + 1
  /\ next' = 1 /\ log' = <<>> /\ queue' = <<>> /\ inserts' = 0
  /\ making' = [t \in Emitters |-> NoEvent] /\ stage' = [t \in Emitters |-> "idle"]
  /\ receivers' = {} /\ box' = [c \in Clients |-> <<>>] /\ lost' = [c \in Clients |-> 0]
  /\ UNCHANGED <<rows, emitted>>

Open ==
  /\ ~up
  /\ up' = TRUE
  /\ \E old \in {0, emitted} : rows' = Pruned(rows, old)
  /\ log' \in Hydrated(rows')
  /\ next' = NumberAfter(rows')
  /\ UNCHANGED <<queue, inserts, emitVars, channelVars, countVars>>

BusInit ==
  /\ up = FALSE /\ next = 1 /\ log = <<>> /\ queue = <<>> /\ rows = {} /\ inserts = 0
  /\ making = [t \in Emitters |-> NoEvent] /\ stage = [t \in Emitters |-> "idle"]
  /\ receivers = {} /\ box = [c \in Clients |-> <<>>] /\ lost = [c \in Clients |-> 0]
  /\ emitted = 0 /\ faults = 0

Emit(t) ==
  \/ \E durable \in BOOLEAN : Number(t, durable)
  \/ Queue(t) \/ Prune(t) \/ Broadcast(t)

-----------------------------------------------------------------------------
(***************************************************************************)
(* Properties.                                                             *)
(***************************************************************************)

InTheMaking == {making[t] : t \in Emitters} \ {NoEvent}

(***************************************************************************)
(* A number names one event at a time, in the log, in the table, in the    *)
(* writer's queue and with the emitters, and the log is in the order of    *)
(* the numbers (partition_after searches it by halves), although volatile  *)
(* events leave gaps in the table, prune_database empties it, and a crash  *)
(* loses what was not written: no insert ever meets a taken number.        *)
(***************************************************************************)
NumbersNameOneEvent ==
  LET known == Range(log) \cup rows \cup Range(queue) \cup InTheMaking
  IN  /\ \A e, f \in known : e.number = f.number => e = f
      /\ InOrder(log)

=============================================================================
