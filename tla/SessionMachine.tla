--------------------------- MODULE SessionMachine ---------------------------
(***************************************************************************)
(* What session_engine.rs promises of every session: its durable status    *)
(* only ever moves along the transition table ("the single authority that  *)
(* translates those values into legal state transitions before they are    *)
(* written", src/crates/retcon-core/src/session_engine.rs).  Several       *)
(* sessions may move in one step, as the recovery transaction of a restart *)
(* moves them.  SessionTurns keeps it with one connection, not with two.   *)
(***************************************************************************)
EXTENDS SessionStates

CONSTANT Sessions      \* identities of the sessions that may be created

VARIABLE status        \* status[s]: the durable status, or "absent"

Init == status = [s \in Sessions |-> "absent"]

Moves(s) ==
  \/ status'[s] = status[s]
  \/ status[s] = "absent" /\ status'[s] = "created"
  \/ SessionTransitionAllowed(status[s], status'[s])

Next ==
  /\ status' \in [Sessions -> SessionState \cup {"absent"}]
  /\ \A s \in Sessions : Moves(s)

Spec == Init /\ [][Next]_status

=============================================================================
