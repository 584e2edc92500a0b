--------------------------- MODULE SessionStates ---------------------------
(***************************************************************************)
(* The lifecycle rules of agent sessions and provider turns, translated    *)
(* from src/crates/retcon-core/src/session_engine.rs.  The durable status  *)
(* columns hold the strings of SessionState::as_str and TurnState::as_str, *)
(* and so do the models.                                                   *)
(***************************************************************************)

SessionState ==
  {"created", "preparing", "starting", "running", "waiting_for_approval",
   "waiting_for_user", "paused", "completed", "failed", "cancelled",
   "disconnected", "recovering"}

TurnState ==
  {"queued", "sending", "running", "tool_execution", "waiting_for_approval",
   "completing", "completed", "failed", "cancelled"}

\* is_terminal is the same three states for sessions and for turns.
Terminal == {"completed", "failed", "cancelled"}

Waiting == {"waiting_for_approval", "waiting_for_user"}

\* The states session_transition_allowed lets a session move to.
SessionSuccessors(from) ==
  CASE from = "created"      -> {"preparing", "cancelled"}
    [] from = "preparing"    -> {"starting", "failed", "cancelled"}
    [] from = "starting"     -> {"running", "disconnected", "failed", "cancelled"}
    [] from = "running"      -> Waiting \cup Terminal \cup {"paused", "disconnected"}
    [] from \in Waiting      -> {"running", "paused", "cancelled", "disconnected"}
    [] from = "paused"       -> {"preparing", "cancelled"}
    [] from = "disconnected" -> {"recovering", "failed", "cancelled"}
    [] from = "recovering"   -> Waiting \cup {"running", "paused", "failed",
                                              "disconnected", "cancelled"}
    [] OTHER                 -> {}

SessionTransitionAllowed(from, to) == to \in SessionSuccessors(from)

\* The states turn_transition_allowed lets a turn move to.
TurnSuccessors(from) ==
  CASE from = "queued"               -> {"sending", "cancelled"}
    [] from = "sending"              -> {"running", "failed", "cancelled"}
    [] from = "running"              -> {"tool_execution", "completing", "failed", "cancelled"}
    [] from = "tool_execution"       -> {"running", "waiting_for_approval", "failed", "cancelled"}
    [] from = "waiting_for_approval" -> {"tool_execution", "running", "cancelled", "failed"}
    [] from = "completing"           -> Terminal
    [] OTHER                         -> {}

TurnTransitionAllowed(from, to) == to \in TurnSuccessors(from)

=============================================================================
