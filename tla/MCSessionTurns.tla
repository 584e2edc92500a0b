--------------------------- MODULE MCSessionTurns ---------------------------
(***************************************************************************)
(* Values for the instances of SessionTurns.                               *)
(***************************************************************************)
EXTENDS SessionTurns, TLC

\* What the clients of an instance call.
CancelAndSend == [c \in Clients |-> {"session.cancel", "turn.send", "turn.cancel"}]
SendAndCancel == [c \in Clients |-> {"turn.send", "turn.cancel"}]
StartAndCancel == [c \in Clients |-> {"session.start", "session.cancel"}]
StartAndPause == [c \in Clients |-> {"session.start", "session.pause", "session.resume"}]
SendOnly == [c \in Clients |-> {"turn.send"}]

\* One client calls the methods of sessions, the others start and send.
Starter == CHOOSE c \in Clients : TRUE
EachItsOwn == [c \in Clients |->
  IF c = Starter THEN Methods \ {"turn.send"} ELSE {"session.start", "turn.send"}]

\* Turns and clients are interchangeable; for the runs without liveness.
Symmetry == Permutations(Turns) \cup Permutations(Clients)

=============================================================================
