\* Two connections and one session: every interleaving of two handlers, the
\* watchers of two turns, and one crash or shutdown.
CONSTANTS
  Sessions = {s1}
  Turns = {t1, t2}
  Clients = {c1, c2}
  NoSession = NoSession
  NoTurn = NoTurn
  Offered <- CancelAndSend
  MaxRestarts = 1
SYMMETRY Symmetry
SPECIFICATION Spec
INVARIANTS
  UnfinishedTurnsAreOwned
  EndedTurnsHaveNoProcess
  LiveProcessesAreWatched
  RegistrationsEnd
