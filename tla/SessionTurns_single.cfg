\* Two connections, one that calls every method of sessions and one that starts and
\* sends, one turn, and one stop of the core, with fairness of the core alone.  No
\* symmetry, which is not sound for liveness.
CONSTANTS
  Sessions = {s1}
  Turns = {t1}
  Clients = {c1, c2}
  NoSession = NoSession
  NoTurn = NoTurn
  Offered <- EachItsOwn
  MaxRestarts = 1
SPECIFICATION CoreSpec
INVARIANT
  LiveSessionsAreAttended
PROPERTIES
  TurnsEnd
  RequestsAreAnswered
