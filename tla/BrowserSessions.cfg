\* Two connections, one session, and a service and a core that each die once.
CONSTANTS
  Clients = {c1, c2}
  Sessions = {s1}
  NoSession = NoSession
  Nobody = Nobody
  Policy <- Restricted
  Offered <- Representatives
  MaxDeaths = 1
  MaxLate = 1
  MaxRestarts = 1
SYMMETRY Symmetry
SPECIFICATION Spec
INVARIANTS
  RunningSessionsCanBeRelaunched
  TablesAgree
  AutomationIsNotRepeated
