\* Two emitters of three events, one client, a log and a table of two events, a
\* channel of one; one insert fails, or the core ends once.
CONSTANTS
  Emitters = {t1, t2}
  Clients = {c1}
  Retained = 2
  PruneEvery = 2
  Capacity = 1
  MaxEmits = 3
  MaxFaults = 1
  Page = 1
SYMMETRY Symmetry
SPECIFICATION Spec
INVARIANTS
  NumbersNameOneEvent
  NothingIsMissedSilently
  WaitingClientsAreHeard
