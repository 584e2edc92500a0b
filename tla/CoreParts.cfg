\* FileWatch: two files, two contents, two reports on their way beside those of a
\* change.  Terminals: one terminal, two commands, two chunks of output.
\* CoreStorage: two cores, a tool, one piece of work, three migrations of which the
\* second rebuilds, two files, one second; on Windows.
CONSTANTS
  Parts = {"watch", "terminals", "storage"}
  Paths = {p1, p2}
  Contents = {a, b}
  Nothing = Nothing
  MaxReports = 2
  Terminals = {t1}
  MaxInputs = 2
  MaxChunks = 2
  Cores = {k1, k2}
  Tools = {u1}
  Rows = {r1}
  Latest = 3
  Rebuild = 2
  MaxFiles = 2
  Seconds = {1}
  OpenFilesMove = FALSE
  Nobody = Nobody
SYMMETRY Symmetry
SPECIFICATION PartsSpec
INVARIANTS
  WatchersCatchUp
  RunningTerminalsAreAttended
  TerminalsEndOnce
  ServingWorkIsKept
  DiscoveryNamesTheServingCore
  VersionsNeverRunAhead
CHECK_DEADLOCK FALSE
