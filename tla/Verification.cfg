\* Two connections, one run of two gates and one restart; results are recorded by
\* hand beside the runner.
CONSTANTS
  Clients = {c1, c2}
  t1 = t1
  p1 = p1
  k1 = k1
  Tasks <- OneTask
  Projects <- OneProject
  Sessions = {}
  Worktrees = {}
  Nothing = Nothing
  Home <- NoHome
  Criteria = {k1}
  Drafts <- Plans
  Creators = {c1, c2}
  Requested = {"completed"}
  Commands = {1, 2}
  Required = {1}
  Detected <- Both
  Configured <- TheFirst
  Selections <- TheSecond
  Answers = {"skipped"}
  MaxRuns = 1
  MaxRestarts = 1
SYMMETRY Symmetry
SPECIFICATION Spec
CONSTRAINT Apart
INVARIANTS
  PassedRunsPassedTheirGates
  CompletionIsEarned
  RunningRunsAreAttended
CHECK_DEADLOCK FALSE
