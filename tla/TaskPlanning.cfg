\* Two connections, three tasks in a project with a session, or in none.
CONSTANTS
  Clients = {c1, c2}
  t1 = t1
  t2 = t2
  t3 = t3
  p1 = p1
  s1 = s1
  Tasks <- ThreeTasks
  Projects = {p1}
  Sessions <- OneSession
  Worktrees = {}
  Nothing = Nothing
  Home <- InTheFirst
  Criteria = {}
  Drafts <- Plans
  Creators = {c1}
  Requested = {"completed"}
SPECIFICATION PlanningSpec
SYMMETRY Symmetry
CONSTRAINT Apart
INVARIANTS
  NothingWaitsForItself
  RelativesShareTheirProject
CHECK_DEADLOCK FALSE
