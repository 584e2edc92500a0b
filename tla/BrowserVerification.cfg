\* Two connections, two runs of one definition that is saved twice, and a restart.
CONSTANTS
  Clients = {c1, c2}
  p1 = p1
  t1 = t1
  Projects = {p1}
  Tasks = {t1}
  Definitions = {d1}
  Variants = {v1}
  Keys = {k1}
  Nothing = Nothing
  Home <- InTheProject
  Drafts <- RequiredOrLenient
  Instances <- OneInstance
  Sessions <- NoSession
  Answers <- AnyAnswers
  MaxRuns = 2
  MaxSaves = 2
  MaxRestarts = 1
SYMMETRY Symmetry
CONSTRAINT FirstHasKey
SPECIFICATION Spec
INVARIANTS
  CompletedTasksStayVerified
  RunsAreExecutedOnce
  PassedImagesWereApproved
PROPERTIES
  DecisionsStand
CHECK_DEADLOCK FALSE
