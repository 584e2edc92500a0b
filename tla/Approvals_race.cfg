\* Two connections that call and decide, one request, and a project that comes
\* and goes meanwhile.
CONSTANTS
  Clients = {c1, c2}
  f1 = f1
  p1 = p1
  p2 = p2
  Fingerprints <- OneRequest
  Methods <- OneMethod
  MethodOf <- OneOfThatMethod
  NewRules <- DenyRule
  Projects <- TwoProjects
  Homes <- ItMoves
  Choices <- ThreeChoices
  NoProject = NoProject
  NoRequest = NoRequest
  MaxApprovals = 2
  MaxRules = 1
SYMMETRY Symmetry
SPECIFICATION Spec
INVARIANTS
  ApprovalsAreUsedOnce
  NoConnectionAsksTwice
  GrantsAreExact
PROPERTY DecisionsAreFinal
