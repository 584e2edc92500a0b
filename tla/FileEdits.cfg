\* Two connections and one file of two versions; another program writes once, and
\* the core is stopped or killed once.
CONSTANTS
  Clients = {c1, c2}
  Documents = {p1}
  v1 = v1
  v2 = v2
  Texts <- Versions
  Absent = Absent
  Folder = Folder
  Things <- Anything
  Patch = Patch
  MaxRows = 1
  MaxWrites = 1
  MaxRestarts = 1
SYMMETRY Symmetry
SPECIFICATION EditSpec
INVARIANTS
  CheckpointsKeepTheirArtifacts
PROPERTIES
  SavesReplaceWhatTheyName
  RestoresSpareOtherWork
