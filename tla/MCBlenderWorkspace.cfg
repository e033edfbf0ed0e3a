SPECIFICATION Spec
CONSTANTS
  Calls = {c1, c2, c3, c4}
  Kinds <- MCAllKinds
  Scripts = {s1, s2}
  ToolExecution = "sequential"
  MaxCrashes = 1
CHECK_DEADLOCK FALSE
SYMMETRY MCSymmetry
INVARIANTS
  TypeOK
  NothingLost
  FolderShowsWhatRan
  WorkKept
