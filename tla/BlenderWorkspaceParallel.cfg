SPECIFICATION Spec
CONSTANTS
  Calls = {c1, c2, c3}
  Kinds <- MCAllKinds
  Scripts = {s1, s2}
  ToolExecution = "parallel"
  MaxCrashes = 1
CHECK_DEADLOCK FALSE
SYMMETRY MCSymmetry
INVARIANT NothingLost
