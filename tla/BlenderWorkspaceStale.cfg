SPECIFICATION Spec
CONSTANTS
  Calls = {c1, c2, c3}
  Kinds <- MCInitAndExecute
  Scripts = {s1, s2}
  ToolExecution = "sequential"
  MaxCrashes = 0
CHECK_DEADLOCK FALSE
SYMMETRY MCSymmetry
INVARIANT RunsItsSnapshot
