SPECIFICATION Spec
CONSTANTS
  m1 = m1
  m2 = m2
  m3 = m3
  par = par
  seq = seq
  UserMessages = {m1, m2}
  Tools <- MCTools
  SequentialTools <- MCSequentialTools
  ToolExecution = "parallel"
  SteeringMode = "one-at-a-time"
  FollowUpMode = "one-at-a-time"
  Batches <- MCPairThenSeq
  MaxTurns = 2
  MaxThrows = 1
CHECK_DEADLOCK FALSE
INVARIANT SequentialToolRunsAloneAlways
