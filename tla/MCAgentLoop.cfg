SPECIFICATION Spec
CONSTANTS
  m1 = m1
  m2 = m2
  m3 = m3
  par = par
  seq = seq
  UserMessages = {m1, m2, m3}
  Tools <- MCTools
  SequentialTools <- MCSequentialTools
  ToolExecution = "parallel"
  SteeringMode = "one-at-a-time"
  FollowUpMode = "all"
  Batches <- MCParallelPair
  MaxTurns = 2
  MaxThrows = 1
CHECK_DEADLOCK FALSE
PROPERTY ImplementsConversation
INVARIANTS
  TypeOK
  ContextInSync
  EachMessageOnce
  PendingCallsExact
SYMMETRY MCSymmetry
