SPECIFICATION FairSpec
CONSTANTS
  MaxTexts = 2
  MaxRetries = 1
  Scripts <- MCScripts
  StreamMayThrow = TRUE
  ListenerMayThrow = TRUE
  MaxCalls = 1
  MaxThrows = 1
INVARIANTS TypeOK MirrorShowsQueue ReloadIsFaithful FailuresBounded
CHECK_DEADLOCK FALSE
PROPERTY PromptReturnsUndisturbed
