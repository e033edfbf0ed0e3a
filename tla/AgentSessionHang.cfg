SPECIFICATION FairSpec
CONSTANTS
  MaxTexts = 1
  MaxRetries = 1
  Scripts <- MCOneError
  StreamMayThrow = TRUE
  ListenerMayThrow = FALSE
  MaxCalls = 0
  MaxThrows = 1
PROPERTY PromptReturns
CHECK_DEADLOCK FALSE
