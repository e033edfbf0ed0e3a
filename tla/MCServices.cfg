SPECIFICATION ServicesSpec
CONSTANTS
  NoEvent = NoEvent
  EndOfStream = EndOfStream
  MaxEvents = 4
  MaxMutations = 3
  MaxEntries = 3
  MaxDeaths = 1
  MaxFiles = 2
  p = p
  q = q
  Processes = {p, q}
  MaxTokens = 2
  MaxWrites = 2
  Managers = {p, q}
  f = f
  g = g
  Fields = {f, g}
  MaxSets = 3
  MaxReloads = 1
  MaxDeadManagers = 1
  Sizes = {1, 3}
  Budgets = {3}
  MaxLog = 5
  MaxAttempts = 2
  MaxVersions = 2
  MaxMisfortunes = 1
  MaxCommands = 2
  MaxPrompts = 2
  MaxRequests = 2
  Remarks <- MCRemarks
  Strangers = {"thanks"}
  QueueLimit = 1
  BackfillLimit = 1
  MaxPosts = 2
  MaxSlackEvents = 3
  MaxArrivals = 3
  MaxMishaps = 1
INVARIANTS
  ServicesTypeOK
  ScheduleMatchesFile
  MutationsQueued EditsCompose
  LoginsKept
  SettingsKept
  CutIsSound
  ClientHearsCurrent OldSessionsGone PromptHeard
  RunsKeptApart EverythingSaidIsSeenOnce
PROPERTIES
  EverythingIsHeard
  EveryMutationReturns
  EventsTakenUp
  SessionFileKept
  ChannelComesToRest
CHECK_DEADLOCK FALSE
