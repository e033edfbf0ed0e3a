SPECIFICATION FairSpec
CONSTANTS
  f1 = f1
  f2 = f2
  Payloads <- MCPayloads
  Requests = {r1, r2}
  Blenders = {b1}
  Blends = {f1, f2}
  NoBlend = NoBlend
  NoRequest = NoRequest
  MaxCrashes = 1
CHECK_DEADLOCK FALSE
INVARIANTS
  TypeOK
  OncePerLife
  OkIsDurable
  AnswerConsumed
PROPERTIES
  TimeoutWithdraws
  RequestConsumed
