SPECIFICATION Spec
CONSTANTS
  f1 = f1
  f2 = f2
  Payloads <- MCExecuteOnly
  Requests = {r1, r2}
  Blenders = {b1, b2}
  Blends = {f1}
  NoBlend = NoBlend
  NoRequest = NoRequest
  MaxCrashes = 0
CHECK_DEADLOCK FALSE
INVARIANT OkIsDurable
