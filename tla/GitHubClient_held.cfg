SPECIFICATION Spec
CONSTANTS
  c1 = c1  c2 = c2
  Caller = {c1}
  DefaultLimit = 4
  Limit = 4
  Window = 2
  MaxWait = 1
  Attempts = 3
  TokenLife = 9
  RenewBefore = 2
  RetryAfter = {1, 2}
  Requests = 3
  Reaper = 5
  Latency = 0
  HeldCap = 6
  None = None
INVARIANT
  HeldWithinReaper
