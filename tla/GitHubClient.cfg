SPECIFICATION Spec
CONSTANTS
  c1 = c1  c2 = c2
  Caller = {c1, c2}
  DefaultLimit = 2
  Limit = 1
  Window = 2
  MaxWait = 1
  Attempts = 3
  TokenLife = 6
  RenewBefore = 4
  RetryAfter = {1, 2}
  Requests = 1
  Reaper = 5
  Latency = 1
  HeldCap = 0
  None = None
INVARIANTS
  TypeOK
  NeverOverdrawn
  RefusedOnce
  TokenAlive
PROPERTIES
  HonoursEveryWait
  BuysOnce
  Ends
