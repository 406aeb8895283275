SPECIFICATION Spec
CONSTANTS
  r1 = r1  r2 = r2  r3 = r3  w1 = w1  w2 = w2  w3 = w3
  None = None
  Row = {r1, r2}
  Worker = {w1, w2}
  MaxAttempts = 2
  BatchSize = 2
  Rank <- RankLiveFirst
  Committing = {r1}
  Fault = {"handling", "waiting", "ack"}
INVARIANTS
  TypeOK
  AttemptsAccounted
  ProcessingIsLocked
PROPERTY
  SettlesForGood
