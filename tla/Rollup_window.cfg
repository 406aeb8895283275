SPECIFICATION Spec
CONSTANTS
  w1 = w1  c1 = c1  r1 = r1  r2 = r2
  Worker = {w1}
  Operator = {c1}
  Job <- Jobs
  RollupDays = 1
  BoardDays = 2
  CliDays = {1}
  LastDay = 2
  Slack = 2
  Delay = 1
  None = None
INVARIANT
  StatsCatchUp
