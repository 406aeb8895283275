SPECIFICATION Safety
CONSTANTS
  w1 = w1  w2 = w2  o1 = o1  o2 = o2
  Run = {1, 2, 3, 4, 5, 6, 7, 8, 9}
  Day <- DayOf
  Late = {9}
  FirstDay = 6
  LastDay = 6
  Days = 3
  DaysArg = {3}
  WindowDays = 3
  PageSize = 1
  ResultCap = 2
  Row = {1, 2, 3}
  Worker = {w1}
  Operator = {o1}
  StartLimit = 1
  Fault = {}
INVARIANT NoGap
