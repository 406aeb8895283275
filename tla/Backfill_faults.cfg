SPECIFICATION Safety
CONSTANTS
  w1 = w1  w2 = w2  o1 = o1  o2 = o2
  Run = {8, 9}
  Day <- DayOf
  Late = {}
  FirstDay = 6
  LastDay = 6
  Days = 2
  DaysArg = {2}
  WindowDays = 2
  PageSize = 1
  ResultCap = 1
  Row = {1, 2, 3, 4}
  Worker = {w1, w2}
  Operator = {o1, o2}
  StartLimit = 3
  Fault = {"race", "overlap", "dead"}
SYMMETRY Interchangeable
INVARIANTS
  NeverStalls
