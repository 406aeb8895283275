SPECIFICATION Safety
CONSTANTS
  w1 = w1  w2 = w2  o1 = o1  o2 = o2
  Run = {1, 2, 3, 4, 5, 6, 7, 8, 9, 10}
  Day <- DayOf
  Late = {9, 10}
  FirstDay = 6
  LastDay = 7
  Days = 6
  DaysArg = {2, 6}
  WindowDays = 3
  PageSize = 2
  ResultCap = 3
  Row = {1, 2, 3, 4}
  Worker = {w1, w2}
  Operator = {o1}
  StartLimit = 2
  Fault = {"dead"}
PROPERTY NeverTurnsBack
