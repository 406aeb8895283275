SPECIFICATION Spec
CONSTANTS
  i1 = i1  i2 = i2  r1 = r1  r2 = r2  s1 = s1
  Installation = {i1, i2}
  Repo = {r1, r2}
  Private = {r2}
  Reorder = FALSE
  Scouts = {}
  Wanted = 2
  EventLimit = 3
  ReplayLimit = 1
  None = None
SYMMETRY InstallationSymmetry
INVARIANT
  UninstallHolds
