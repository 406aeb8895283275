SPECIFICATION Spec
CONSTANTS
  w1 = w1  w2 = w2
  Worker = {w1, w2}
  Job <- Jobs
  Run <- Runs
  RunOf <- RunOfJob
  AttemptOf <- AttemptOfJob
  Conclusion <- Endings
  WorkflowOf <- Workflows
  ShaOf <- Shas
  Payload <- Deliveries
  TimedOutIsFailure = TRUE
  ExcludeInfraFailures = TRUE
  Overlap = FALSE
  None = None
SYMMETRY Symmetry
INVARIANTS
  TypeOK
  FlakesMatchFacts
  MostAdvancedWins
  NothingMissed
