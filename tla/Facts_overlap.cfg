SPECIFICATION Spec
CONSTANTS
  w1 = w1  w2 = w2
  Worker = {w1, w2}
  Job <- Jobs
  Run <- Runs
  RunOf <- RunOfJob
  AttemptOf <- AttemptOfJob
  Conclusion <- Endings
  WorkflowOf <- Workflows
  ShaOf <- Shas
  Payload <- Crawl
  TimedOutIsFailure = TRUE
  ExcludeInfraFailures = TRUE
  Overlap = TRUE
  None = None
INVARIANT
  FlakesMatchFacts
