\* One target over attempts, archives, configure --force and batch reports.
SPECIFICATION AnalysisSpec
CONSTANTS
  t1 = t1
  t2 = t2
  Targets = {t1}
  Similar <- NoneSimilar
  Ids = {1, 2, 3}
  MaxAttempts = 3
CHECK_DEADLOCK FALSE
INVARIANTS
  CompletedReported
  PassEarned
  FailureCounted
  ArchivedVerdictsAreRemnants
PROPERTIES
  FreshRunId
  ResponsesKept
