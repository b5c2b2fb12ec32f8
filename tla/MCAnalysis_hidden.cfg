\* A failed attempt on a run id that has a row from before.
SPECIFICATION AnalysisSpec
CONSTANTS
  t1 = t1
  t2 = t2
  Targets = {t1}
  Similar <- NoneSimilar
  Ids = {1, 2}
  MaxAttempts = 2
CHECK_DEADLOCK FALSE
INVARIANTS
  FailureNotHidden
