\* A target a batch reported as failed, with nothing else on disk.
SPECIFICATION AnalysisSpec
CONSTANTS
  t1 = t1
  t2 = t2
  Targets = {t1}
  Similar <- NoneSimilar
  Ids = {1}
  MaxAttempts = 2
CHECK_DEADLOCK FALSE
INVARIANTS
  BatchStatusUsed
