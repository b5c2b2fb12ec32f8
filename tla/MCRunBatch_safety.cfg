\* Batches and attempts of the operator, with and without --force.
SPECIFICATION FairBatchSpec
CONSTANTS
  t1 = t1
  t2 = t2
  Targets = {t1, t2}
  Ids = {1}
  MaxAttempts = 2
  Order <- FirstSecond
CHECK_DEADLOCK FALSE
INVARIANTS
  ResultMatchesAttempt
PROPERTIES
  BatchEnds
