SPECIFICATION FairLifeSpec
CONSTANTS
  t1 = t1
  Targets = {t1}
  Ids = {1, 2, 3}
  MaxAttempts = 3
CHECK_DEADLOCK FALSE
INVARIANTS
  ArchivedBeforeReplacement
