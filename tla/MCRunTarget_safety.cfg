\* Two targets, three attempts, crashes anywhere: what holds in every state,
\* what a step may never do, and that every attempt ends.
SPECIFICATION FairSpec
CONSTANTS
  t1 = t1
  t2 = t2
  Targets = {t1, t2}
  Ids = {1}
  MaxAttempts = 3
CHECK_DEADLOCK FALSE
INVARIANTS
  SpoiltOnlyByStrays
  RowsFollow
  VerdictMatchesResponse
  CompletedAgree
PROPERTIES
  PlainKeepsVerdicts
  AttemptsEnd
