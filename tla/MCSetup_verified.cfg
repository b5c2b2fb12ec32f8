\* A baseline probe that ran no direct test.
SPECIFICATION FairSetupSpec
CONSTANTS
  Order <- TwoTargets
  Contents <- SomeContents
  Scans <- SomeScans
INVARIANTS
  EnabledIsVerified
