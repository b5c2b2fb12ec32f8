\* Two targets, reports that change, runs of both scripts with every option, a
\* stop after every step.
SPECIFICATION FairSetupSpec
CONSTANTS
  Order <- TwoTargets
  Contents <- SomeContents
  Scans <- SomeScans
INVARIANTS
  ConfigureTypeOK
  DraftsAreCatalog
  FirstDecides
  ReportTrue
PROPERTIES
  UnforcedKept
  SetupEnds
