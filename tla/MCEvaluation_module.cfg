\* A module_files target: header and source are replaced together.
SPECIFICATION FairSpec
CONSTANTS
  hdr = hdr
  src = src
  fixture = fixture
  RepoFiles = {hdr, src, fixture}
  SourceFiles <- TwoFiles
  Granularity = "module_files"
INVARIANTS
  TypeOK
  PassSound
  FinallyRestores
  StopsAtFirstFailure
  VerdictExplained
  FailureLocated
  FunnelNarrows
PROPERTIES
  Terminates
  KeepsPromise
