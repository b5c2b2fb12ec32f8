\* Three LLM calls and two runs of the evaluator, each with or without --force.
SPECIFICATION Spec
CONSTANTS
  MaxCalls = 3
  MaxRuns = 2
CHECK_DEADLOCK FALSE
INVARIANTS
  PassSound
  OutputsOfOneRun
PROPERTIES
  SourceRestored
  PlainNeverOverwrites
