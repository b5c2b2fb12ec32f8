\* Every short text and small class, up to two calls of evaluate(); every
\* response of up to four lines; every list of up to five values and every
\* table of up to twelve runs.
SPECIFICATION TextSpec
CONSTANTS
  hdr = "hdr"
  src = "src"
  Sources <- AllSources
  Responses <- SomeResponses
  MaxSplices = 2
  Lines <- SomeLines
  Arrays <- SomeArrays
  Paths = {"hdr", "src"}
  Values <- SomeValues
  Tables <- SomeTables
CHECK_DEADLOCK FALSE
INVARIANTS
  BracesMatched
  OnlyClassReplaced
  ScaffoldIsInterface
  CodeIsResponse
  OutcomeRecorded
  RanksAverage
  FisherExact
