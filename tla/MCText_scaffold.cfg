\* A member that is initialized with braces in front of a body.
SPECIFICATION TextSpec
CONSTANTS
  hdr = "hdr"
  src = "src"
  Sources <- BracedSources
  Responses <- SomeResponses
  MaxSplices = 1
  Lines = {}
  Arrays = {}
  Paths = {"hdr", "src"}
  Values = {}
  Tables = {}
CHECK_DEADLOCK FALSE
INVARIANTS
  NoBodyGiven
