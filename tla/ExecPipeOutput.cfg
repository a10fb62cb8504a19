SPECIFICATION Spec
CONSTANTS
  Codings = {FALSE}
  Modes = {TRUE, FALSE}
  Body <- MCShortBody
  ChunkedWire <- MCShortWire
  Outputs <- MCOutputs
  Codes = {3}
  Child = "any"
  MaxRecord = 1
  NetCap = 1
  PipeCap = 3
  StdinCap = 1
  SseCap = 6
  Slack = 3
  Frame = 1
  Faults = FALSE
  PollFails = TRUE
INVARIANTS
  
  Terminator
  OutputInOrder
