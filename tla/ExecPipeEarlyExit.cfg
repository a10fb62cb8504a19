SPECIFICATION FairSpec
CONSTANTS
  Codings = {TRUE}
  Modes = {FALSE}
  Body <- MCLongBody
  ChunkedWire <- MCLongWire
  Outputs <- MCQuiet
  Codes = {3}
  Child = "any"
  MaxRecord = 4
  NetCap = 1
  PipeCap = 1
  StdinCap = 1
  SseCap = 14
  Slack = 2
  Frame = 1
  Faults = FALSE
  PollFails = FALSE
PROPERTY
  ExitReported
CHECK_DEADLOCK FALSE
