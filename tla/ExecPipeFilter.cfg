SPECIFICATION FairSpec
CONSTANTS
  Codings = {TRUE, FALSE}
  Modes = {TRUE, FALSE}
  Body <- MCLongBody
  ChunkedWire <- MCLongWire
  Outputs <- MCNote
  Codes = {3}
  Child = "filter"
  MaxRecord = 4
  NetCap = 1
  PipeCap = 1
  StdinCap = 1
  SseCap = 14
  Slack = 2
  Frame = 1
  Faults = TRUE
  PollFails = FALSE

  
PROPERTY
  Returns
