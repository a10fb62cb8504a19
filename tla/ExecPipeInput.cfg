SPECIFICATION Spec
CONSTANTS
  Codings = {TRUE, FALSE}
  Modes = {FALSE}
  Body <- MCBody
  ChunkedWire <- MCWire
  Outputs <- MCQuiet
  Codes = {3}
  Child = "any"
  MaxRecord = 3
  NetCap = 1
  PipeCap = 1
  StdinCap = 2
  SseCap = 5
  Slack = 3
  Frame = 1
  Faults = TRUE
  PollFails = TRUE
INVARIANTS
  TypeOK
  StdinFaithful
  CleanEof
  
PROPERTY
  NoKillAfterReap
