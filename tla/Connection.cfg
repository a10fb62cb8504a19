SPECIFICATION Spec
CONSTANTS
  Chars <- MCChars
  Hex <- MCHex
  QueryCap = 12
  CmdCap = 3
  EnvCap = 4
  MaxEnv = 2
  Conns = {1, 2}
  Scenarios <- MCScenarios
  BodyCap = 2
  MaxLosses = 1
INVARIANTS
  TypeOK
  OwnBody
  
  
  Arrives

  
CHECK_DEADLOCK FALSE
