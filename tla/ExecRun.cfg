SPECIFICATION FairSpec
CONSTANTS
  Outputs <- MCOutputs
  Statuses <- MCStatuses
  PipeCap = 2
  MaxOutput = 3
  MaxPiece = 1
  Signals = TRUE
INVARIANTS
  TypeOK
  Conserved
  ExitLast
  SentInOrder

  
