SPECIFICATION Spec
CONSTANTS
  Outputs <- MCPlain
  Statuses = {3}
  PipeCap = 2
  MaxOutput = 4
  MaxPiece = 2
  Signals = FALSE
INVARIANT
  FullOutput
