SPECIFICATION Spec
CONSTANTS
  MaxPid = 3
  MaxSignals = 1
  MaxExecs = 1
INVARIANTS
  TypeOK
  AddressFree
  Survivor
PROPERTIES
  OneServes
  LoopStops
CHECK_DEADLOCK FALSE
