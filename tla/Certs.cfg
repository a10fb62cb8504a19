SPECIFICATION Spec
CONSTANTS
  MaxGen = 2
  MaxFaults = 1
INVARIANTS
  TypeOK
  OneGeneration
PROPERTIES
  Heals
CHECK_DEADLOCK FALSE
