SPECIFICATION Spec
CONSTANTS
  Uploads = {"good", "forged", "broken"}
  Original = "original"
  Mismatched = {"forged"}
  Broken = {"broken"}
  Blocks = 2
  MaxOpen = 1
  Commands = {"c"}
  MaxPath = 1
  MaxKills = 1
  MaxLosses = 1
  MaxStarts = 1
INVARIANTS
  TypeOK
  BinaryWhole

  
  
CHECK_DEADLOCK FALSE
