SPECIFICATION Spec
CONSTANTS
  Slots = {s1, s2}
  Requests <- MCRequests
  Conns = {}
  MaxForwards = 2
  MaxId = 3
  Reuse = TRUE
  Scribbles = TRUE
INVARIANTS
  
  RemovedStaysRemoved
SYMMETRY SlotSymmetry
CHECK_DEADLOCK FALSE
