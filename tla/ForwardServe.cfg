SPECIFICATION FairSpec
CONSTANTS
  Slots = {s1, s2}
  Requests <- MCTwoRequests
  Conns = {c1, c2}
  MaxForwards = 2
  MaxId = 2
  Reuse = FALSE
  Scribbles = FALSE
INVARIANTS
  TypeOK
  ListedListens
  ConnectionsExact
PROPERTIES
  PortReleased
  
CHECK_DEADLOCK FALSE
