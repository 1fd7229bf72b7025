SPECIFICATION FairSpec
CONSTANTS
  ReadAhead = 1
  Room = 1
  p1 = p1
  p2 = p2
  Traffics <- MCTraffics
INVARIANTS
  Inv
  DeliveredAsSent
  RefusesWithReason
PROPERTIES
  DeliveredAll
CHECK_DEADLOCK FALSE
