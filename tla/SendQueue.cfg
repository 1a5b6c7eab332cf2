SPECIFICATION FairSpec
CONSTANTS
  MaxSent = 6
  Large = {1, 2, 4, 5}
  Capacity = 2
  None = None
INVARIANTS
  FreedExactlyOnce
  DeliveredInOrder
PROPERTY
  SessionEnds
CHECK_DEADLOCK FALSE
