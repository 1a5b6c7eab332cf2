SPECIFICATION FairSpec
CONSTANTS
  HIGH = 3
  LOW = 1
  MaxPackets = 6
  MaxLost = 1
INVARIANTS
  CountExact
  NoSpuriousStop
PROPERTIES
  CountPaidBack
  SleeperWokenWhenSettled
CHECK_DEADLOCK FALSE
