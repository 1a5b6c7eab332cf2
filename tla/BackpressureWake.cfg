SPECIFICATION FairSpec
CONSTANTS
  HIGH = 2
  LOW = 1
  MaxPackets = 3
  MaxLost = 0
PROPERTIES
  SleeperWoken
CHECK_DEADLOCK FALSE
