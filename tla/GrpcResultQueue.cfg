SPECIFICATION FairSpec
CONSTANTS
  Producers = {io, grpc}
  Main = main
  Tasks = {a, b}
  MaxPushes = 4
  Free = free
PROPERTIES
  ImplementsChannel
  BoundedDrain
  EveryTaskRuns
