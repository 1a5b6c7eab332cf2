SPECIFICATION SyncFairSpec
CONSTANTS
  TicksPerHour = 4
  Deadline = 2
  TicksPerDay = 3
  MaxTick = 3
  MaxLost = 1
  Agents = {1, 2}
  idle = idle
  walks = walks
  Values = {idle, walks}
  Start <- MCStart
  MaxChanges = 2
INVARIANTS
  ClocksInStep
  EveryHourOnce
  DailyReset
  SyncedIsKnown
  HourReported
PROPERTIES
  JobsInOrder
  HoursPass
  ImplementsReplica
