SPECIFICATION FairSpec
CONSTANTS
  bed = bed  meal = meal  work = work
  None = None
  Npcs = {n1}
  Fixed = {bed}
  Camps = {c1}
  Places = {"Town", "Wild"}
  Wild = "Wild"
  Jobs = {meal, work}
  JobPlace <- MCJobPlace
  JobNeed <- MCJobNeed
  FixedPlace <- MCFixedPlace
  FixedNeeds <- MCFixedNeeds
  JobTicks = 2
  HitPoints = 2
  MaxEvents = 3
INVARIANTS WaitingIsIdle VirtualJobContained
PROPERTY CrisisResolved
