SPECIFICATION Spec
CONSTANTS
  bed = bed  meal = meal  work = work
  None = None
  Npcs = {n1, n2}
  Fixed = {bed}
  Camps = {c1, c2}
  Places = {"Town", "Wild"}
  Wild = "Wild"
  Jobs = {meal, work}
  JobPlace <- MCJobPlace
  JobNeed <- MCJobNeed
  FixedPlace <- MCFixedPlace
  FixedNeeds <- MCFixedNeeds
  JobTicks = 1
  HitPoints = 2
  MaxEvents = 2
INVARIANTS TypeOK OccupancyAgrees CampsInUse BusyHasItsTalk
SYMMETRY Symmetry
