SPECIFICATION Spec
CONSTANTS
  villager = villager  rival = rival  wolf = wolf
  None = None
  Npcs = {villager, rival, wolf}
  Sentient = {villager, rival}
  Faction <- MCFaction
  Hostility <- MCHostility
  GrudgeGain = 1
  Related <- MCRelated
  Sight <- MCSight
  Full = 2
  Calm = 1
  InhibitTicks = 2
  ExemptTicks = 1
  TalkTicks = 1
  ShunTicks = 1
  TicksPerDay = 3
  HitPoints = 2
  LowHealth = 2
  MaxTick = 2
  MaxOpen = 2
INVARIANTS
  WaitsForAnswer
PROPERTIES
  FightsOnlyFoes
  NoRenewedQuestion
