SPECIFICATION PatientSpec
CONSTANTS
  Sessions = {s1, s2}
  Ents = {e1, e2}
  Npcs = {n1, n2}
  Names = {player, bot}
  KnownNames = {player}
  UnknownId = 0
  Null = null
  MaxCommands = 6
  MaxLost = 0
SYMMETRY Symmetry
INVARIANTS
  BusyNpcAccounted
  NpcKeptForTalk
  NoOrphanDialogue
