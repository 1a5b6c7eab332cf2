SPECIFICATION FairSpec
CONSTANTS
  Sessions = {s1, s2}
  Ents = {e1, e2}
  Npcs = {n1}
  Names = {player, bot}
  KnownNames = {player}
  UnknownId = 0
  Null = null
  MaxCommands = 3
  MaxLost = 1
INVARIANTS
  IndexSafety
  OnePlayerPerAccount
  NoComponentOnDead
PROPERTIES
  SessionForgotten
  NobodyWaitsForEver
