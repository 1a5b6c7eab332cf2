SPECIFICATION Spec
CONSTANTS
  Sessions = {s1}
  Ents = {e1, e2}
  Npcs = {n1}
  Names = {player}
  KnownNames = {player}
  UnknownId = 0
  Null = null
  MaxCommands = 2
  MaxLost = 0
INVARIANTS
  BusyNpcAccounted
