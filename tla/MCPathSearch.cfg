CONSTANTS
  Token = {0, 1, 2, 3, 4}
  Capacity = 5
  GenSize = 3
  MaxHops = 4
  MaxPaths = 3
  Requests <- Searches
SPECIFICATION Spec
INVARIANTS PathsTypeOK ArenaIsClean PathsJoinEnds FirstPathIsShortest
