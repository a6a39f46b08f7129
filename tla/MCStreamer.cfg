SPECIFICATION StreamerSpec
CONSTANTS
  a = a
  b = b
  long = long
  cut = cut
  NoName = NoName
  Names <- MCNames
  Trunc <- MCTrunc
  Sizes <- MCSizes
  MaxRegions = 3
  CacheBytes = 3
  Word = 16
  MaxClock = 2
INVARIANTS
  CountIsValid
  UsedIsSum
PROPERTIES
  RoomIsMade
  ReadEnds
