SPECIFICATION WvsSpec
CONSTANTS
  a = a
  b = b
  long = long
  cut = cut
  NoKey = NoKey
  Names <- MCNames
  Trunc <- MCTrunc
  Hash <- MCHash
  Capacity = 3
  Coldest = 1
INVARIANTS
  EntriesAreFound
  CountIsOccupancy
  SavedWhole
PROPERTY
  ImplementsScoreboard
