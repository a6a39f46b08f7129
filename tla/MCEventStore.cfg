SPECIFICATION EventStoreSpec
CONSTANTS
  Events <- MCEvents
  MaxCells = 25
INVARIANT EventStoreInv
PROPERTY ReplayIsStable
