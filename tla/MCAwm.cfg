SPECIFICATION AwmSpec
CONSTANTS
  Sizes <- MCSizes
  Budgets <- MCBudgets
  MaxRegions = 2
  Word = 256
INVARIANTS
  BufferFitsPlacement
  AwmInv
PROPERTIES
  ReclaimSparesHot
  LowerBudgetSheds
