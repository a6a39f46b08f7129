SPECIFICATION Spec
CONSTANTS
  e1 = e1
  e2 = e2
  e3 = e3
  NoExpert = NoExpert
  Idle = Idle
  Cap = 1
  HeatMod = 2
  NAct = 3
  NLayers = 1
  Window = 1
  MaxSpurious = 1
  Experts <- MCExperts
  Q1Experts <- MCQ1Experts
  Boards <- MCBoards
  LayerOf <- MCLayerOf
  Expert0 <- MCExpert0
INVARIANTS
  BufferNotShared
  PrefetchInv
  QuietBetweenLayers
PROPERTIES
  OneJobAtATime
  ImplementsCache
  LayerCompletes
