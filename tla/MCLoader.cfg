SPECIFICATION LoaderSpec
CONSTANTS
  NLayers = 1
  NExperts = 2
  PartTensors <- MCPartTensors
INVARIANT LoaderInv
INVARIANT IndexedIsPresent
