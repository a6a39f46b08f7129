SPECIFICATION BackendsSpec
CONSTANTS
  Tokens = {t1, t2}
  Layers = 2
  Contexts <- MCContexts
  Ratios <- MCRatios
  MaxCompressed = 1
  Cuts <- MCCuts
  MaxPasses = 3
  MaxMisses = 1
  Vocab = {t1, t2}
  NLayers = 2
  CtxSize = 2
  MaxFed = 4
  MaxFailures = 2
INVARIANT BackendInv
INVARIANT AttendsToPrompt
INVARIANT MultipliesByOwn
PROPERTY OtherRowsStay
SYMMETRY Exchange
