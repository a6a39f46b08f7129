SPECIFICATION CacheSpec
CONSTANTS
  e1 = e1
  e2 = e2
  e3 = e3
  NoExpert = NoExpert
  Cap = 2
  HeatMod = 3
  Experts <- MCExperts
  Q1Experts = {}
  Boards <- MCBoards
INVARIANT
  LabelMatchesBytes
