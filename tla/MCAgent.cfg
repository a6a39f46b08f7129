SPECIFICATION ReasoningSpec
CONSTANTS
  a = a
  c = c
  Claims <- MCClaims
  Words  <- MCWords
  Similar <- MCSimilar
  Capacity = 3
  One = 1
  MaxEvidence = 1
  Patterns <- MCPatterns
  Queries <- MCQueries
  Likeness <- MCLikeness
  Dim = 64
  MaxPatterns = 3
  Executors <- MCExecutors
  Capabilities <- MCCapabilities
  MaxExecutors = 3
  Evidence <- MCEvidence
  MaxIterations = 2
  MaxRecords = 2
  Messages = {"hello", "why"}
  Replies = {"yes"}
  MaxHistory = 4
  MaxHistoryTurns = 3
  MaxTalk = 6
INVARIANT ReasoningInv
PROPERTY FailedTransitionChangesNothing
PROPERTY DuplicatesLeaveTheirPrior
SYMMETRY EndsOfChain
