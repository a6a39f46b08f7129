SPECIFICATION ServerSpec
CONSTANTS
  x = x
  y = y
  c1 = c1
  c2 = c2
  NoClient = NoClient
  TokenIds <- MCTokens
  Prompts <- MCPrompts
  MaxTokens <- MCMax
  KvCap = 2
  Sources = {"split", "single", "other"}
  Clients = {c1, c2}
CHECK_DEADLOCK FALSE
INVARIANTS
  ServerTypeOK
  ContextMatchesCache
  RoomIsLeft
  StopIsHeard
  StreamIsOwn
PROPERTY
  ReceivedIsClosed
