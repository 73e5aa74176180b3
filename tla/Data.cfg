SPECIFICATION MCSpec
CONSTANTS
  Keys = {"k", "j"}
  Scalars = {"n"}
  KMaxDepth = 3
  MaxTokens = 9
  MaxWrong = 5
  MaxUnits = 5
  MaxNumber = 5
  IntMin <- MCIntMin
  IntMax = 99
  MaxExponent = 10
  MemberKeys = {"k", "j", "i"}
  MemberValues = {1, 2}
  NoValue = NoValue
  MaxMembers = 3
  Words <- MCWords
  Longs <- MCLongs
  Segments = {0, 5}
  FrameTypes <- MCFrameTypes
  Garbage = 170
  d1 = d1
  h1 = h1
  h2 = h2
  Host = Host
  Devices = {d1}
  Handlers = {h1, h2}
  Throwing = {}
  InitCapacity = 2
  Capacities <- MCCapacities
  LateHook = TRUE
  NestedPump = FALSE
  MaxPosts = 4
  MaxDepth = 3
CHECK_DEADLOCK FALSE
INVARIANTS
  DocumentsParsed
  ScalarsDecoded
  OptionsMerged
  FrameOnWire
  Conserved
PROPERTY
  LatestWinsFifo
