SPECIFICATION MCSpec
CONSTANTS
  r1 = r1
  r2 = r2
  r3 = r3
  NoDeadline = NoDeadline
  Ids = {r1, r2, r3}
  Timeouts = {0, 2}
  MaxTime = 2
  Horizon = 4
  MaxRequests = 4
  KHistory = 2
  Reuse = FALSE
  ForgetLate = TRUE
  d1 = d1
  d2 = d2
  h1 = h1
  Host = Host
  Devices = {d1, d2}
  Handlers = {h1}
  Throwing = {h1}
  InitCapacity = 2
  Capacities <- MCCapacities
  LateHook = FALSE
  NestedPump = TRUE
  MaxPosts = 3
  MaxDepth = 4
PROPERTY
  LostIsUnknown
