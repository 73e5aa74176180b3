SPECIFICATION MCSpec
CONSTANTS
  x = x
  y = y
  outer = outer
  inner = inner
  Host = Host
  Events = {x, y}
  Tokens <- MCTokens
  Emits <- Cycle
  Throws = TRUE
  KMaxRecurse = 2
  Scopes = {outer, inner}
  Manual = {x}
  Parent <- MCParent
  Elements = {x, y}
  MaxNext = 2
  MaxLength = 3
  MaxCalls = 4
  Names <- MCNames
  Capacity = 2
  Throwing = TRUE
  MaxPasses = 2
INVARIANTS
  DepthExact
  SubscriptionOrder
  SubscriptionsOwned
  MiddlewareOrder
  NoChannelForgotten
PROPERTY
  FanoutComplete
