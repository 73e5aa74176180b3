SPECIFICATION FairSpec
CONSTANTS
  t1 = t1
  t2 = t2
  b1 = b1
  b2 = b2
  b3 = b3
  NoBlock = NoBlock
  Threads = {t1, t2}
  Blocks = {b1, b2, b3}
  Sizes = {0, 2, 3}
  MinExp = 1
  MaxExp = 2
  MaxRetained = 6
  MaxRefs = 2
  MaxCount = 4
INVARIANTS
  OnePlace
  RetainedExact
  FitsRequest
PROPERTY
  DeadPoolDrains
