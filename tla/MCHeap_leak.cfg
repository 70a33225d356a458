SPECIFICATION FairSpec
CONSTANTS
  Cpus = {p0, p1}
  PageSize = 32
  MemoryBase = 64
  Frames = 9
  Sizes = {0, 8, 49}
  Ops <- AllOps
  MaxCalls = 3
CHECK_DEADLOCK FALSE
PROPERTY
  LockReleased
