SPECIFICATION Spec
CONSTANTS
  Slots = 4
  MemoryBase = 2
  LastFrame = 11
  KernelBase = 240
  KernelHuge = 1
  PhysBase = 128
  PhysHuge = 3
  RamContents <- MCClean
  Requests <- MCLapicRequests
CHECK_DEADLOCK FALSE
PROPERTY
  MapChangesItsPages
