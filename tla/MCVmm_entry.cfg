SPECIFICATION Spec
CONSTANTS
  Slots = 4
  MemoryBase = 2
  LastFrame = 11
  KernelBase = 240
  KernelHuge = 1
  PhysBase = 128
  PhysHuge = 3
  RamContents <- MCRam
  Requests <- MCRequests
CHECK_DEADLOCK FALSE
INVARIANT
  GetEntryIsAddress
