SPECIFICATION Spec
CONSTANTS
  PageSize = 4
  MemoryBase = 8
  WordBits = 8
  IntBits = 4
  ByteBits = 4
  SizeMod = 64
  MemoryMaps <- MCMemoryMaps
  DirtyRam <- MCDirtyRam
  Requests <- MCRequests
INVARIANTS
  TypeOK
  NoSharedFrame
  BitmapReserved
  BitmapExact
  Accounting
PROPERTY
  ImplementsAllocator
