SPECIFICATION FairSpec
CONSTANTS
  c0 = c0
  c1 = c1
  c2 = c2
  c3 = c3
  Cpus <- MCCpus
  Bsp = c0
  Machines <- MCMachines
  Frames = 5
  StackPages = 2
  Timeout = 2
CHECK_DEADLOCK FALSE
INVARIANTS
  TypeOK
  PromptDistinctStacks
  ReportedBootedIsUp
  ReportedFailedIsDown
  PicRemapped
  PicReady
PROPERTIES
  StackPublished
  EnabledMadtReturns
  EveryCpuUp
