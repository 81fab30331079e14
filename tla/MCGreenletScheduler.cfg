CONSTANTS
  None = None
  compute = compute
  dm0 = dm0
  dm1 = dm1
  Threads <- MCThreads
  Position <- MCPosition
SPECIFICATION HSpec
INVARIANTS
  IInv
  InitBlocksAll
  OrderTotal
PROPERTIES
  OvertakenOnce
  AllServed
  StallReported
CHECK_DEADLOCK FALSE
