CONSTANTS
  None = None
  Zero = Zero
  compute = compute
  dm0 = dm0
  dm1 = dm1
  in = in
  out = out
  Threads <- MCThreads
  Position <- MCPosition
  Kind <- MCKind
  Buffers <- MCBuffers
  Reservers <- MCShared
  Waiters <- MCWaiters
  Tiles = 1
  Factor <- MCFactor
  Inputs = {x}
SPECIFICATION Spec
PROPERTY ReserveExclusive
CHECK_DEADLOCK FALSE
