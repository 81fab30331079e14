CONSTANTS
  None = None
  Zero = Zero
  compute = compute
  dm0 = dm0
  dm1 = dm1
  in = in
  out = out
  Threads <- MCThreads
  Position <- MCPosition
  Kind <- MCKind
  Buffers <- MCBuffers
  Reservers <- MCReservers
  Waiters <- MCWaiters
  Tiles = 1
  Factor <- MCFactor
  Inputs = {x}
SPECIFICATION Spec
PROPERTY PopNeedsWait
CHECK_DEADLOCK FALSE
