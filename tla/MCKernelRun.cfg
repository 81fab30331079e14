CONSTANTS
  None = None
  Zero = Zero
  compute = compute
  dm0 = dm0
  dm1 = dm1
  in = in
  out = out
  Rounds = 3
  Threads <- MCThreads
  Position <- MCPosition
  Kind <- MCKind
  Buffers <- MCBuffers
  Reservers <- MCReservers
  Waiters <- MCWaiters
  Tiles = 2
  Factor <- MCFactor
  Inputs <- MCInputs
  Kernels <- MCKernels
SPECIFICATION RunSpec
INVARIANT InOrder
PROPERTY EndsAsItShould
CHECK_DEADLOCK FALSE
