CONSTANTS
  None = None
  dm0 = dm0
  dm1 = dm1
  dm2 = dm2
  cast = cast
  back = back
  Threads <- MCThreads
  Position <- MCPosition
  CoreOf <- MCCoreOf
  Pipes <- MCPipes
  Source <- MCSource
  Destination <- MCDestination
  Counted <- MCCounted
  Lengths <- MCLengths
  MaxSends <- MCMaxSends
  MaxKernels = 2
SPECIFICATION Spec
INVARIANT CanWaitHonest
CHECK_DEADLOCK FALSE
