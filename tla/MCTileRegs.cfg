CONSTANTS
  Unary = {"exp"}
  Binary = {"add"}
  MinMax = {"max"}
  Rows = 2
  Cols = 2
  Modes <- MCModes
  MaxRoots = 2
  MaxOps = 3
  MaxValues = 3
SPECIFICATION FairSpec
INVARIANTS
  TypeOK
  Faithful
  SpillsWhenFull
PROPERTY
  Packed
