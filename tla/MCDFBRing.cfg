CONSTANTS
  None = None
  Producers = {p1, p2}
  Consumers = {c1, c2}
  Cap = 4
  Sizes = {1, 2, 4}
  Values = {x, y}
  MayTimeOut = TRUE
SPECIFICATION Spec
SYMMETRY Symmetry
INVARIANTS
  IInv
  WindowsDisjoint
  TilesFilled
PROPERTIES
  HeldTilesStable
  ImplementsFifo
