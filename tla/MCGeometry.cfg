SPECIFICATION Spec
CONSTANTS
  None = None
  TileSize = 2
  Unset = Unset
  Error = Error
  MaxGrid = 3
  MaxUnits = 10
  MaxExtent = 4
  MaxBlock = 2
INVARIANTS
  Coordinates Multicast Splits Blocks Copies
  Elementwise Products Reductions
  Launches RegisterCounts
