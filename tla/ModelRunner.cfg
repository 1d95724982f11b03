SPECIFICATION Spec
CONSTANTS
  Id = {a, b}
  MaxRows = 2
  MaxBlocks = 2
  BlockId = {x, y}
  x = x
  y = y
  Tables <- SmallTables
  NoBlock = NoBlock
  NoRequest = NoRequest
  Metadata <- SmallMetadata
SYMMETRY Symmetry
INVARIANTS TypeOK DecodeReadsOwn PrefillReadsOwn
