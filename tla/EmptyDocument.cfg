SPECIFICATION Spec
CONSTANTS
  BlockSize = 3
  FieldSize = 16
  TileM = 4
  TileN = 2
  DocumentSets <- EmptyToo
  Windows = {0}
  MaxNew = 4
  BlockAt <- FromTheEnd
INVARIANT PaddingNeverAttended
CHECK_DEADLOCK FALSE
