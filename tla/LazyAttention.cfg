SPECIFICATION Spec
CONSTANTS
  BlockSize = 3
  FieldSize = 16
  TileM = 4
  TileN = 2
  DocumentSets <- SmallDocuments
  Windows <- SlidingWindows
  MaxNew = 6
  BlockAt <- FromTheEnd
INVARIANTS TypeOK AdmittedFits AttentionExact StoredOnce MaximumFinite PaddingNeverAttended
CHECK_DEADLOCK FALSE
