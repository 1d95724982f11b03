SPECIFICATION MCSpec
CONSTANTS
  Id = {a, b}
  Block = {x, y, z}
  Key = {k, l}
  NoKey = NoKey
  MaxTable = 2
SYMMETRY Symmetry
INVARIANTS TypeOK TableSound WriterExclusive
PROPERTY HeldBlocksStable
CHECK_DEADLOCK FALSE
