SPECIFICATION Spec
CONSTANTS
  C1 = C1
  C2 = C2
  Call = {C1, C2}
  Scenarios <- SmallScenarios
  Batches <- SmallBatches
  MaxBatches = 2
  MayDie = TRUE
INVARIANTS TypeOK NobodyWaitsForNothing CancelledIsAborted OwnOutputs BatchComplete
PROPERTY CallsEnd
