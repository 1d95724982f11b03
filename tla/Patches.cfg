SPECIFICATION Spec
CONSTANTS
  Order <- SmallOrder
  Attention <- SmallAttention
  EngineProc = "EngineCoreProc"
  Runner = "GPUModelRunner"
  Scheduler = "Scheduler"
  CacheFullBlocks = "cache_full_blocks"
  Nothing = "nothing"
  Programs = {"lazy", "block", "context"}
  MaxDepth = 1
INVARIANTS TypeOK OriginalsSound EngineProcessIsLazy
PROPERTIES RevertRestores LeaveRestores
