SPECIFICATION Spec
CONSTANTS
  Order <- SmallOrder
  Attention <- SmallAttention
  EngineProc = "EngineCoreProc"
  Runner = "GPUModelRunner"
  Scheduler = "Scheduler"
  CacheFullBlocks = "cache_full_blocks"
  Nothing = "nothing"
  Programs = {"block"}
  MaxDepth = 1
INVARIANT BlockEngineRuns
