SPECIFICATION FairSpec
CONSTANTS
  A = A
  B = B
  C = C
  E = E
  Request = {A, B, C, E}
  Docs <- PressureDocs
  Prompt <- PressurePrompt
  MaxTokens <- PressureMaxTokens
  Guided = {E}
  Abortable = {B}
  GenToken = 9
  NumBlocks = 5
  BlockSize = 2
  TokenBudget = 3
  MaxRunning = 3
  Threshold = 0
  DropFirst = FALSE
  NoKey = NoKey
  Poison = Poison
INVARIANTS TypeOK FreeQueueExact CacheSound TableSpellsContext LiveOnce DocumentsAheadOfParent AssertionsHold TrackedAreLive
PROPERTIES ImplementsCache EveryRequestServed
