SPECIFICATION Spec
CONSTANTS
  A = A
  B = B
  C = C
  E = E
  Request = {A}
  Docs <- OneDoc
  Prompt <- OneDocPrompt
  MaxTokens <- OneDocMaxTokens
  Guided = {A}
  Abortable = {}
  GenToken = 9
  NumBlocks = 6
  BlockSize = 2
  TokenBudget = 4
  MaxRunning = 3
  Threshold = 0
  DropFirst = FALSE
  NoKey = NoKey
  Poison = Poison
INVARIANT DocumentSpawnedOnce
