SPECIFICATION Spec
CONSTANTS
  A = A
  B = B
  C = C
  E = E
  Request = {A, B}
  Docs <- AliasDocs
  Prompt <- AliasPrompt
  MaxTokens <- AliasMaxTokens
  Guided = {}
  Abortable = {}
  GenToken = 9
  NumBlocks = 8
  BlockSize = 2
  TokenBudget = 4
  MaxRunning = 3
  Threshold = 0
  DropFirst = FALSE
  NoKey = NoKey
  Poison = Poison
INVARIANT QueriesDoNotAlias
