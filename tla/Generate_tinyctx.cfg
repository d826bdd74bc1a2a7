SPECIFICATION FairSpec
CONSTANTS
  Token <- MCToken
  ZeroToken = 0
  Weights <- MCWeights
  Argmax <- MCArgmax
  Junk = Junk
  SpecMaxB = 3
  PrefillMaxB = 3
  EosToken = 2
  Prompts <- MCPrompts
  PromptMax = 5
  HistMax = 6
  CtxArgs = {0, 1}
  PredictArgs = {0, 1, 3, 10}
  SpecArgs = {0, 1, 2, 5}
  U32 = 32
INVARIANT
  KvWithinAllocation
