SPECIFICATION FairSpec
CONSTANTS
  Token <- MCToken
  ZeroToken = 0
  Weights <- MCWeights
  Argmax <- MCArgmax
  Junk = Junk
  SpecMaxB = 3
  PrefillMaxB = 3
  EosToken = 2
  Prompts <- MCPrompts
  PromptMax = 5
  HistMax = 6
  CtxArgs = {2, 4, 7}
  PredictArgs = {0, 1, 3, 10}
  SpecArgs = {0, 1, 2, 5}
  U32 = 32
INVARIANT
  StopsOnlyWhenDone
