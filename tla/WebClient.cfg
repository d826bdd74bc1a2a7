SPECIFICATION PageSpec
CONSTANTS
  Chats = {c1, c2}
  None = None
  Outputs <- MCOutputs
  PipeCap = 1
INVARIANT OnlyAbortedEnds
