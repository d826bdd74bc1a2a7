SPECIFICATION FairSpec
CONSTANTS
  Chats = {c1, c2}
  None = None
  Outputs <- MCOutputs
  PipeCap = 1
INVARIANTS
  TypeOK
  Cancellable
  StrayLostItsChild
  CompleteStream
PROPERTIES
  HandlersEnd
