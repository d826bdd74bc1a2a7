SPECIFICATION FairSpec
CONSTANTS
  N = 3
  MaxCalls = 1
  MayFail = TRUE
PROPERTIES
  DestroyReturns
CHECK_DEADLOCK FALSE
