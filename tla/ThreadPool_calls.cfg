SPECIFICATION FairSpec
CONSTANTS
  N = 4
  MaxCalls = 3
  MayFail = TRUE
  MaxRows = 7
  Jobs <- MCJobs
INVARIANTS
  TypeOK
  ProductsComplete
  TaskIsCurrent
  FreedAlone
PROPERTIES
  SlotWrittenAlone
  ImplementsForkJoin
  CallsReturn
  WholePoolEnds
CHECK_DEADLOCK FALSE
