SPECIFICATION FairSpec
CONSTANTS
  Vocab = 6
  HeapMax = 5
  DefaultK = 4
  LastN = 2
  Scale = 10
  LogitValues <- MCLogits
  Calls <- MCCalls
  Weight <- MCWeight
INVARIANTS
  TypeOK
  TopKKept
  DrawnFromNucleus
  GreedyAgrees
PROPERTIES
  PenaltyLowers
  Returns
