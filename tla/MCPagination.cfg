SPECIFICATION FairSpec
CONSTANTS
  c1 = c1
  c2 = c2
  Consumers <- MCConsumers
  PageSize = 2
  MaxRecords = 5
INVARIANTS
  TypeOK
  YieldsInOrder
  CleanEndIsComplete
  FetchesLazily
PROPERTIES
  IterationEnds
CHECK_DEADLOCK FALSE
