SPECIFICATION OrderSpec
CONSTANTS
  t1 = t1
  t2 = t2
  q1 = q1
  q2 = q2
  TransactCalls <- MCTransactCalls
  QueryCalls <- MCQueryCalls
  MaxRetries = 1
  PoolSize = 1
  Answers <- MCAnswers
  ParserOf <- MCParserOf
  FoundBody <- MCFoundBody
  EmptyBody <- MCEmptyBody
  Settles = TRUE
SYMMETRY MCSymmetry
INVARIANTS
  OrderTypeOK
  ChargedOnce
  MerchantIsRight
CHECK_DEADLOCK FALSE
