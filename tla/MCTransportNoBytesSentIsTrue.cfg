SPECIFICATION Spec
CONSTANTS
  t1 = t1
  q1 = q1
  TransactCalls <- MCTransactCalls
  QueryCalls <- MCQueryCalls
  MaxRetries = 2
  PoolSize = 1
  Answers <- MCAnswers
  ParserOf <- MCParserOf
INVARIANTS
  NoBytesSentIsTrue
CHECK_DEADLOCK FALSE
