SPECIFICATION FairSpec
CONSTANTS
  t1 = t1
  q1 = q1
  TransactCalls <- MCTransactCalls
  QueryCalls <- MCQueryCalls
  MaxRetries = 2
  PoolSize = 1
  Answers <- MCAnswers
  ParserOf <- MCParserOf
INVARIANTS
  TypeOK
  NoDoubleCharge
  SafeToResubmit
  TextTellsTheLedger
PROPERTIES
  KeepsPromise
  NeverRetriedOnceSent
  EveryCallReturns
CHECK_DEADLOCK FALSE
