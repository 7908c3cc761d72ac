SPECIFICATION ReportSpec
CONSTANTS
  c1 = c1
  Consumers <- MCConsumers
  PageSize = 2
  MaxRecords = 3
  Content <- MCContent
  ProxyBodies <- MCBrokenPages
  Uncaught <- MCUncaught
INVARIANTS
  ReportTypeOK
  GatewayErrorsAreTold
  RecordsArrive
PROPERTIES
  ImplementsPagination
CHECK_DEADLOCK FALSE
