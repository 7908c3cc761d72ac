SPECIFICATION ReportSpec
CONSTANTS
  c1 = c1
  Consumers <- MCConsumers
  PageSize = 2
  MaxRecords = 3
  Content <- MCContent
  ProxyBodies <- MCXmlPages
  Uncaught <- MCUncaught
INVARIANTS
  HttpErrorsAreTold
CHECK_DEADLOCK FALSE
