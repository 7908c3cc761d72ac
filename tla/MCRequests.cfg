SPECIFICATION Spec
CONSTANTS
  Calls <- MCCalls
  MaxPages = 2
INVARIANTS
  TypeOK
  AmountsAreExact
  OneScheduleStyle
  OnePaymentSource
  ArgumentsArrive
  ExtraParamsArrive
CHECK_DEADLOCK FALSE
