SPECIFICATION FairSpec
CONSTANTS
  e1 = e1
  e2 = e2
  h1 = h1
  h2 = h2
  Events <- MCEvents
  KindOf <- MCKindOf
  Handlers <- MCHandlers
  SignatureCase = "upper"
  Keys <- MCKeys
  MaxDeliveries = 2
  MaxFaults = 1
INVARIANTS
  TypeOK
  VerifiedBytesWereSent
  GenuineIsRecognised
  AppliedOnce
  AckedIsApplied
PROPERTIES
  EveryEventIsApplied
CHECK_DEADLOCK FALSE
