SPECIFICATION FairDeliverySpec
CONSTANTS
  NULL = NULL
  Requests <- SomeRequests
  LeaseDuration = 1
  LeaseLimit = 2
  MaxRows = 3
  MaxFaults = 1
INVARIANTS
  PrimaryKeysUnique
  DeliveryTypeOK
  BatchStillLeased
  DuplicatesNeedAFault
  NewestWriteWins
PROPERTIES
  AppliedIsFinal
  LeasedWorkIsStable
  LeaseIsHonoured
  KeepsPromise
  EventuallySettled
CHECK_DEADLOCK FALSE
