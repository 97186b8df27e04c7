SPECIFICATION Spec
CONSTANTS
  NULL = NULL
  Requests <- UpdateRequests
  LeaseDuration = 1
  LeaseLimit = 2
  MaxRows = 3
PROPERTIES
  ReplayHasNoSideEffects
CHECK_DEADLOCK FALSE
