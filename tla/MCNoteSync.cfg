SPECIFICATION SyncSpec
CONSTANTS
  NULL = NULL
  GONE = GONE
  n1 = n1
  n2 = n2
  n3 = n3
  B1 = B1
  B2 = B2
  B3 = B3
  h1 = h1
  h2 = h2
  HubIds = {n1}
  BearIds = {B1}
  Bodies <- AllBodies
  Existing <- OneSynced
  FirstBody <- First
  UserBodies <- Edited
  Calls <- UpdateAndTag
  Requests <- TagWrites
  Handlers = {1}
  Gaps = {1}
  Interleaved = FALSE
  LeaseDuration = 0
  LeaseLimit = 2
  MaxRows = 3
  MaxClock = 4
  MaxEdits = 1
  MaxFaults = 1
INVARIANTS
  SyncTypeOK
  Converged
  OwnUpdatesAreEchoes
PROPERTIES
  ConflictEndsByCopy
  ProtectedUntilApplied
  KnownEditsSurvive
CHECK_DEADLOCK FALSE
