SPECIFICATION FairSyncSpec
CONSTANTS
  NULL = NULL
  GONE = GONE
  n1 = n1
  n2 = n2
  n3 = n3
  B1 = B1
  B2 = B2
  B3 = B3
  h1 = h1
  h2 = h2
  HubIds = {n1}
  BearIds = {B1}
  Bodies <- AllBodies
  Existing <- OneSynced
  FirstBody <- First
  UserBodies <- Edited
  Calls <- UpdateAndTrash
  Requests <- TrashWrites
  Handlers = {1}
  Gaps = {1}
  Interleaved = TRUE
  LeaseDuration = 0
  LeaseLimit = 2
  MaxRows = 2
  MaxClock = 4
  MaxEdits = 1
  MaxFaults = 0
INVARIANTS
  Converged
PROPERTIES
  ConflictsResolve
CHECK_DEADLOCK FALSE
