SPECIFICATION SyncSpec
CONSTANTS
  NULL = NULL
  GONE = GONE
  n1 = n1
  n2 = n2
  n3 = n3
  B1 = B1
  B2 = B2
  B3 = B3
  h1 = h1
  h2 = h2
  HubIds = {n1, n2, n3}
  BearIds = {B1, B2, B3}
  Bodies <- AllBodies
  Existing <- NoneSynced
  FirstBody <- First
  UserBodies <- Edited
  Calls <- CreatesAndUpdate
  Requests <- CreateWrites
  Handlers = {h1, h2}
  Gaps = {1}
  Interleaved = FALSE
  LeaseDuration = 0
  LeaseLimit = 2
  MaxRows = 3
  MaxClock = 4
  MaxEdits = 0
  MaxFaults = 1
INVARIANTS
  BearIDsUnique
  Converged
  NoOrphans
PROPERTIES
  LeasedWorkIsStable
SYMMETRY CreateSymmetry
CHECK_DEADLOCK FALSE
