SPECIFICATION DeltaSpec
CONSTANTS
  NULL = NULL
  B1 = B1
  BearIds = {B1, B2}
  FileNote = B1
  Tags = {1}
  Titles = {x}
  Files = {f1}
  Kinds = {"create", "tag", "create_tag"}
  OpenPhases = {}
  FullScanInterval = 2
  MaxChanges = 5
  MaxClock = 2
  MaxCrashes = 0
INVARIANTS
  TagsAfterFullScan
CHECK_DEADLOCK FALSE
