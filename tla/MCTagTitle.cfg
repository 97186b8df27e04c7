SPECIFICATION FairDeltaSpec
CONSTANTS
  NULL = NULL
  B1 = B1
  BearIds = {B1}
  FileNote = B1
  Tags = {1, 2}
  Titles = {x}
  Files = {f1}
  Kinds = {"create_tag", "delete_tag", "reuse_title"}
  OpenPhases = {}
  FullScanInterval = 2
  MaxChanges = 3
  MaxClock = 1
  MaxCrashes = 0
PROPERTIES
  EventuallyMirrored
CHECK_DEADLOCK FALSE
