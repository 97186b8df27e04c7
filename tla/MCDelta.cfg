SPECIFICATION FairDeltaSpec
CONSTANTS
  NULL = NULL
  B1 = B1
  BearIds = {B1}
  FileNote = B1
  Tags = {1, 2}
  Titles = {x, y}
  Files = {f1}
  Kinds = {"create", "edit", "delete", "tag", "attach", "detach", "touch",
           "create_tag", "rename_tag", "delete_tag"}
  OpenPhases = {}
  FullScanInterval = 2
  MaxChanges = 4
  MaxClock = 2
  MaxCrashes = 1
INVARIANTS
  DeltaTypeOK
  NotesMirrored
  NoGhosts
  FilesServed
  NoStrayBlobs
PROPERTIES
  EventuallyMirrored
  ReplicaOfBear
CHECK_DEADLOCK FALSE
