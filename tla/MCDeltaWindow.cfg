SPECIFICATION DeltaSpec
CONSTANTS
  NULL = NULL
  B1 = B1
  BearIds = {B1, B2}
  FileNote = B1
  Tags = {1}
  Titles = {x}
  Files = {f1}
  Kinds = {"create", "edit"}
  OpenPhases = {"tags", "files", "pairs", "full_scan", "deletions", "push", "upload", "known_ids"}
  FullScanInterval = 2
  MaxChanges = 3
  MaxClock = 2
  MaxCrashes = 0
INVARIANTS
  NotesMirrored
CHECK_DEADLOCK FALSE
