SPECIFICATION AppSpec
CONSTANTS
  MaxLaunches = 3
  NULL = NULL
  MaxCrashes = 1
  maxRetries = 1
INVARIANTS
  AppTypeOK
  OneBridge
  ServedSocketIsThere
  NoTriggerLost
  StoppedMeansTold
PROPERTIES
  ToldProcessEnds
CHECK_DEADLOCK FALSE
