SPECIFICATION FairBlobSpec
CONSTANTS
  NULL = NULL
  Calls <- SomeUploads
  Requests <- SomeRequests
  Handlers = {h1, h2}
  AckCalls = {a1, a2}
  LeaseDuration = 0
  LeaseLimit = 1
  MaxRows = 1
  MaxBlobs = 3
  MaxFaults = 1
INVARIANTS
  BlobTypeOK
  AcceptedFileKept
  AnsweredMeansClean
  NoOrphanFiles
PROPERTIES
  AppliedFilesGo
