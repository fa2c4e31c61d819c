SPECIFICATION FairSpec
CONSTANTS
  NoState = NoState
  NoLedger = NoLedger
  Idle = Idle
  Events <- MCEvents
  Batches <- MCBatches
  MaxOperations = 4
  Disallowed = {"s3"}
  AllowEmptySubjectInitialization = FALSE
  ProfileMayBeLost = TRUE
  MaxTime = 1
  MaxFailures = 2
INVARIANTS
  AcknowledgedEventsAreDurable
  RetractedSignalStaysOut
  DeletionIsFinal
  LogReplays
PROPERTIES
  ProfileCatchesUp
