SPECIFICATION DSpec
CONSTANTS
  NoState = NoState
  NoLedger = NoLedger
  Idle = Idle
  NoTask = NoTask
  NoDigest = NoDigest
  Nothing = Nothing
  Events <- MCEvents
  Batches <- MCBatches
  Targets <- MCTargets
  MaxOperations = 3
  Disallowed = {}
  AllowEmptySubjectInitialization = TRUE
  ProfileMayBeLost = FALSE
  MaxTime = 0
  MaxFailures = 1
INVARIANTS
  RetractionReachesCaches
