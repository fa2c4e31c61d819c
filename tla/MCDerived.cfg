SPECIFICATION DFairSpec
CONSTANTS
  NoState = NoState
  NoLedger = NoLedger
  Idle = Idle
  NoTask = NoTask
  NoDigest = NoDigest
  Nothing = Nothing
  Events <- MCEvents
  Batches <- MCBatches
  Targets <- MCTargets
  MaxOperations = 3
  Disallowed = {}
  AllowEmptySubjectInitialization = TRUE
  ProfileMayBeLost = TRUE
  MaxTime = 1
  MaxFailures = 1
INVARIANTS
  DeletionReachesCaches
  AccountedCachesAreFresh
PROPERTIES
  DeletionNotOvertaken
  JournaledDeletionCompletes
