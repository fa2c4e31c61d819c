SPECIFICATION Spec
CONSTANTS
  NoProfile = NoProfile
  Targets = {1, 2, 3}
  Batches <- MCBatches
  AllowedBoundaries = {"local_only"}
  MaxEntries = 2
  One = 2
  MaxTime = 2
  MaxIngests = 4
  Never = 9
INVARIANTS
  StoreStaysPersistable
  PersistedCopyAgrees
