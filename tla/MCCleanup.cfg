SPECIFICATION Spec
CONSTANTS
  NoPolicy = NoPolicy
  NoDoc = NoDoc
  NoTag = NoTag
  Garbled = Garbled
  Idle = Idle
  Clients = {c1, c2}
  Manifests <- MCManifests
  Writes <- MCWrites
  Grants <- MCGrants
  MaxWrites = 2
  MaxTime = 1
  MaxFailures = 1
  Never = 9
INVARIANTS
  CorruptedWritesAreCleanedUp
