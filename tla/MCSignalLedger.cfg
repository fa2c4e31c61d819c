SPECIFICATION Spec
CONSTANTS
  Replicas = {r1, r2}
  Events <- MCEvents
  MaxOperations = 4
  MaxBatch = 2
INVARIANTS
  OneContributionPerSource
  Convergence
PROPERTIES
  NoResurrection
