SPECIFICATION MCSpec
CONSTANTS
  NoPolicy = NoPolicy
  Events = {}
  MaxOperations = 5
  Raw <- MCRaw
  Served <- MCServed
  Arriving <- MCArriving
  Grants <- MCGrants
  Policies <- MCPolicies
  Settings <- MCSettings
  Subject = "subject"
  Use = "ranking"
  Since = 1
  Limit = 2
  PageSize = 3
  MaxPages = 2
  MaxReads = 3
  MaxTime = 1
  MaxFaults = 1
  r1 = r1
  r2 = r2
  Resources <- MCResources
  MaxFrames = 3
  MaxMutations = 2
  MaxWatches = 2
  MaxChanges = 3
  MaxLiveFaults = 1
  Targets = {"t1", "t2"}
  Labeler = "labeler"
  Uri <- MCUri
  Lexicons <- MCLexicons
  Frames <- MCFrames
  MaxConsumed = 2
  MaxLabels = 3
  LabelPageSize = 1
  MaxLabelPages = 2
  Times = {0, 1}
  MaxCalls = 4
  MaxLabelFaults = 1
  Probes = {1, 2}
  Observations <- MCObservations
  Written <- MCWritten
  Provider = "p"
  Expected = {"none", "app"}
  Concurrency = 1
  MaxAttempts = 2
  MaxClock = 2
  MaxDiscoveries = 2
  MaxDiscoveryFaults = 1
  Candidates <- MCCandidates
  Accounts = {"a", "b", "c"}
  Worlds <- MCWorlds
  Marks = {"deleted", "blocked", "opted_out"}
  MaxMoves = 2
  MaxMembers = 2
  EvaluatedAt = 3
  Window = 1
  MaxWorldChanges = 2
  MaxEligibilityFaults = 1
  Requests <- MCRequests
  Profiles <- MCProfiles
  Answers <- MCAnswers
  Features <- MCFeatures
  Categories <- MCCategories
  SourceConcurrency = 2
  SessionConcurrency = 2
  MaxSessionFaults = 2
  PerSourceLimit = 2
  MaxGenerated = 2
  MaxProvenance = 2
  MaxValues = 2
SYMMETRY Symmetry
CHECK_DEADLOCK FALSE
INVARIANT
  RepeatedReadsAreDuplicates
