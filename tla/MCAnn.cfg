SPECIFICATION Spec
CONSTANTS
  c1 = c1
  c2 = c2
  durable = durable
  local = local
  memory = memory
  None = None
  Clients <- MCClients
  Candidates <- MCCandidates
  Inputs <- MCInputs
  FirstInput <- MCFirstInput
  Scripts <- MCScripts
  OptionSets <- MCOptionSets
  QueryAttempts <- MCQueryAttempts
  Threshold = 2
  Cooldown = 1
  Attempts = 2
  MaxNow = 1
  MaxGenerations = 2
  MaxScripts = 2
  MaxFaults = 3
INVARIANTS
  WithinDeployment
  CircuitRespected
  AnswersNameTheServer
  WritesSentOnce
SYMMETRY Symmetry
CHECK_DEADLOCK FALSE
