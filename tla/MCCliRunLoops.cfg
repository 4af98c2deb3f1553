SPECIFICATION Spec
CONSTANTS
  first = first
  second = second
  agent = agent
  ghost = ghost
  smoke = smoke
  served1 = served1
  served2 = served2
  scorer = scorer
  None = None
  AliasNames <- MCAliases
  Configured <- MCConfigured
  Suites <- MCSuites
  Invocations = {first}
  Jobs <- LoopJobs
  Scorers = {}
  Models <- MCTwoModels
  MaxSwaps = 1
  LongRecords = FALSE
INVARIANT
  DoneIsComplete
PROPERTY
  ImplementsLedger
  EveryInvocationEnds
