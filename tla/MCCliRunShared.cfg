SPECIFICATION Spec
CONSTANTS
  first = first
  second = second
  agent = agent
  ghost = ghost
  smoke = smoke
  served1 = served1
  served2 = served2
  scorer = scorer
  None = None
  AliasNames <- MCAliases
  Configured <- MCConfigured
  Suites <- MCSuites
  Invocations = {first, second}
  Jobs <- SharedJobs
  Scorers = {scorer}
  Models <- MCModels
  MaxSwaps = 0
  LongRecords = TRUE
INVARIANTS
  StoreOrder
  OnlyTheCurrentIsPartial
  OneRowPerCell
  UnreadableNeedsATear
  ReportCoversItsAuthor
  FinishedReportIsWhole
