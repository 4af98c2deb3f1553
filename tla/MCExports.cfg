SPECIFICATION ExportSpec
CONSTANTS
  None = None
  Suites = {"s1", "s2"}
  RowShapes <- MCRowShapes
  PairShapes <- MCPairShapes
  Outs = {"exports", "sft"}
  Cutoffs = {0, 1}
  MaxSaves = 3
  MaxExports = 2
INVARIANTS
  TypeOK
  LatestIsReadable
  RecordsFollowTheStore
CHECK_DEADLOCK FALSE
