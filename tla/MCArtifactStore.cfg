SPECIFICATION Spec
CONSTANTS
  build = build
  rebuild = rebuild
  gguf = gguf
  chat = chat
  code = code
  first = first
  other = other
  config = config
  weights = weights
  None = None
  Torn = Torn
  Processes = {first, other}
  Sources = {build, rebuild, gguf}
  SingleFiles = {gguf}
  Ids = {chat, code}
  Files = {config, weights}
  Contents <- MCContents
  Artifacts <- MCArtifacts
  Placed <- MCPlaced
  MaxEdits = 1
  MaxRuns = 2
INVARIANTS
  TypeOK
  SkippedIsCurrent
  CopyIsCurrent
  SourcesKeepTheirFiles
CHECK_DEADLOCK FALSE
