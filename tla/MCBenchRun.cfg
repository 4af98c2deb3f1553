SPECIFICATION Spec
CONSTANTS
  first = first
  other = other
  nightly = nightly
  modelopt = modelopt
  None = None
  Names <- MCNames
  Invocations = {first, other}
  Specs <- MCSpecs
  MaxSecond = 1
INVARIANTS
  FilesInOrder
  OnlyTheLastIsCut
  DoneIsOnDisk
PROPERTY
  EveryRunEnds
