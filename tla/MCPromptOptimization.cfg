SPECIFICATION OptSpec
CONSTANTS
  None = None
  m1 = m1
  m2 = m2
  t1 = t1
  t2 = t2
  t3 = t3
  f1 = f1
  f2 = f2
  p2 = p2
  p3 = p3
  plain = plain
  repl = repl
  patch_only = patch_only
  json_schema = json_schema
  architect = architect
  custom = custom
  other = other
  smoke = smoke
  Optimization = Optimization
  OtherKnown = {}
  FullScore = 20
  FamilyOf <- MCFamilyOf
  PartOf <- MCPartOf
  References = {}
  Alphabet <- MCAlphabet
  Fills <- MCFills
  Specified <- MCSpecified
  MaxCalls <- MCMaxCalls
INVARIANTS
  RankingIsSound
  ProposalsAreFounded
  CandidatesAreCompared
CHECK_DEADLOCK FALSE
