SPECIFICATION Spec
CONSTANTS
  None = None
  m1 = m1
  m2 = m2
  m3 = m3
  t1 = t1
  t2 = t2
  t3 = t3
  f1 = f1
  f2 = f2
  fp16 = fp16
  bf16 = bf16
  int4 = int4
  plain = plain
  terse = terse
  boom = boom
  FamilyOf <- MCFamilyOf
  ScoreThreshold <- Half
  TpsThreshold <- MCTpsThreshold
  MaxTasks = 1
  References = {fp16, bf16}
  Alphabet <- MCAlphabet
  Fills <- MCFills
INVARIANTS
  FrontierCovers
  SectionsAgree
  ChoicesAreBest
  SensitivityExplainsDelta
  VerdictsAgree
  SuiteIsSelected
CHECK_DEADLOCK FALSE
