SPECIFICATION Spec
CONSTANTS
  clarity = clarity
  accuracy = accuracy
  Dims = {clarity, accuracy}
  Weight <- MCWeight
  Scale = 3
  Points <- MCPoints
  MaxRounds = 2
INVARIANTS
  TypeOK
  ScoreIsTheRounds
  PassIsTheJudges
CHECK_DEADLOCK FALSE
