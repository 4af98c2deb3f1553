SPECIFICATION Spec
CONSTANTS
  UnitTest = unit_test
  CommandSafety = command_safety
  Contains = contains
  NoScorer = no_scorer
  None = None
  Scorers <- MCScorers
  Tasks <- MCTasks
  MaxLines = 2
INVARIANT
  ApiErrorIsError
