--------------------------- MODULE MCJudgeScoring ---------------------------
(* Small instances of JudgeScoring: a rubric of two dimensions of unequal  *)
(* weight on a scale of three, and points below, on and above it.          *)
EXTENDS JudgeScoring, TLC

CONSTANTS clarity, accuracy

MCWeight == clarity :> 30 @@ accuracy :> 70
MCPoints == {-1, 2, 3, 12}
=============================================================================
