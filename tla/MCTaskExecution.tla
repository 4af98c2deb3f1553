--------------------------- MODULE MCTaskExecution ---------------------------
(* Small instance of TaskExecution: every kind of task, with and without a *)
(* primary scorer, secondary scorers and a validation command.             *)
EXTENDS TaskExecution

CONSTANT Contains      \* a scorer name like "contains"

MCScorers == {UnitTest, CommandSafety, Contains}

TextTasks ==
  [kind : {"text"}, primary : {NoScorer, Contains},
   secondary : {<<>>, <<Contains>>, <<Contains, CommandSafety>>},
   validated : BOOLEAN, allowed : BOOLEAN]

CodeTasks ==
  [kind : {"function_completion", "patch_generation"},
   primary : {NoScorer, UnitTest, Contains}, secondary : {<<>>, <<Contains>>},
   validated : {FALSE}, allowed : {FALSE}]

MCTasks == TextTasks \cup CodeTasks
=============================================================================
