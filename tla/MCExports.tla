------------------------------ MODULE MCExports ------------------------------
(* Two suites and two tasks; rows that differ in all that an export tests; *)
(* a judge that prefers the second model, and one that sees a tie.  A name *)
(* that is passed in output paths, "sft", is the file name of an export.   *)
EXTENDS Exports

Row(suite, task, model, status, score, text, error) ==
  [suite |-> suite, task |-> task, model |-> model, status |-> status, score |-> score,
   text |-> text, error |-> error]

MCRowShapes ==
  {Row("s1", "t1", "m1", "success", 0, TRUE, FALSE),
   Row("s1", "t1", "m1", "success", 1, TRUE, FALSE),
   Row("s1", "t1", "m2", "success", 2, FALSE, FALSE),
   Row("s1", "t1", "m1", "error", 2, TRUE, TRUE),
   Row("s1", "t2", "m2", "error", 0, FALSE, FALSE),
   Row("s2", "t1", "m2", "success", None, TRUE, FALSE)}

MCPairShapes ==
  {[task |-> "t1", a |-> "m1", b |-> "m2", winner |-> "B"],
   [task |-> "t1", a |-> "m2", b |-> "m1", winner |-> "tie"]}
=============================================================================
