------------------------ MODULE MCPromptOptimization ------------------------
(* Small databases and specifications of candidates for PromptOptimization.*)
EXTENDS PromptOptimization, TLC

CONSTANTS m1, m2, t1, t2, t3, f1, f2, p2, p3, smoke, custom, other

(* t1 is like local.git.x, t2 like benchmark.mbpp_000, t3 like smoke.json. *)
MCFamilyOf == t1 :> f1 @@ t2 :> f2 @@ t3 :> None
MCPartOf == t1 :> f1 @@ t2 :> p2 @@ t3 :> p3
MCAlphabet == <<architect, custom, json_schema, other, patch_only, plain, repl, t1, t2, t3>>

Base == [model |-> m1, task |-> t1, style |-> plain, suite |-> smoke, quant |-> None,
         prompt |-> 1, tokens |-> 50, score |-> 20, tps |-> 1, wall |-> 1,
         format |-> None, status |-> "success", error |-> None]

Fill(n, set) == [prior |-> {}, most_prior |-> 0, rows |-> set, most |-> n]

MCFills == <<
  Fill(4, {[Base EXCEPT !.style = y, !.score = s] :
             y \in {None, plain, repl}, s \in {None, 0, 20}}),
  Fill(3, {[Base EXCEPT !.task = t, !.style = y, !.score = s] :
             t \in {t1, t2, t3}, y \in {plain, repl, custom}, s \in {0, 19, 20}}),
  Fill(3, {[Base EXCEPT !.style = y, !.score = s, !.tokens = n, !.wall = w] :
             y \in {plain, repl, architect}, s \in {18, 20}, n \in {50, 120}, w \in {1, 4}}),
  Fill(3, {[Base EXCEPT !.style = patch_only, !.score = s, !.format = b] :
             s \in {None, 5, 20}, b \in {None, FALSE, TRUE}}
          \cup {[Base EXCEPT !.style = json_schema, !.score = s, !.tokens = n] :
             s \in {None, 5, 20}, n \in {50, 120}}),
  Fill(3, {[Base EXCEPT !.suite = Optimization, !.style = y, !.score = s, !.model = m] :
             y \in {plain, repl, custom}, s \in {None, 10, 20}, m \in {m1, m2}}),
  Fill(2, {[Base EXCEPT !.style = y, !.score = s] :
             y \in {plain, custom, other}, s \in {None, 10, 20}})>>
MCMaxCalls == <<0, 0, 0, 0, 0, 4>>

MCSpecified == {[name |-> custom, baseline |-> plain], [name |-> custom, baseline |-> other],
                [name |-> other, baseline |-> custom]}
=============================================================================
