----------------------------- MODULE MCReports -----------------------------
(* Small databases for Reports and Comparison: each fill varies the columns*)
(* that some sections read and keeps the others.                           *)
EXTENDS Comparison, TLC

CONSTANTS m1, m2, m3, t1, t2, t3, f1, f2, fp16, bf16, int4, plain, terse, boom

MCFamilyOf == t1 :> f1 @@ t2 :> f2 @@ t3 :> None
MCAlphabet == <<bf16, fp16, int4, plain, terse, t1, t2, t3>>
Half == [num |-> 1, den |-> 2]
MCTpsThreshold == [num |-> 1, den |-> 4]

Base == [model |-> m1, task |-> t1, style |-> None, quant |-> None, prompt |-> 1,
         tokens |-> 1, score |-> 2, tps |-> 1, wall |-> 1, status |-> "success", error |-> None]

Failed(e) == [Base EXCEPT !.status = "error", !.error = e, !.score = None, !.tps = 0]

Fill(n, set) == [prior |-> {}, most_prior |-> 0, rows |-> set, most |-> n]
Fill2(n, set) == [prior |-> set, most_prior |-> n, rows |-> set, most |-> n]

MCFills == <<
  Fill(3, {[Base EXCEPT !.model = m, !.score = s, !.tps = v] :
             m \in {m1, m2, m3}, s \in {None, 0, 2}, v \in 0..2}),
  Fill(4, {[Base EXCEPT !.model = m, !.task = t, !.score = s] :
             m \in {m1, m2}, t \in {t1, t2}, s \in 0..2}),
  Fill(3, {[Base EXCEPT !.model = m, !.task = t, !.score = s] :
             m \in {m1, m2, m3}, t \in {t1, t3}, s \in {None, 1, 2}}),
  Fill(4, {[Base EXCEPT !.quant = q, !.task = t, !.score = s] :
             q \in {fp16, int4}, t \in {t1, t2}, s \in {0, 2}}),
  Fill(3, {[Base EXCEPT !.quant = q, !.task = t, !.score = s, !.tps = 2] :
             q \in {None, fp16, bf16, int4}, t \in {t2, t3}, s \in {None, 1, 2}}),
  Fill(3, {[Base EXCEPT !.style = y, !.task = t, !.score = s] :
             y \in {None, plain, terse}, t \in {t1, t2}, s \in {None, 0, 2}}),
  Fill(4, {[Base EXCEPT !.style = y, !.score = s, !.tokens = n] :
             y \in {plain, terse}, s \in {1, 2}, n \in {1, 5}}),
  Fill(3, {[Base EXCEPT !.model = m, !.prompt = p] : m \in {m1, m2}, p \in {1, 2}}
          \cup {[Failed(e) EXCEPT !.model = m] : e \in {None, boom}, m \in {m1, m2}}),
  Fill2(2, {[Base EXCEPT !.task = t, !.model = m, !.score = s] :
              m \in {m1, m2}, t \in {t1, t2}, s \in {None, 0, 2}}),
  Fill2(2, {[Base EXCEPT !.tps = v, !.wall = w] : v \in {0, 2}, w \in 0..2}
           \cup {[Failed(boom) EXCEPT !.score = s] : s \in {None, 2}})>>
=============================================================================
