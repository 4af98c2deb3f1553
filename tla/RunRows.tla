------------------------------- MODULE RunRows -------------------------------
(***************************************************************************)
(* What the readers of the table runs share: rows as get_runs returns      *)
(* them, the newest first; averages, kept as fractions; groups in the      *)
(* order in which a dict first meets their keys.                           *)
(***************************************************************************)
EXTENDS Lists, FiniteSetsExt, SequencesExt

CONSTANT None  \* NULL in a column, None in Python

(* A fraction: numerator over a positive denominator.                      *)
Zero == [num |-> 0, den |-> 1]
Whole(n) == [num |-> n, den |-> 1]
Lt(a, b) == a.num * b.den < b.num * a.den
Same(a, b) == a.num * b.den = b.num * a.den
Le(a, b) == a.num * b.den <= b.num * a.den
Minus(a, b) == [num |-> a.num * b.den - b.num * a.den, den |-> a.den * b.den]
Times(a, b) == [num |-> a.num * b.num, den |-> a.den * b.den]

(* The average of a list of numbers, zero for none.                        *)
Total(s) == SumFunction(s)
Avg(s) == IF s = <<>> THEN Zero ELSE [num |-> Total(s), den |-> Len(s)]

Scored(rows) == Kept(rows, LAMBDA r : r.score # None)
Scores(rows) == LET s == Scored(rows) IN [i \in DOMAIN s |-> s[i].score]
AvgScore(rows) == Avg(Scores(rows))

(* Tokens per second, of the rows that have any.                           *)
AvgSpeed(rows) ==
  LET s == Kept(rows, LAMBDA r : r.tps > 0) IN Avg([i \in DOMAIN s |-> s[i].tps])

Model(r) == r.model
Task(r) == r.task
Style(r) == r.style
Quant(r) == r.quant
InTask(r) == <<r.task, r.model>>

(* s in the order of list.sort(reverse=True): the greatest first, equal    *)
(* ones as they were.                                                      *)
Descending(s, Val(_)) ==
  RankOrder(s, [i \in DOMAIN s |->
    Cardinality({j \in DOMAIN s :
      Lt(Val(s[i]), Val(s[j])) \/ (j <= i /\ Same(Val(s[i]), Val(s[j])))})])

(* A loop over keys that keeps the first whose value exceeds all before it.*)
Champion(ks, value, start) ==
  LET best[i \in 0..Len(ks)] ==
        IF i = 0 THEN [who |-> None, value |-> start]
        ELSE IF Lt(best[i-1].value, value[ks[i]]) THEN [who |-> ks[i], value |-> value[ks[i]]]
        ELSE best[i-1]
  IN best[Len(ks)]
=============================================================================
