------------------------------- MODULE Reports -------------------------------
(***************************************************************************)
(* The sections of the reports, computed from the rows of one database:    *)
(* generate_report_v2, generate_quantization_report, generate_style_report *)
(* and the helpers they share.  A table is a sequence of records in the    *)
(* order of its lines, or a set where the lines are sorted by name; the    *)
(* wording of labels and the number of digits are left out.                *)
(***************************************************************************)
EXTENDS RunRows

CONSTANTS
  FamilyOf,    \* the family of each task, None when its identifier has none
  References,  \* the quantizations whose name is that of a reference
  Alphabet,    \* the names that are sorted, in alphabetical order
  Fills        \* bound: what databases are filled with, a sequence of records
               \* [prior |-> rows, most_prior |-> n, rows |-> rows, most |-> n]

ASSUME AlphabetAssumption == Alphabet \in Seq(ToSet(Alphabet)) /\ IsInjective(Alphabet)

(* What was measured is a number, not below zero; the names that are sorted*)
(* are of the alphabet.                                                    *)
ASSUME FillsAssumption ==
  \A f \in DOMAIN Fills : \A r \in Fills[f].prior \cup Fills[f].rows :
    /\ r.score \in Nat \cup {None} /\ r.tps \in Nat /\ r.wall \in Nat
    /\ r.prompt \in Nat /\ r.tokens \in Nat
    /\ r.task \in ToSet(Alphabet) /\ {r.style, r.quant} \subseteq ToSet(Alphabet) \cup {None}

(* A score is at most 1.0 (scorers/base.py), so none is near the 100.0 that*)
(* the search for the least loss starts from.                              *)
ASSUME ScoresAssumption ==
  \A f \in DOMAIN Fills : \A r \in Fills[f].prior \cup Fills[f].rows :
    r.score # None => r.score < 100

VARIABLES
  fill,   \* the index of the fill the databases get their rows from
  prior,  \* the rows of the database of an earlier run, newest first
  rows    \* the rows of the database reported on, newest first

vars == <<fill, prior, rows>>

Init == fill \in DOMAIN Fills /\ prior = <<>> /\ rows = <<>>

(* save_run, by an earlier benchmark and by this one.                      *)
RecordPrior ==
  /\ rows = <<>> /\ Len(prior) < Fills[fill].most_prior
  /\ \E r \in Fills[fill].prior : prior' = <<r>> \o prior
  /\ UNCHANGED <<fill, rows>>

Record ==
  /\ Len(rows) < Fills[fill].most
  /\ \E r \in Fills[fill].rows : rows' = <<r>> \o rows
  /\ UNCHANGED <<fill, prior>>

Next == RecordPrior \/ Record

Spec == Init /\ [][Next]_vars

-----------------------------------------------------------------------------
Sorted(ks) == Kept(Alphabet, LAMBDA k : Contains(ks, k))

(* v2 works on the rows model by model; what no family claims is "other".  *)
Regrouped(rs) ==
  LET ms == Keys(rs, Model)
  IN FlattenSeq([i \in DOMAIN ms |-> Group(rs, Model, ms[i])])
Family(r) == FamilyOf[r.task]

ScoreIn(rs, Key(_), k) == AvgScore(Group(rs, Key, k))

(* Executive Summary.  The quantization of least loss is measured against  *)
(* the one of the best score.                                              *)
SafeShare(rs) ==
  [num |-> Len(Kept(rs, LAMBDA r : r.status = "success")), den |-> Len(rs)]
LongestPrompt(rs) == Max({r.prompt : r \in ToSet(rs)} \cup {0})

LeastLoss(rs) ==
  LET qs == Keys(rs, Quant)
      ref == Champion(qs, [q \in ToSet(qs) |-> ScoreIn(rs, Quant, q)], Whole(-1))
      Loss(q) == Minus(ref.value, ScoreIn(rs, Quant, q))
      others == Kept(qs, LAMBDA q : q # ref.who)
  IN IF Len(qs) < 2 THEN [who |-> None, value |-> Whole(-100)]
     ELSE Champion(others, [q \in ToSet(others) |-> Minus(Zero, Loss(q))], Whole(-100))

Summary_LastBest(rs) ==
  LET ms == Keys(rs, Model)
      Of(m) == Group(rs, Model, m)
  IN [best    |-> Champion(Reverse(ms), [m \in ToSet(ms) |-> AvgScore(Of(m))], Whole(-1)),
      fastest |-> Champion(ms, [m \in ToSet(ms) |-> AvgSpeed(Of(m))], Zero),
      safest  |-> Champion(ms, [m \in ToSet(ms) |-> SafeShare(Of(m))], Whole(-1)),
      longest |-> Champion(ms, [m \in ToSet(ms) |-> Whole(LongestPrompt(Of(m)))], Zero),
      quant   |-> LeastLoss(Regrouped(rs))]

Summary(rs) ==
  LET ms == Keys(rs, Model)
      Of(m) == Group(rs, Model, m)
  IN [best    |-> Champion(ms, [m \in ToSet(ms) |-> AvgScore(Of(m))], Whole(-1)),
      fastest |-> Champion(ms, [m \in ToSet(ms) |-> AvgSpeed(Of(m))], Zero),
      safest  |-> Champion(ms, [m \in ToSet(ms) |-> SafeShare(Of(m))], Whole(-1)),
      longest |-> Champion(ms, [m \in ToSet(ms) |-> Whole(LongestPrompt(Of(m)))], Zero),
      quant   |-> LeastLoss(Regrouped(rs))]

(* Model Comparison: a model without scores counts as zero.                *)
ModelComparison(rs) ==
  LET ms == Keys(rs, Model)
      Entry(m) == [model |-> m, score |-> ScoreIn(rs, Model, m),
                   tps |-> AvgSpeed(Group(rs, Model, m)),
                   tasks |-> Len(Group(rs, Model, m))]
  IN Descending([i \in DOMAIN ms |-> Entry(ms[i])], LAMBDA e : e.score)

(* Best Model by Task Family: one pass keeps the best and the second best. *)
BestTwo_KeepsSecond(rs) ==
  LET ms == Keys(rs, Model)
      top[i \in 0..Len(ms)] ==
        IF i = 0 THEN [who |-> None, best |-> Whole(-1), second |-> Whole(-1)]
        ELSE LET b == top[i-1]
                 s == ScoreIn(rs, Model, ms[i])
             IN IF Lt(b.best, s) THEN [who |-> ms[i], best |-> s, second |-> b.second]
                ELSE IF Lt(b.second, s) THEN [b EXCEPT !.second = s] ELSE b
  IN top[Len(ms)]

BestTwo(rs) ==
  LET ms == Keys(rs, Model)
      top[i \in 0..Len(ms)] ==
        IF i = 0 THEN [who |-> None, best |-> Whole(-1), second |-> Whole(-1)]
        ELSE LET b == top[i-1]
                 s == ScoreIn(rs, Model, ms[i])
             IN IF Lt(b.best, s) THEN [who |-> ms[i], best |-> s, second |-> b.best]
                ELSE IF Lt(b.second, s) THEN [b EXCEPT !.second = s] ELSE b
  IN top[Len(ms)]

BestByFamily(rs) ==
  LET of(f) == Group(Regrouped(rs), Family, f)
      fs == {f \in ToSet(Keys(rs, Family)) : Len(Keys(of(f), Model)) >= 2}
  IN {[family |-> f, who |-> BestTwo(of(f)).who, best |-> BestTwo(of(f)).best,
       margin |-> Minus(BestTwo(of(f)).best, BestTwo(of(f)).second)] : f \in fs}

(* find_pareto_frontier, over entries with a score and a speed.            *)
Beats_Both(b, a) == Lt(a.score, b.score) /\ Lt(a.tps, b.tps)

Beats(b, a) ==
  /\ Le(a.score, b.score) /\ Le(a.tps, b.tps)
  /\ Lt(a.score, b.score) \/ Lt(a.tps, b.tps)

Candidates(rs, Key(_)) ==
  LET ks == Kept(Keys(rs, Key), LAMBDA k : Scored(Group(rs, Key, k)) # <<>>)
  IN [i \in DOMAIN ks |-> [who |-> ks[i], score |-> ScoreIn(rs, Key, ks[i]),
                           tps |-> AvgSpeed(Group(rs, Key, ks[i]))]]

Frontier(rs) ==
  LET cs == Candidates(Regrouped(rs), Model)
      best == Kept(cs, LAMBDA a : \A b \in ToSet(cs) : ~Beats(b, a))
  IN Descending(best, LAMBDA a : a.score)

SpeedQuality(rs) ==
  LET t == ModelComparison(rs)
  IN [i \in DOMAIN t |-> [who |-> t[i].model, score |-> t[i].score,
        pareto |-> \E a \in ToSet(Frontier(rs)) : a.who = t[i].model]]

-----------------------------------------------------------------------------
(* compute_score_variance_by_task: the deviation is compared by its        *)
(* square, and a task needs two scored rows.  best and worst are the first *)
(* row of the greatest and of the least score.                             *)
Variance(s) ==
  LET squares == [i \in DOMAIN s |-> s[i] * s[i]]
  IN [num |-> Len(s) * Total(squares) - Total(s) * Total(s), den |-> Len(s) * Len(s)]

TaskSpread(rs, t) ==
  LET g == Scored(Group(rs, Task, t))
      hi == Max(ToSet(Scores(g)))
      lo == Min(ToSet(Scores(g)))
  IN [task |-> t, variance |-> Variance(Scores(g)), range |-> hi - lo,
      best |-> g[SelectInSeq(g, LAMBDA r : r.score = hi)],
      worst |-> g[SelectInSeq(g, LAMBDA r : r.score = lo)]]

Discriminating(rs) ==
  LET ts == Kept(Keys(rs, Task), LAMBDA t : Len(Scored(Group(rs, Task, t))) >= 2)
  IN Descending([i \in DOMAIN ts |-> TaskSpread(rs, ts[i])], LAMBDA s : s.variance)

(* Context Analysis: prompt sizes with a scored run.                       *)
Prompt(r) == r.prompt
ContextTable(rs) ==
  IF Len(Keys(rs, Prompt)) < 2 THEN {}
  ELSE {[size |-> p, score |-> ScoreIn(rs, Prompt, p),
         tps |-> AvgSpeed(Group(rs, Prompt, p)),
         tasks |-> Len(Scored(Group(rs, Prompt, p)))] :
          p \in {p \in ToSet(Keys(rs, Prompt)) : Scored(Group(rs, Prompt, p)) # <<>>}}

(* cluster_failures: by message, rows without one together.                *)
Error(r) == r.error
Clusters(rs) ==
  LET es == Kept(rs, LAMBDA r : r.status = "error")
      ks == Keys(es, Error)
  IN Descending([i \in DOMAIN ks |-> Group(es, Error, ks[i])], LAMBDA c : Whole(Len(c)))

-----------------------------------------------------------------------------
(* Quantization Comparison of v2: a missing name is a quantization too, and*)
(* all are compared with the one of the best score.                        *)
QuantComparison(rs) ==
  LET all == Regrouped(rs)
      qs == Keys(all, Quant)
      ref == Champion(qs, [q \in ToSet(qs) |-> ScoreIn(all, Quant, q)], Whole(-1))
      others == ToSet(qs) \ {ref.who}
  IN IF Len(qs) < 2 THEN {}
     ELSE {[quant |-> q, score |-> ScoreIn(all, Quant, q),
            delta |-> Minus(ScoreIn(all, Quant, q), ref.value)] : q \in others}

(* generate_quantization_report: rows without a quantization are left out. *)
Quantized(rs) == Kept(rs, LAMBDA r : r.quant # None)
Comparable(rs) == Len(Keys(Quantized(rs), Quant)) >= 2

QuantSummary(rs) ==
  LET of(q) == Group(Quantized(rs), Quant, q)
  IN IF ~Comparable(rs) THEN {}
     ELSE {[quant |-> q, tasks |-> Len(of(q)), score |-> AvgScore(of(q)),
            tps |-> AvgSpeed(of(q))] : q \in ToSet(Keys(Quantized(rs), Quant))}

(* The baseline: the first reference met, else the best score.             *)
Baseline(rs) ==
  LET qs == Keys(Quantized(rs), Quant)
      refs == Kept(qs, LAMBDA q : q \in References)
  IN IF refs # <<>> THEN refs[1]
     ELSE Champion(qs, [q \in ToSet(qs) |-> ScoreIn(rs, Quant, q)], Whole(-1)).who

QualityDelta(rs) ==
  IF ~Comparable(rs) THEN {}
  ELSE {[quant |-> q, score |-> ScoreIn(rs, Quant, q),
         delta |-> Minus(ScoreIn(rs, Quant, q), ScoreIn(rs, Quant, Baseline(rs)))] :
          q \in ToSet(Keys(Quantized(rs), Quant)) \ {Baseline(rs)}}

(* The best of a family among names in alphabetical order.                 *)
BestOfFamily(rs, Key(_), f) ==
  LET of == Kept(rs, LAMBDA r : Family(r) = f /\ Key(r) # None)
      ks == Kept(Sorted(Keys(of, Key)), LAMBDA k : Scored(Group(of, Key, k)) # <<>>)
  IN Champion(ks, [k \in ToSet(ks) |-> ScoreIn(of, Key, k)], Whole(-1))

Families(rs) == ToSet(Keys(rs, Family)) \ {None}

BestQuantByFamily(rs) ==
  {[family |-> f, best |-> BestOfFamily(rs, Quant, f)] : f \in Families(rs)}

(* Speed/Quality Frontier: the front is a set of places in the list before *)
(* it is sorted, and is looked up in the sorted list.                      *)
QuantFrontier(rs) ==
  LET ms == Candidates(Quantized(rs), Quant)
      front == {i \in DOMAIN ms : \A j \in DOMAIN ms : ~Beats(ms[j], ms[i])}
      sorted == Descending(ms, LAMBDA m : m.score)
  IN IF ~Comparable(rs) THEN <<>>
     ELSE [i \in DOMAIN sorted |-> [who |-> sorted[i].who, score |-> sorted[i].score,
             tps |-> sorted[i].tps,
             pareto |-> \E j \in front : sorted[j].who = sorted[i].who]]

(* Sensitivity Analysis: for each family the reference has scores in, the  *)
(* largest drop of another quantization that ran it, scored or not.        *)
Drop_ZeroIsNone(rs, ref, f) ==
  LET In(q) == Kept(rs, LAMBDA r : r.quant = q /\ Family(r) = f)
      qs == Kept(Keys(Quantized(rs), Quant), LAMBDA q : q # ref /\ AvgScore(In(q)).num # 0)
  IN Champion(qs, [q \in ToSet(qs) |-> Minus(AvgScore(In(ref)), AvgScore(In(q)))], Zero)

Drop(rs, ref, f) ==
  LET In(q) == Kept(rs, LAMBDA r : r.quant = q /\ Family(r) = f)
      qs == Kept(Keys(Quantized(rs), Quant), LAMBDA q : q # ref /\ In(q) # <<>>)
  IN Champion(qs, [q \in ToSet(qs) |-> Minus(AvgScore(In(ref)), AvgScore(In(q)))], Zero)

Sensitivity(rs) ==
  LET ref == Baseline(rs)
      fs == {f \in Families(rs) : \E r \in ToSet(Scored(rs)) : r.quant = ref /\ Family(r) = f}
  IN IF ~Comparable(rs) \/ ref \notin References THEN {}
     ELSE {[family |-> f, drop |-> Drop(rs, ref, f)] : f \in fs}

-----------------------------------------------------------------------------
(* generate_style_report: rows without a style are left out.               *)
Styled(rs) == Kept(rs, LAMBDA r : r.style # None)

StyleSummary(rs) ==
  {[style |-> s, tasks |-> Len(Group(rs, Style, s)), score |-> ScoreIn(rs, Style, s),
    tps |-> AvgSpeed(Group(rs, Style, s))] : s \in ToSet(Keys(Styled(rs), Style))}

(* Per task, where several styles ran it, a run without a score is zero.   *)
StylesOf(rs, t) == {r.style : r \in ToSet(Styled(Group(rs, Task, t)))}
PerTask(rs) ==
  {[task |-> r.task, style |-> r.style,
    score |-> LET g == Kept(rs, LAMBDA q : q.task = r.task /\ q.style = r.style)
              IN [num |-> Total(Scores(g)), den |-> Len(g)]] :
     r \in {r \in ToSet(Styled(rs)) : Cardinality(StylesOf(rs, r.task)) > 1}}

BestStyleByFamily(rs) ==
  {[family |-> f, best |-> BestOfFamily(rs, Style, f)] : f \in Families(rs)}

(* Score per token, over all rows of a style, scored or not.               *)
Efficiency(rs) ==
  LET tokens == [i \in DOMAIN rs |-> rs[i].prompt + rs[i].tokens]
      score == AvgScore(rs)
  IN [num |-> score.num * Len(rs), den |-> score.den * Max({Total(tokens), Len(rs)})]

Recommended(rs) ==
  LET ss == Kept(Keys(Styled(rs), Style),
                      LAMBDA s : Scored(Group(rs, Style, s)) # <<>>)
      Entry(s) == [style |-> s, score |-> ScoreIn(rs, Style, s),
                   ratio |-> Efficiency(Group(rs, Style, s))]
  IN Descending([i \in DOMAIN ss |-> Entry(ss[i])], LAMBDA e : e.ratio)

-----------------------------------------------------------------------------
(* The Pareto frontier covers the field: a scored model that is not on it  *)
(* is no better and no faster than one that is, and of two on it neither   *)
(* is at least as good and as fast as the other, unless they are equal.    *)
FrontierCovers ==
  LET front == ToSet(Frontier(rows))
      AtMost(a, b) == Le(a.score, b.score) /\ Le(a.tps, b.tps)
  IN /\ \A a \in ToSet(Candidates(rows, Model)) : \E b \in front : AtMost(a, b)
     /\ \A a, b \in front : AtMost(a, b) => AtMost(b, a)

(* The sections name one winner: the summary's best model leads the        *)
(* comparison with the same score, which is that of the head of the        *)
(* frontier; no scored model is faster than the frontier's last.           *)
SummaryAgrees ==
  rows # <<>> =>
    LET best == Summary(rows).best
        first == ModelComparison(rows)[1]
        front == Frontier(rows)
    IN /\ best.who = first.model /\ best.value = first.score
       /\ front # <<>> => Same(front[1].score, best.value)
       /\ \A a \in ToSet(Candidates(rows, Model)) : Le(a.tps, Last(front).tps)

(* Every run is counted once in each table, whatever it lacks: the totals  *)
(* of the tables are the numbers of rows, of scored rows, of rows with a   *)
(* quantization or a style, and of errors.                                 *)
RunsAreCounted ==
  LET Sum(table) == SumFunction([e \in table |-> e.tasks])
      models == ModelComparison(rows)
      clusters == Clusters(Regrouped(rows))
      contexts == ContextTable(Regrouped(rows))
  IN /\ Total([i \in DOMAIN models |-> models[i].tasks]) = Len(rows)
     /\ contexts # {} => Sum(contexts) = Len(Scored(rows))
     /\ QuantSummary(rows) # {} => Sum(QuantSummary(rows)) = Len(Quantized(rows))
     /\ Sum(StyleSummary(rows)) = Len(Styled(rows))
     /\ Total([i \in DOMAIN clusters |-> Len(clusters[i])])
          = Cardinality({i \in DOMAIN rows : rows[i].status = "error"})

(* The margin of a family's best model is that to the best of the others,  *)
(* in whatever order the models were met.                                  *)
MarginIsToRunnerUp ==
  \A b \in BestByFamily(rows) :
    LET of == Group(rows, Family, b.family)
        rest == {ScoreIn(of, Model, m) : m \in ToSet(Keys(of, Model)) \ {b.who}}
    IN /\ Same(b.best, ScoreIn(of, Model, b.who))
       /\ \A s \in rest : Le(s, Minus(b.best, b.margin))
       /\ \E s \in rest : Same(s, Minus(b.best, b.margin))
       /\ Le(Zero, b.margin)

(* In the table of v2 the tasks that separate runs come first, each once:  *)
(* one whose scores differ is never listed after one whose scores agree,   *)
(* and only it has a best run above its worst.                             *)
DiscriminatingFirst ==
  LET ts == Discriminating(Regrouped(rows))
      Differs(i) == ts[i].best.score # ts[i].worst.score
  IN /\ \A i, j \in DOMAIN ts : i < j => ts[i].task # ts[j].task /\ (Differs(j) => Differs(i))
     /\ \A i \in DOMAIN ts : Differs(i) <=> Lt(Zero, ts[i].variance)
     /\ {ts[i].task : i \in DOMAIN ts} =
          {r.task : r \in {q \in ToSet(rows) : Len(Scored(Group(rows, Task, q.task))) >= 2}}

(* The summary's loss, the table of v2 and the quantization report tell    *)
(* one story: the least loss is that of the table's best line, no line is  *)
(* above the reference, and where every row has a quantization and the     *)
(* report's baseline is the best, its deltas are those of the table.       *)
QuantTablesAgree ==
  LET table == QuantComparison(rows)
      loss == Summary(rows).quant
      Reported(e) == CHOOSE d \in QualityDelta(rows) : d.quant = e.quant
      best == Champion(Keys(rows, Quant), [q \in ToSet(Keys(rows, Quant)) |-> ScoreIn(rows, Quant, q)], Whole(-1))
  IN /\ \A e \in table : Le(e.delta, loss.value) /\ Le(e.delta, Zero)
     /\ table # {} => \E e \in table : e.quant = loss.who /\ Same(e.delta, loss.value)
     /\ Quantized(rows) = rows /\ table # {}
          /\ Same(ScoreIn(rows, Quant, Baseline(rows)), best.value)
          => \A e \in {e \in table : e.quant # Baseline(rows)} :
               Same(e.delta, Reported(e).delta)

(* Every row is scored, and every quantization has as many of each family. *)
Paired ==
  \A r \in ToSet(rows) : Family(r) # None /\ r.quant # None /\ r.score # None /\
    \A q \in ToSet(rows) :
      LET In(k) == Kept(rows, LAMBDA x : x.quant = k /\ Family(x) = Family(r))
      IN Len(In(q.quant)) = Len(In(r.quant))

(* A loss shows in a family: where every quantization has as many scored   *)
(* runs of each family as the reference (as one sweep leaves them), one    *)
(* that is below the reference overall has a family that drops as much.    *)
SensitivityExplainsDelta ==
  Paired /\ Sensitivity(rows) # {} =>
    \A d \in QualityDelta(rows) :
      \E s \in Sensitivity(rows) : Le(Minus(Zero, d.delta), s.drop.value)

(* Nobody does better overall than the best of some family: an average     *)
(* over families cannot exceed all of them.                                *)
FamilyBestsBound ==
  (\A r \in ToSet(rows) : Family(r) # None) =>
    /\ \A e \in StyleSummary(rows) :
         Scored(Group(rows, Style, e.style)) # <<>> =>
           \E b \in BestStyleByFamily(rows) : b.best.who # None /\ Le(e.score, b.best.value)
    /\ \A e \in QuantSummary(rows) :
         Scored(Group(rows, Quant, e.quant)) # <<>> =>
           \E b \in BestQuantByFamily(rows) : b.best.who # None /\ Le(e.score, b.best.value)

(* The tokens of a run of a style, on average.                             *)
Tokens(s) ==
  LET g == Group(rows, Style, s)
  IN [num |-> Total([i \in DOMAIN g |-> g[i].prompt + g[i].tokens]), den |-> Len(g)]

(* No other style has a better score with no more tokens per run than the  *)
(* recommended one, and none is listed twice.                              *)
RecommendedIsUndominated ==
  LET ranked == Recommended(rows)
  IN \A i \in DOMAIN ranked :
       /\ Lt(ranked[1].score, ranked[i].score)
            => Lt(Tokens(ranked[1].style), Tokens(ranked[i].style))
       /\ \A j \in DOMAIN ranked : i # j => ranked[i].style # ranked[j].style

(* The sections of a report tell one story: one winner with one score, one *)
(* reference quantization with one loss, and in each table every row once. *)
SectionsAgree == SummaryAgrees /\ RunsAreCounted /\ QuantTablesAgree

(* What a report singles out is best where it says so: the best model of a *)
(* family by the margin printed, the best style and quantization of a      *)
(* family, the style recommended for its tokens, and the tasks that        *)
(* separate runs before those that do not.                                 *)
ChoicesAreBest ==
  MarginIsToRunnerUp /\ FamilyBestsBound /\ RecommendedIsUndominated /\ DiscriminatingFirst
=============================================================================
