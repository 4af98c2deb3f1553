------------------------- MODULE PromptOptimization -------------------------
(***************************************************************************)
(* prompt_optimization: the analysis that ranks prompt styles, the         *)
(* proposals made from it, the registry of candidates and the comparison   *)
(* of candidates with their baselines; and the section of v2 about suites  *)
(* of optimization runs.  Rows have, besides the fields of Reports, a      *)
(* suite and the verdict of the format check, None if there was none.      *)
(***************************************************************************)
EXTENDS Reports

CONSTANTS
  PartOf,        \* the second part of each task's dotted identifier, or None
  FullScore,     \* the score of a perfect run, in the unit of the rows
  Optimization,  \* the suite whose identifier contains "-optimization-"
  plain, repl, patch_only, json_schema, architect,  \* styles with a rule
  OtherKnown,    \* the other styles v2 takes for baselines
  Specified,     \* the candidates of specifications: records [name, baseline]
  MaxCalls       \* bound: what is added to the registry, for each fill

ASSUME ScoreAssumption == FullScore \in Nat \ {0}

(* The names of styles and of candidates are strings.                      *)
ASSUME StylesAssumption ==
  /\ None \notin {plain, repl, patch_only, json_schema, architect} \cup OtherKnown
  /\ \A c \in Specified : None \notin {c.name, c.baseline}

VARIABLES
  baselines,   \* TemplateRegistry._baselines
  candidates,  \* TemplateRegistry._candidates
  calls        \* the candidates added since the last clear, in order (no code)

registry == <<baselines, candidates, calls>>

(* The commands build their registry after the rows were recorded.         *)
OptInit == Init /\ baselines = <<>> /\ candidates = <<>> /\ calls = <<>>

Recorded == registry = <<(<<>>), <<>>, <<>>>> /\ Record /\ UNCHANGED registry

AddBaseline ==
  /\ Len(calls) + Len(baselines) < MaxCalls[fill]
  /\ \E s \in {c.baseline : c \in Specified} :
       baselines' = IF Contains(baselines, s) THEN baselines ELSE Append(baselines, s)
  /\ UNCHANGED <<candidates, calls, vars>>

Added(cs, c) == Append(RemoveFirstMatch(cs, LAMBDA d : d.name = c.name), c)

AddCandidate ==
  /\ Len(calls) + Len(baselines) < MaxCalls[fill]
  /\ \E c \in Specified : candidates' = Added(candidates, c) /\ calls' = Append(calls, c)
  /\ UNCHANGED <<baselines, vars>>

Clear ==
  /\ candidates # <<>>
  /\ baselines' = <<>> /\ candidates' = <<>> /\ calls' = <<>>
  /\ UNCHANGED vars

OptNext == Recorded \/ AddBaseline \/ AddCandidate \/ Clear

OptSpec == OptInit /\ [][OptNext]_<<vars, registry>>

-----------------------------------------------------------------------------
(* analyze_style_data.  A style counts in a family by its scored rows.     *)
StyleAverages(rs) ==
  LET ks == Keys(Scored(Styled(rs)), Style)
  IN Descending([i \in DOMAIN ks |-> [style |-> ks[i], score |-> ScoreIn(rs, Style, ks[i]),
                                      runs |-> Len(Scored(Group(rs, Style, ks[i])))]],
                LAMBDA s : s.score)

Margined(s, m) == [style |-> s.style, score |-> s.score, runs |-> s.runs, margin |-> m]

WithMargins_ToBest(s) ==
  [i \in DOMAIN s |-> Margined(s[i], Minus(s[1].score, s[i].score))]

WithMargins(s) ==
  [i \in DOMAIN s |-> Margined(s[i], Minus(s[i].score, s[IF i < Len(s) THEN i + 1 ELSE i].score))]

Ranking(rs, f) == WithMargins(StyleAverages(Group(rs, Family, f)))

(* best_style_family: the head of the ranking of the styles with enough    *)
(* scored rows; nothing if there are none.                                 *)
BestStyle(rs, f, min) ==
  WithMargins(Kept(StyleAverages(Group(rs, Family, f)), LAMBDA s : s.runs >= min))

(* Every row of a style counts here.                                       *)
Insufficient(rs, min) ==
  {f \in Families(rs) : \E s \in ToSet(Keys(Styled(Group(rs, Family, f)), Style)) :
     Len(Group(Group(rs, Family, f), Style, s)) < min}

(* The deviation of a style, by its square.                                *)
Deviations(rs) ==
  LET ss == Sorted(Keys(Styled(rs), Style))
      Of(s) == Scores(Group(rs, Style, s))
      Squared(s) == IF Len(Of(s)) < 2 THEN Zero ELSE Variance(Of(s))
  IN Descending([i \in DOMAIN ss |-> [style |-> ss[i], square |-> Squared(ss[i])]],
                LAMBDA d : d.square)

(* With the whole of one suite.                                            *)
Analysed(rs, min) ==
  [runs |-> Len(rs),
   rankings |-> [f \in {f \in Families(rs) : Ranking(rs, f) # <<>>} |-> Ranking(rs, f)],
   best |-> [f \in {f \in Families(rs) : BestStyle(rs, f, min) # <<>>} |->
               BestStyle(rs, f, min)[1]],
   overall |-> LET s == StyleAverages(rs) IN IF s = <<>> THEN None ELSE s[1].style,
   deviations |-> Deviations(rs),
   insufficient |-> Insufficient(rs, min)]

-----------------------------------------------------------------------------
(* generate_proposals, for one family or for all (None): each rule, with   *)
(* the candidate it proposes.  A family is here the second part of the     *)
(* identifier, which the analysis calls a family only if it does not look  *)
(* like the name of a task: benchmark.mbpp_000 is of "mbpp_000" here, of   *)
(* "000" there.                                                            *)
SecondPart(r) == PartOf[r.task]
InFamily(rs, f) == IF f = None THEN rs ELSE Group(rs, SecondPart, f)

HasStyle(rs, s) == Scored(Group(rs, Style, s)) # <<>>
AvgOf(rs, s, Val(_)) ==
  LET vs == Kept(Group(rs, Style, s), LAMBDA r : Val(r) > 0)
  IN Avg([i \in DOMAIN vs |-> Val(vs[i])])
TokensOf(rs, s) == AvgOf(rs, s, LAMBDA r : r.tokens)
WallOf(rs, s) == AvgOf(rs, s, LAMBDA r : r.wall)

NotWorse(rs, s) ==
  HasStyle(rs, s) /\ HasStyle(rs, plain) /\ Le(ScoreIn(rs, Style, plain), ScoreIn(rs, Style, s))

ReplTerse(rs) ==
  NotWorse(rs, repl) /\ Lt(Times(TokensOf(rs, plain), Whole(2)), TokensOf(rs, repl))

FormatProtected_AnyRun(rs) ==
  LET checked == Kept(Group(rs, Style, patch_only), LAMBDA r : r.format # None)
      failed == Kept(checked, LAMBDA r : ~r.format)
  IN 10 * Len(failed) > 3 * Len(checked)

FormatProtected(rs) ==
  LET checked == Kept(Group(rs, Style, patch_only), LAMBDA r : r.format # None)
      failed == Kept(checked, LAMBDA r : ~r.format)
  IN HasStyle(rs, patch_only) /\ 10 * Len(failed) > 3 * Len(checked)

JsonDebug(rs) ==
  /\ HasStyle(rs, json_schema)
  /\ Lt(ScoreIn(rs, Style, json_schema), [num |-> FullScore, den |-> 2])
  /\ Lt(Whole(100), TokensOf(rs, json_schema))

ArchitectStep(rs) ==
  NotWorse(rs, architect) /\ Lt(Times(WallOf(rs, plain), Whole(3)), WallOf(rs, architect))

(* Plain ties with all others, or beats them.                              *)
PlainMinimal(rs) ==
  LET others == Kept(Keys(Styled(rs), Style), LAMBDA s : s # plain)
      best == Champion(others, [s \in ToSet(others) |-> ScoreIn(rs, Style, s)], Zero).value
  IN HasStyle(rs, plain) /\ Le(Times(best, [num |-> 95, den |-> 100]), ScoreIn(rs, Style, plain))

Proposals(all, f) ==
  LET rs == InFamily(all, f)
  IN {c \in {[name |-> "repl-terse", baseline |-> repl],
             [name |-> "format-protected-patch", baseline |-> patch_only],
             [name |-> "json-debug", baseline |-> json_schema],
             [name |-> "architect-step", baseline |-> architect],
             [name |-> "plain-minimal", baseline |-> plain]} :
        \/ c.name = "repl-terse" /\ ReplTerse(rs)
        \/ c.name = "format-protected-patch" /\ FormatProtected(rs)
        \/ c.name = "json-debug" /\ JsonDebug(rs)
        \/ c.name = "architect-step" /\ ArchitectStep(rs)
        \/ c.name = "plain-minimal" /\ PlainMinimal(rs)}

-----------------------------------------------------------------------------
(* What is said of a candidate: its average and that of its baseline, zero *)
(* for a style without scores.                                             *)
Measured(rs, c, status) ==
  [name |-> c.name, baseline |-> c.baseline, score |-> ScoreIn(rs, Style, c.name),
   baseline_score |-> ScoreIn(rs, Style, c.baseline),
   delta |-> Minus(ScoreIn(rs, Style, c.name), ScoreIn(rs, Style, c.baseline)),
   runs |-> Len(Scored(Group(rs, Style, c.name))), status |-> status]

(* _run_metadata_comparison, from the rows of the suite.                   *)
Metadata(rs, cs) ==
  [i \in DOMAIN cs |-> Measured(rs, cs[i],
     IF HasStyle(rs, cs[i].name) THEN "analyzed" ELSE "no_data")]

(* A baseline among the results, which is compared with nothing.           *)
BaselineEntry(rs, s) ==
  [name |-> s, baseline |-> None, score |-> ScoreIn(rs, Style, s), baseline_score |-> None,
   delta |-> None, runs |-> Len(Scored(Group(rs, Style, s))), status |-> "baseline"]

(* _compute_candidate_results, from the rows of a sweep: the candidates,   *)
(* then the baselines that are no candidate.                               *)
Computed_AllBaselines(rs, bs, cs) ==
  [i \in DOMAIN cs |-> Measured(rs, cs[i], "complete")] \o [i \in DOMAIN bs |-> BaselineEntry(rs, bs[i])]

Computed(rs, bs, cs) ==
  LET rest == Kept(bs, LAMBDA s : \A i \in DOMAIN cs : cs[i].name # s)
  IN [i \in DOMAIN cs |-> Measured(rs, cs[i], "complete")]
     \o [i \in DOMAIN rest |-> BaselineEntry(rs, rest[i])]

(* generate_optimization_summary: what to adopt.                           *)
Adopted(results) ==
  {r.name : r \in {r \in ToSet(results) :
     r.delta # None /\ Lt([num |-> FullScore, den |-> 20], r.delta)}}
Action(results) ==
  IF Adopted(results) # {} THEN "adopt"
  ELSE IF results # <<>> THEN "no_change" ELSE "insufficient_data"

(* _append_prompt_optimization of v2: the styles in the order in which the *)
(* rows of the optimization suites, model by model, meet them.  A style    *)
(* that is not known is compared with what plain scored so far.            *)
Known == {plain, repl, patch_only, json_schema, architect} \cup OtherKnown
OptRows(rs) == Kept(Regrouped(rs), LAMBDA r : r.suite = Optimization)

OptEntry(rs, s, met) ==
  IF s \in Known THEN BaselineEntry(rs, s)
  ELSE LET base == IF Contains(met, plain) THEN ScoreIn(rs, Style, plain) ELSE Zero
       IN [Measured(rs, [name |-> s, baseline |-> plain], "analyzed")
             EXCEPT !.baseline_score = base, !.delta = Minus(ScoreIn(rs, Style, s), base)]

OptResults(rs) ==
  LET ss == Kept(Keys(OptRows(rs), Style), LAMBDA s : HasStyle(OptRows(rs), s))
      all == [i \in DOMAIN ss |-> OptEntry(OptRows(rs), ss[i], SubSeq(ss, 1, i - 1))]
  IN IF \E i \in DOMAIN all : all[i].status = "analyzed" THEN all ELSE <<>>

-----------------------------------------------------------------------------
(* Two readers of one database agree: the analysis and the style report    *)
(* name, for each family, styles of one and the same best average, and the *)
(* best style overall is unbeaten among the scored styles of the report.   *)
AnalysisIsTheReport ==
  LET a == Analysed(rows, 1)
  IN /\ \A b \in BestStyleByFamily(rows) :
          /\ b.family \in DOMAIN a.best <=> b.best.who # None
          /\ b.family \in DOMAIN a.best => Same(a.best[b.family].score, b.best.value)
     /\ \A e \in StyleSummary(rows) :
          HasStyle(rows, e.style) => Le(e.score, ScoreIn(rows, Style, a.overall))

(* The margins of a ranking add up: from one line to another they sum to   *)
(* the difference of the averages, and none is negative.                   *)
MarginsAddUp ==
  \A f \in Families(rows) :
    LET r == Ranking(rows, f)
    IN \A i \in DOMAIN r :
         LET gap[j \in i..Len(r)] ==
               IF j = i THEN Zero ELSE Minus(gap[j-1], Minus(Zero, r[j-1].margin))
         IN /\ Le(Zero, r[i].margin)
            /\ \A j \in i..Len(r) : Same(gap[j], Minus(r[i].score, r[j].score))

(* Asking for more runs per style narrows the choice: the best style is    *)
(* one of the ranking and scores no more, with no smaller lead than its    *)
(* own in the ranking, unless no other is left; families only become       *)
(* insufficient; and, without unscored rows, one that is not keeps its     *)
(* whole ranking.                                                          *)
MinRunsNarrows ==
  \A min \in 1..2 : \A f \in Families(rows) :
    LET all == Ranking(rows, f)
        best == BestStyle(rows, f, min)
        more == BestStyle(rows, f, min + 1)
    IN /\ Insufficient(rows, min) \subseteq Insufficient(rows, min + 1)
       /\ more # <<>> => best # <<>> /\ Le(more[1].score, best[1].score)
       /\ best # <<>> => \E i \in DOMAIN all : all[i].style = best[1].style /\
            (Len(best) > 1 => Le(all[i].margin, best[1].margin))
       /\ f \notin Insufficient(rows, min) /\ Scored(rows) = rows /\ all # <<>> =>
            best = all

(* Proposals follow from the ranking of the rows they are made from,       *)
(* whatever family is asked for, one that the analysis names or not: a     *)
(* candidate is proposed only against a baseline with scored runs, so that *)
(* a comparison has something to measure it by; what refines repl or       *)
(* architect is not ranked below plain; plain-minimal is proposed unless   *)
(* another style leads plain, and then no style leads it by more than a    *)
(* twentieth of its score.                                                 *)
ProposalsAreFounded ==
  \A f \in Families(rows) \cup {SecondPart(r) : r \in ToSet(rows)} \cup {None} :
    LET rs == InFamily(rows, f)
        names == {c.name : c \in Proposals(rows, f)}
        ranked == StyleAverages(rs)
        best == ScoreIn(rs, Style, ranked[1].style)
        plainly == ScoreIn(rs, Style, plain)
        NotBelow(s) == \E i, j \in DOMAIN ranked : /\ ranked[i].style = s /\ ranked[j].style = plain
                                                  /\ Le(ranked[j].score, ranked[i].score)
    IN /\ \A c \in Proposals(rows, f) :
            \A m \in ToSet(Metadata(rs, <<c>>)) : \E i \in DOMAIN ranked :
              ranked[i].style = c.baseline /\ Same(m.baseline_score, ranked[i].score)
       /\ HasStyle(rs, plain) /\ "plain-minimal" \notin names => Lt(plainly, best)
       /\ "plain-minimal" \in names =>
            Le(Times(Minus(best, plainly), Whole(20)), best)
       /\ "repl-terse" \in names => NotBelow(repl)
       /\ "architect-step" \in names => NotBelow(architect)

(* The registry holds, of the candidates added under a name, the one added *)
(* last, in the order of those additions.                                  *)
LastCandidateWins ==
  LET last == {i \in DOMAIN calls : \A j \in DOMAIN calls : j > i => calls[j].name # calls[i].name}
      Place(i) == Cardinality({j \in last : j <= i})
  IN /\ Len(candidates) = Cardinality(last)
     /\ \A i \in last : candidates[Place(i)] = calls[i]

(* A comparison lists each candidate and each other baseline once; a       *)
(* candidate without runs is said to have none; two candidates that are    *)
(* each other's baselines have opposite differences; and what is adopted   *)
(* has runs and stands above its baseline in the ranking, if that was run  *)
(* at all.                                                                 *)
ComparisonsAreSound ==
  LET old == Metadata(rows, candidates)
      new == Computed(rows, baselines, candidates)
      ranked == StyleAverages(rows)
      At(s) == SelectInSeq(ranked, LAMBDA r : r.style = s)
  IN /\ \A i \in DOMAIN old : old[i].runs = 0 <=> old[i].status = "no_data"
     /\ \A i, j \in DOMAIN new : i # j => new[i].name # new[j].name
     /\ {new[i].name : i \in DOMAIN new} = {c.name : c \in ToSet(candidates)} \cup ToSet(baselines)
     /\ \A a, b \in ToSet(old) : a.name = b.baseline /\ b.name = a.baseline =>
          Same(a.delta, Minus(Zero, b.delta))
     /\ \A a \in ToSet(old) : a.name \in Adopted(new) =>
          a.status = "analyzed" /\ (At(a.baseline) > 0 => At(a.name) < At(a.baseline))

(* The section of v2 lists each scored style of the optimization runs once,*)
(* with its average.  It compares a candidate with plain as the optimizer  *)
(* does if plain was met before it, in the order of the rows; otherwise    *)
(* with zero, and its whole score is the difference printed.  So the two   *)
(* differ exactly on candidates met before a plain that scored.            *)
OptSectionComparesWithPlain ==
  LET opt == OptRows(rows)
      all == OptResults(rows)
      Met(j) == \E i \in 1..j-1 : all[i].name = plain
      Optimizer(e) == Metadata(opt, <<[name |-> e.name, baseline |-> plain]>>)[1]
  IN /\ \A i, j \in DOMAIN all : i # j => all[i].name # all[j].name
     /\ all # <<>> => {[style |-> e.name, score |-> e.score, runs |-> e.runs] : e \in ToSet(all)}
           = {[style |-> k, score |-> ScoreIn(opt, Style, k), runs |-> Len(Scored(Group(opt, Style, k)))] :
                k \in {r.style : r \in ToSet(Scored(opt))}}
     /\ \A j \in DOMAIN all : all[j].status = "analyzed" =>
          /\ Met(j) => all[j] = Optimizer(all[j])
          /\ ~Met(j) => all[j].baseline_score = Zero /\ Same(all[j].delta, all[j].score)
          /\ Same(all[j].delta, Optimizer(all[j]).delta)
               <=> Met(j) \/ Same(ScoreIn(opt, Style, plain), Zero)

(* The ranking of the styles of a family is the one of the style report,   *)
(* with margins that add up, and a larger minimum of runs only narrows it. *)
RankingIsSound == AnalysisIsTheReport /\ MarginsAddUp /\ MinRunsNarrows

(* What is compared is the candidate added last under each name, by the    *)
(* optimizer soundly, and by v2 as the optimizer does where plain was met  *)
(* before it.                                                              *)
CandidatesAreCompared ==
  LastCandidateWins /\ ComparisonsAreSound /\ OptSectionComparesWithPlain
=============================================================================
