---------------------------- MODULE JudgeScoring ----------------------------
(***************************************************************************)
(* One call of LLMJudgeScorer.score or PairwiseScorer.score: the checks    *)
(* before the judge is asked, its rounds, and the score made of what it    *)
(* answers.  Scores are fractions over one denominator; their rounding is  *)
(* left out, as are the words of prompts, reasons and explanations.        *)
(***************************************************************************)
EXTENDS Integers, FiniteSetsExt, SequencesExt

CONSTANTS
  Dims,      \* the dimensions of the rubric
  Weight,    \* their weights, in hundredths
  Scale,     \* the scale of every dimension and of the rubric
  Points,    \* the numbers a judge may give
  MaxRounds  \* bound: self_consistency_rounds

ASSUME RubricAssumption ==
  /\ IsFiniteSet(Dims) /\ Dims # {}
  /\ Weight \in [Dims -> Nat \ {0}] /\ Scale \in Nat \ {0}
ASSUME PointsAssumption == Points \subseteq Int
ASSUME RoundsAssumption == MaxRounds \in Nat \ {0}

(* What a judge's JSON has for a dimension: a number, a number in quotes,  *)
(* a score that is no number, or nothing that can hold a score.            *)
Shapes == {"number", "text", "null", "none"}
Judged == {[shape |-> sh, n |-> IF sh \in {"number", "text"} THEN n ELSE 0] :
             sh \in Shapes, n \in Points}

(* A round's answer: an API error, an empty reply or bad JSON; or what it  *)
(* has for each dimension, none in any when it is no object, and for one   *)
(* that the rubric does not have.                                          *)
Blank == [d \in Dims |-> [shape |-> "none", n |-> 0]]
Replies == [ok : {FALSE}, dims : {Blank}, extra : {"number"}]
           \cup [ok : {TRUE}, dims : [Dims -> Judged], extra : {"number", "null"}]

(* What a comparison is answered: an error, or a winner and a confidence.  *)
Winners == {"a", "b", "tie"}
Verdicts == {[ok |-> FALSE, winner |-> "tie", n |-> 0]} \cup
            [ok : {TRUE}, winner : Winners \cup {"other"}, n : Points]

Setups == {"no client", "no rubric", "no prompt", "ready"}

VARIABLES
  kind,     \* "judge" or "pairwise"
  setup,    \* what the checks before the first call will find
  looped,   \* whether an event loop runs already, as in CompletionRunner.run
  rounds,   \* self_consistency_rounds
  pc,       \* "check", "ask" or "done"
  answers,  \* what the judge has answered so far
  result    \* the ScoreResult

vars == <<kind, setup, looped, rounds, pc, answers, result>>

(* score: hundredths of points, over Full.                                 *)
NoResult == [num |-> 0, den |-> 1, passed |-> FALSE, winner |-> "tie", failed |-> TRUE]

TypeOK ==
  /\ kind \in {"judge", "pairwise"} /\ setup \in Setups /\ looped \in BOOLEAN
  /\ rounds \in 1..MaxRounds /\ pc \in {"check", "ask", "done"}
  /\ answers \in Seq(IF kind = "judge" THEN Replies ELSE Verdicts)
  /\ Len(answers) <= rounds
  /\ result \in [num : Int, den : Nat \ {0}, passed : BOOLEAN,
                 winner : Winners, failed : BOOLEAN]

Init ==
  /\ kind \in {"judge", "pairwise"} /\ setup \in Setups /\ looped \in BOOLEAN
  /\ rounds \in 1..MaxRounds /\ (kind = "pairwise" => rounds = 1)
  /\ pc = "check" /\ answers = <<>> /\ result = NoResult

Finish(r) == pc' = "done" /\ result' = r

-----------------------------------------------------------------------------
(* Without client, rubric, prompt (or, pairwise, both responses) a result  *)
(* of zero.  run_until_complete refuses to nest: a judge in a running loop *)
(* fails, a comparison becomes a tie.                                      *)
TieResult == [num |-> 1, den |-> 2, passed |-> FALSE, winner |-> "tie", failed |-> TRUE]

Check ==
  /\ pc = "check"
  /\ IF setup # "ready" THEN Finish(NoResult)
     ELSE IF looped THEN Finish(IF kind = "judge" THEN NoResult ELSE TieResult)
     ELSE pc' = "ask" /\ UNCHANGED result
  /\ UNCHANGED <<kind, setup, looped, rounds, answers>>

(* Weighted over the rubric's dimensions; each is divided by its scale,    *)
(* and the sum by the rubric's scale once more, then cut at one.           *)
Full(n) == n * Scale * Scale * SumFunction(Weight)
Graded(points, n) ==
  LET raw == SumFunction([d \in Dims |-> Weight[d] * points[d]])
      num == IF raw > Full(n) THEN Full(n) ELSE raw
  IN [num |-> num, den |-> Full(n), passed |-> 2 * num >= Full(n),
      winner |-> "tie", failed |-> FALSE]

(* One round: a score that is no number cannot be divided.                 *)
ScoreOnce(answer) ==
  IF ~answer.ok \/ \E d \in Dims : answer.dims[d].shape \in {"text", "null"}
  THEN NoResult
  ELSE Graded([d \in Dims |-> answer.dims[d].n], 1)

(* Several rounds: float() takes the quoted number too, but raises outside *)
(* the rounds' try on what is none, in any dimension; a round that failed  *)
(* counts as zero.                                                         *)
PointsOf(as, d) == SumFunction([i \in DOMAIN as |-> as[i].dims[d].n])

Unscored(a) == a.extra = "null" \/ \E d \in Dims : a.dims[d].shape = "null"

ScoreRounds_SkipsFailed(as) ==
  LET good == SelectSeq(as, LAMBDA a : a.ok) IN
  IF \E i \in DOMAIN good : Unscored(good[i]) THEN NoResult
  ELSE Graded([d \in Dims |-> PointsOf(good, d)], IF good = <<>> THEN 1 ELSE Len(good))

ScoreRounds(as) ==
  IF \E i \in DOMAIN as : Unscored(as[i]) THEN NoResult
  ELSE Graded([d \in Dims |-> PointsOf(as, d)], Len(as))

Ask_OneMore ==
  /\ pc = "ask" /\ kind = "judge"
  /\ \E a \in Replies :
       /\ answers' = Append(answers, a)
       /\ IF Len(answers) = rounds THEN Finish(ScoreRounds(answers'))
          ELSE UNCHANGED <<pc, result>>
  /\ UNCHANGED <<kind, setup, looped, rounds>>

Ask ==
  /\ pc = "ask" /\ kind = "judge"
  /\ \E a \in Replies :
       /\ answers' = Append(answers, a)
       /\ IF rounds = 1 THEN Finish(ScoreOnce(a))
          ELSE IF Len(answers') = rounds THEN Finish(ScoreRounds(answers'))
          ELSE UNCHANGED <<pc, result>>
  /\ UNCHANGED <<kind, setup, looped, rounds>>

(* An unknown winner is a tie; the confidence is cut to 0..1 and is the    *)
(* score when somebody won.                                                *)
Cut(n) == IF n < 0 THEN 0 ELSE IF n > Scale THEN Scale ELSE n

Compared_TiePasses(v) ==
  IF v.ok /\ v.winner \in Winners
  THEN [num |-> Cut(v.n), den |-> Scale, passed |-> TRUE, winner |-> v.winner,
        failed |-> FALSE]
  ELSE TieResult

Compared(v) ==
  IF v.ok /\ v.winner \in {"a", "b"}
  THEN [num |-> Cut(v.n), den |-> Scale, passed |-> TRUE, winner |-> v.winner,
        failed |-> FALSE]
  ELSE TieResult

AskPairwise ==
  /\ pc = "ask" /\ kind = "pairwise"
  /\ \E v \in Verdicts : answers' = <<v>> /\ Finish(Compared(v))
  /\ UNCHANGED <<kind, setup, looped, rounds>>

-----------------------------------------------------------------------------
Next == Check \/ Ask \/ AskPairwise

Spec == Init /\ [][Next]_vars

-----------------------------------------------------------------------------
InScale(a) ==
  a.extra = "number" /\ \A d \in Dims :
    a.dims[d].shape \in {"number", "none"} /\ a.dims[d].n \in 0..Scale
Judgement == pc = "done" /\ kind = "judge" /\ answers # <<>>

(* Self-consistency: while the judge keeps to numbers within the scale,    *)
(* the score of several rounds is the average of what each round alone     *)
(* would score, a failed round counting zero.                              *)
RoundsAverage ==
  Judgement /\ (\A i \in DOMAIN answers : InScale(answers[i])) =>
    LET sum == SumFunction([i \in DOMAIN answers |-> ScoreOnce(answers[i]).num])
    IN result.num * rounds * Full(1) = result.den * sum

(* A score is at most one whatever the judge says, and at least zero       *)
(* unless it gave negative points to a dimension of the rubric.            *)
ScoreInRange ==
  /\ result.num <= result.den
  /\ result.num < 0 => kind = "judge" /\
       \E i \in DOMAIN answers, d \in Dims : answers[i].dims[d].n < 0

(* A verdict, and a pass, come from an answer of the judge: never from a   *)
(* missing client, an open event loop, an API error or a malformed reply,  *)
(* in every round.                                                         *)
PassIsTheJudges ==
  result.passed =>
    /\ setup = "ready" /\ ~looped /\ Len(answers) = rounds
    /\ \E i \in DOMAIN answers : answers[i].ok
    /\ (kind = "pairwise" => answers[1].winner = result.winner /\ result.winner # "tie")

(* The score of a call is the average of its rounds, within the scale.     *)
ScoreIsTheRounds == RoundsAverage /\ ScoreInRange
=============================================================================
