-------------------------- MODULE JudgeScoringProofs --------------------------
(***************************************************************************)
(* Proofs about JudgeScoring for any rubric, weights, scale, points and    *)
(* number of rounds.  The invariant says how the result was made of the    *)
(* answers; the rest is arithmetic on weighted sums, which DataLemmas has.  *)
(***************************************************************************)
EXTENDS JudgeScoring, DataLemmas

Judging == IF rounds = 1 THEN ScoreOnce(answers[1]) ELSE ScoreRounds(answers)

(* The result of a call that is over.                                      *)
Outcome ==
  \/ answers = <<>> /\ result \in {NoResult, TieResult}
  \/ /\ setup = "ready" /\ ~looped /\ Len(answers) = rounds
     /\ result = IF kind = "judge" THEN Judging ELSE Compared(answers[1])

CallInv ==
  /\ kind = "pairwise" => rounds = 1
  /\ pc = "check" => answers = <<>>
  /\ pc = "ask" => setup = "ready" /\ ~looped /\ Len(answers) < rounds
  /\ IF pc = "done" THEN Outcome ELSE result = NoResult

IInv == TypeOK /\ CallInv

-----------------------------------------------------------------------------
(* Sums over the rubric and over the rounds.                               *)
Sum(f, S) == SumFunctionOnSet(f, S)
Weighted(points) == Sum([d \in Dims |-> Weight[d] * points[d]], Dims)

LEMMA FullIsPositive ==
  ASSUME NEW n \in Nat \ {0} PROVE Full(n) \in Nat \ {0}
<1>1. DOMAIN Weight = Dims
  BY RubricAssumption
<1> DEFINE total == SumFunction(Weight)
<1>2. total \in Nat \ {0}
  BY <1>1, RubricAssumption, SumPositive DEF SumFunction
<1>3. Scale * Scale \in Nat \ {0}
  BY RubricAssumption
<1> HIDE DEF total
<1>4. n * Scale * Scale \in Nat \ {0}
  BY RubricAssumption
<1>5. n * Scale * Scale * total \in Nat \ {0}
  BY <1>2, <1>4
<1> QED BY <1>5 DEF Full, total

LEMMA FullOfRounds == ASSUME NEW n \in Nat PROVE Full(n) = n * Full(1)
<1> DEFINE total == SumFunction(Weight)
<1>1. total \in Nat
  BY RubricAssumption, SumPositive DEF SumFunction
<1> HIDE DEF total
<1>2. n * Scale * Scale * total = n * (1 * Scale * Scale * total)
  BY <1>1, RubricAssumption
<1> QED BY <1>2 DEF Full, total

LEMMA GradedOf ==
  ASSUME NEW points, NEW n
  PROVE  Graded(points, n) =
           [num |-> IF Weighted(points) > Full(n) THEN Full(n) ELSE Weighted(points),
            den |-> Full(n),
            passed |-> 2 * (IF Weighted(points) > Full(n) THEN Full(n) ELSE Weighted(points))
                         >= Full(n),
            winner |-> "tie", failed |-> FALSE]
<1>1. SumFunction([d \in Dims |-> Weight[d] * points[d]]) = Weighted(points)
  BY DEF SumFunction, Weighted, Sum
<1> QED BY <1>1 DEF Graded

LEMMA WeightedInt ==
  ASSUME NEW points, \A d \in Dims : points[d] \in Int
  PROVE  Weighted(points) \in Int
<1> DEFINE f == [d \in Dims |-> Weight[d] * points[d]]
<1>1. \A d \in Dims : f[d] \in Int
  BY RubricAssumption
<1> HIDE DEF f
<1>2. Sum(f, Dims) \in Int
  BY <1>1, RubricAssumption, SumInt DEF Sum
<1> QED BY <1>2 DEF Weighted, f

LEMMA GradedType ==
  ASSUME NEW points, \A d \in Dims : points[d] \in Int, NEW n \in Nat \ {0}
  PROVE  /\ Graded(points, n) \in [num : Int, den : Nat \ {0}, passed : BOOLEAN,
                                   winner : Winners, failed : BOOLEAN]
         /\ Graded(points, n).num <= Graded(points, n).den
<1> DEFINE w == Weighted(points)
           full == Full(n)
           num == IF w > full THEN full ELSE w
<1>1. w \in Int /\ full \in Nat \ {0}
  BY WeightedInt, FullIsPositive
<1>2. Graded(points, n) = [num |-> num, den |-> full, passed |-> 2 * num >= full,
                           winner |-> "tie", failed |-> FALSE]
  BY GradedOf
<1> HIDE DEF w, full
<1>3. num \in Int /\ num <= full
  BY <1>1
<1>4. (2 * num >= full) \in BOOLEAN
  OBVIOUS
<1> HIDE DEF num
<1> QED BY <1>1, <1>2, <1>3, <1>4 DEF Winners

LEMMA AnswerPoints ==
  ASSUME NEW a \in Replies, NEW d \in Dims
  PROVE  a.dims[d].n \in Int /\ (~a.ok => a.dims[d].n = 0)
<1>1. CASE a \in [ok : {FALSE}, dims : {Blank}, extra : {"number"}]
  <2>1. a.dims = Blank
    BY <1>1
  <2>2. a.dims[d].n = 0
    BY <2>1 DEF Blank
  <2> QED BY <2>2
<1>2. CASE a \in [ok : {TRUE}, dims : [Dims -> Judged], extra : {"number", "null"}]
  <2>1. a.dims[d] \in Judged /\ a.ok
    BY <1>2
  <2>2. PICK sh \in Shapes, n \in Points :
          a.dims[d] = [shape |-> sh, n |-> IF sh \in {"number", "text"} THEN n ELSE 0]
    BY <2>1 DEF Judged
  <2>3. a.dims[d].n \in Int /\ a.ok
    BY <2>1, <2>2, PointsAssumption
  <2> QED BY <2>3
<1> QED BY <1>1, <1>2 DEF Replies

LEMMA PointsOfInt ==
  ASSUME NEW given \in Seq(Replies), NEW d \in Dims
  PROVE  PointsOf(given, d) \in Int
<1> DEFINE f == [i \in DOMAIN given |-> given[i].dims[d].n]
<1>1. IsFiniteSet(DOMAIN given)
  <2>1. DOMAIN given = 1..Len(given) /\ Len(given) \in Int
    OBVIOUS
  <2> QED BY <2>1, FS_Interval
<1>2. \A i \in DOMAIN given : f[i] \in Int
  BY AnswerPoints
<1> HIDE DEF f
<1>3. SumFunctionOnSet(f, DOMAIN given) \in Int
  BY <1>1, <1>2, SumInt
<1>4. DOMAIN f = DOMAIN given
  BY DEF f
<1> QED BY <1>3, <1>4 DEF PointsOf, SumFunction, f

(* Nobody is scored above one.                                             *)
ResultType == [num : Int, den : Nat \ {0}, passed : BOOLEAN, winner : Winners, failed : BOOLEAN]
Scaled(r) == r \in ResultType /\ r.num <= r.den

LEMMA FixedResults == Scaled(NoResult) /\ Scaled(TieResult)
<1>1. FALSE \in BOOLEAN /\ TRUE \in BOOLEAN /\ "tie" \in Winners
  BY DEF Winners
<1> QED BY <1>1 DEF Scaled, ResultType, NoResult, TieResult

LEMMA OnceScaled == ASSUME NEW a \in Replies PROVE Scaled(ScoreOnce(a))
<1> DEFINE points == [d \in Dims |-> a.dims[d].n]
<1>1. \A d \in Dims : points[d] \in Int
  BY AnswerPoints
<1> HIDE DEF points
<1>2. Scaled(Graded(points, 1))
  BY <1>1, GradedType DEF Scaled, ResultType
<1>3. ScoreOnce(a) = NoResult \/ ScoreOnce(a) = Graded(points, 1)
  BY DEF ScoreOnce, points
<1> QED BY <1>2, <1>3, FixedResults

LEMMA RoundsScaled ==
  ASSUME NEW given \in Seq(Replies), Len(given) # 0 PROVE Scaled(ScoreRounds(given))
<1> DEFINE points == [d \in Dims |-> PointsOf(given, d)]
<1>1. \A d \in Dims : points[d] \in Int
  BY PointsOfInt
<1>2. Len(given) \in Nat \ {0}
  OBVIOUS
<1> HIDE DEF points
<1>3. Scaled(Graded(points, Len(given)))
  BY <1>1, <1>2, GradedType DEF Scaled, ResultType
<1>4. ScoreRounds(given) = NoResult \/ ScoreRounds(given) = Graded(points, Len(given))
  BY DEF ScoreRounds, points
<1> QED BY <1>3, <1>4, FixedResults

LEMMA VerdictPoints == ASSUME NEW v \in Verdicts PROVE v.n \in Int
<1>1. CASE v \in {[ok |-> FALSE, winner |-> "tie", n |-> 0]}
  BY <1>1
<1>2. CASE v \in [ok : {TRUE}, winner : Winners \cup {"other"}, n : Points]
  BY <1>2, PointsAssumption
<1> QED BY <1>1, <1>2 DEF Verdicts

LEMMA ComparedScaled == ASSUME NEW v \in Verdicts PROVE Scaled(Compared(v))
<1>1. v.n \in Int
  BY VerdictPoints
<1>2. ASSUME NEW n \in Int PROVE Cut(n) \in Int /\ Cut(n) <= Scale
  BY RubricAssumption DEF Cut
<1>3. CASE v.ok /\ v.winner \in {"a", "b"}
  <2>1. Compared(v) = [num |-> Cut(v.n), den |-> Scale, passed |-> TRUE,
                       winner |-> v.winner, failed |-> FALSE]
    BY <1>3 DEF Compared
  <2> QED BY <1>1, <1>2, <1>3, <2>1, RubricAssumption DEF Scaled, ResultType, Winners
<1>4. CASE ~(v.ok /\ v.winner \in {"a", "b"})
  BY <1>4, FixedResults DEF Compared
<1> QED BY <1>3, <1>4

-----------------------------------------------------------------------------
LEMMA InitIInv == Init => IInv
<1> SUFFICES ASSUME Init PROVE IInv
  OBVIOUS
<1> QED BY FixedResults DEF Init, IInv, TypeOK, CallInv, Scaled, ResultType

LEMMA StepIInv == IInv /\ [Next]_vars => IInv'
<1> SUFFICES ASSUME IInv, [Next]_vars PROVE IInv'
  OBVIOUS
<1> USE DEF IInv, TypeOK, CallInv, Outcome
<1>1. ASSUME Check PROVE IInv'
  BY <1>1, FixedResults DEF Check, Finish, Scaled, ResultType
<1>2. ASSUME NEW a \in Replies, pc = "ask", kind = "judge", answers' = Append(answers, a),
             UNCHANGED <<kind, setup, looped, rounds>>
      PROVE  /\ answers' \in Seq(Replies) /\ Len(answers') = Len(answers) + 1
             /\ Len(answers') \in 1..rounds
             /\ rounds = 1 => answers'[1] = a
  BY <1>2
<1>3. ASSUME Ask PROVE IInv'
  <2>1. PICK a \in Replies :
          /\ answers' = Append(answers, a)
          /\ IF rounds = 1 THEN Finish(ScoreOnce(a))
             ELSE IF Len(answers') = rounds THEN Finish(ScoreRounds(answers'))
             ELSE UNCHANGED <<pc, result>>
    BY <1>3 DEF Ask
  <2>2. pc = "ask" /\ kind = "judge" /\ UNCHANGED <<kind, setup, looped, rounds>>
    BY <1>3 DEF Ask
  <2>3. /\ answers' \in Seq(Replies) /\ Len(answers') = Len(answers) + 1
        /\ Len(answers') \in 1..rounds
        /\ rounds = 1 => answers'[1] = a
    BY <1>2, <2>1, <2>2
  <2>4. CASE rounds = 1
    <3>1. pc' = "done" /\ result' = ScoreOnce(a)
      BY <2>1, <2>4 DEF Finish
    <3>2. Judging' = ScoreOnce(a)
      BY <2>2, <2>3, <2>4 DEF Judging
    <3>3. Scaled(result')
      BY <3>1, OnceScaled
    <3> QED BY <2>2, <2>3, <2>4, <3>1, <3>2, <3>3 DEF Scaled, ResultType
  <2>5. CASE rounds # 1 /\ Len(answers') = rounds
    <3>1. pc' = "done" /\ result' = ScoreRounds(answers')
      BY <2>1, <2>5 DEF Finish
    <3>2. Judging' = ScoreRounds(answers')
      BY <2>2, <2>5 DEF Judging
    <3>3. Scaled(result')
      BY <2>3, <3>1, RoundsScaled
    <3> QED BY <2>2, <2>3, <2>5, <3>1, <3>2, <3>3 DEF Scaled, ResultType
  <2>6. CASE rounds # 1 /\ Len(answers') # rounds
    BY <2>1, <2>2, <2>3, <2>6
  <2> QED BY <2>4, <2>5, <2>6
<1>4. ASSUME AskPairwise PROVE IInv'
  <2>1. PICK v \in Verdicts : answers' = <<v>> /\ Finish(Compared(v))
    BY <1>4 DEF AskPairwise
  <2>2. pc = "ask" /\ kind = "pairwise" /\ UNCHANGED <<kind, setup, looped, rounds>>
    BY <1>4 DEF AskPairwise
  <2>3. answers' \in Seq(Verdicts) /\ Len(answers') = 1 /\ answers'[1] = v
    BY <2>1
  <2>4. pc' = "done" /\ result' = Compared(v) /\ Scaled(result')
    BY <2>1, ComparedScaled DEF Finish
  <2> QED BY <2>2, <2>3, <2>4 DEF Scaled, ResultType
<1>5. ASSUME UNCHANGED vars PROVE IInv'
  BY <1>5 DEF vars, Judging
<1> QED BY <1>1, <1>3, <1>4, <1>5 DEF Next

-----------------------------------------------------------------------------
(* What the answers are worth.                                             *)
PointsIn(a) == [d \in Dims |-> a.dims[d].n]

LEMMA WeightedFloor ==
  ASSUME NEW points, \A d \in Dims : points[d] \in Int /\ 0 <= points[d]
  PROVE  0 <= Weighted(points)
<1> DEFINE f == [d \in Dims |-> Weight[d] * points[d]]
           zero == [d \in Dims |-> 0]
<1>1. \A d \in Dims : zero[d] \in Int /\ f[d] \in Int /\ zero[d] <= f[d]
  BY RubricAssumption
<1>2. \A d \in Dims : zero[d] = 0
  OBVIOUS
<1> HIDE DEF f, zero
<1>3. Sum(zero, Dims) = 0 /\ Sum(zero, Dims) <= Sum(f, Dims)
  BY <1>1, <1>2, RubricAssumption, SumZero, SumMonotone DEF Sum
<1> QED BY <1>3 DEF Weighted, f

LEMMA WeightedZero ==
  ASSUME NEW points, \A d \in Dims : points[d] = 0 PROVE Weighted(points) = 0
<1> DEFINE f == [d \in Dims |-> Weight[d] * points[d]]
<1>1. \A d \in Dims : f[d] = 0
  BY RubricAssumption
<1> HIDE DEF f
<1>2. Sum(f, Dims) = 0
  BY <1>1, RubricAssumption, SumZero DEF Sum
<1> QED BY <1>2 DEF Weighted, f

(* Points within the scale weigh at most the whole.                        *)
LEMMA WeightedCeiling ==
  ASSUME NEW points, \A d \in Dims : points[d] \in 0..Scale
  PROVE  Weighted(points) <= Full(1)
<1> DEFINE f == [d \in Dims |-> Weight[d] * points[d]]
           g == [d \in Dims |-> Scale * Weight[d]]
           total == Sum(Weight, Dims)
<1>1. \A d \in Dims : f[d] \in Int /\ g[d] \in Int /\ f[d] <= g[d]
  <2> SUFFICES ASSUME NEW d \in Dims PROVE f[d] \in Int /\ g[d] \in Int /\ f[d] <= g[d]
    OBVIOUS
  <2>1. Weight[d] \in Nat /\ points[d] \in Nat /\ points[d] <= Scale /\ Scale \in Nat
    BY RubricAssumption
  <2>2. Weight[d] * points[d] <= Weight[d] * Scale
    BY <2>1
  <2> QED BY <2>1, <2>2
<1>2. \A d \in Dims : Weight[d] \in Int /\ g[d] = Scale * Weight[d] + 0 * Weight[d]
  BY RubricAssumption
<1>3. total \in Nat \ {0} /\ Scale \in Nat \ {0}
  BY RubricAssumption, SumPositive DEF Sum
<1>4. Full(1) = 1 * Scale * Scale * total
  BY RubricAssumption DEF Full, SumFunction, Sum
<1> HIDE DEF f, g
<1>5. Sum(f, Dims) <= Sum(g, Dims) /\ Sum(f, Dims) \in Int
  BY <1>1, RubricAssumption, SumMonotone, SumInt DEF Sum
<1>6. Sum(g, Dims) = Scale * total + 0 * total
  BY <1>2, RubricAssumption, SumLinear DEF Sum
<1> HIDE DEF total
<1>7. Scale * total <= 1 * Scale * Scale * total
  BY <1>3
<1>8. Weighted(points) = Sum(f, Dims)
  BY DEF Weighted, f
<1> HIDE DEF Sum
<1>9. Sum(g, Dims) = Scale * total /\ Scale * total \in Int /\ 1 * Scale * Scale * total \in Int
  BY <1>3, <1>6
<1> QED BY <1>4, <1>5, <1>7, <1>8, <1>9

LEMMA PointsOfFloor ==
  ASSUME NEW given \in Seq(Replies), NEW d \in Dims,
         \A i \in DOMAIN given : 0 <= given[i].dims[d].n
  PROVE  0 <= PointsOf(given, d)
<1> DEFINE f == [i \in DOMAIN given |-> given[i].dims[d].n]
           zero == [i \in DOMAIN given |-> 0]
<1>1. IsFiniteSet(DOMAIN given)
  <2>1. DOMAIN given = 1..Len(given) /\ Len(given) \in Int
    OBVIOUS
  <2> QED BY <2>1, FS_Interval
<1>2. \A i \in DOMAIN given : zero[i] \in Int /\ f[i] \in Int /\ zero[i] <= f[i]
  BY AnswerPoints
<1>3. \A i \in DOMAIN given : zero[i] = 0
  OBVIOUS
<1>4. DOMAIN f = DOMAIN given
  OBVIOUS
<1> HIDE DEF f, zero
<1>5. SumFunctionOnSet(zero, DOMAIN given) <= SumFunctionOnSet(f, DOMAIN given)
  BY <1>1, <1>2, SumMonotone
<1>6. SumFunctionOnSet(zero, DOMAIN given) = 0
  BY <1>1, <1>3, SumZero
<1> QED BY <1>4, <1>5, <1>6 DEF PointsOf, SumFunction, f

LEMMA PointsOfZero ==
  ASSUME NEW given \in Seq(Replies), NEW d \in Dims,
         \A i \in DOMAIN given : given[i].dims[d].n = 0
  PROVE  PointsOf(given, d) = 0
<1> DEFINE f == [i \in DOMAIN given |-> given[i].dims[d].n]
<1>1. IsFiniteSet(DOMAIN given)
  <2>1. DOMAIN given = 1..Len(given) /\ Len(given) \in Int
    OBVIOUS
  <2> QED BY <2>1, FS_Interval
<1>2. DOMAIN f = DOMAIN given /\ \A i \in DOMAIN given : f[i] = 0
  OBVIOUS
<1> HIDE DEF f
<1>3. SumFunctionOnSet(f, DOMAIN given) = 0
  BY <1>1, <1>2, SumZero
<1> QED BY <1>2, <1>3 DEF PointsOf, SumFunction, f

LEMMA GradedFloor ==
  ASSUME NEW points, \A d \in Dims : points[d] \in Int /\ 0 <= points[d], NEW n \in Nat \ {0}
  PROVE  0 <= Graded(points, n).num
<1>1. 0 <= Weighted(points) /\ Weighted(points) \in Int /\ Full(n) \in Nat
  BY WeightedFloor, WeightedInt, FullIsPositive
<1> QED BY <1>1, GradedOf

LEMMA OnceFloor ==
  ASSUME NEW a \in Replies, \A d \in Dims : 0 <= a.dims[d].n
  PROVE  0 <= ScoreOnce(a).num
<1> DEFINE points == PointsIn(a)
<1>1. \A d \in Dims : points[d] \in Int /\ 0 <= points[d]
  BY AnswerPoints DEF PointsIn
<1>2. ScoreOnce(a) = NoResult \/ ScoreOnce(a) = Graded(points, 1)
  BY DEF ScoreOnce, PointsIn
<1> HIDE DEF points
<1>3. 0 <= Graded(points, 1).num
  BY <1>1, GradedFloor
<1> QED BY <1>2, <1>3 DEF NoResult

LEMMA RoundsFloor ==
  ASSUME NEW given \in Seq(Replies), Len(given) # 0,
         \A i \in DOMAIN given, d \in Dims : 0 <= given[i].dims[d].n
  PROVE  0 <= ScoreRounds(given).num
<1> DEFINE points == [d \in Dims |-> PointsOf(given, d)]
<1>1. \A d \in Dims : points[d] \in Int /\ 0 <= points[d]
  BY PointsOfInt, PointsOfFloor
<1>2. ScoreRounds(given) = NoResult \/ ScoreRounds(given) = Graded(points, Len(given))
  BY DEF ScoreRounds
<1> HIDE DEF points
<1>3. Len(given) \in Nat \ {0}
  OBVIOUS
<1>4. 0 <= Graded(points, Len(given)).num
  BY <1>1, <1>3, GradedFloor
<1> QED BY <1>2, <1>4 DEF NoResult

(* Rounds that all failed do not pass.                                     *)
LEMMA RoundsRefused ==
  ASSUME NEW given \in Seq(Replies), Len(given) # 0, \A i \in DOMAIN given : ~given[i].ok
  PROVE  ~ScoreRounds(given).passed
<1> DEFINE points == [d \in Dims |-> PointsOf(given, d)]
<1>1. \A i \in DOMAIN given : given[i] \in Replies
  OBVIOUS
<1>2. \A d \in Dims : points[d] = 0
  BY <1>1, AnswerPoints, PointsOfZero
<1>3. ScoreRounds(given) = NoResult \/ ScoreRounds(given) = Graded(points, Len(given))
  BY DEF ScoreRounds
<1> HIDE DEF points
<1>4. Weighted(points) = 0 /\ Full(Len(given)) \in Nat \ {0}
  BY <1>2, WeightedZero, FullIsPositive
<1>5. ~Graded(points, Len(given)).passed
  <2> DEFINE full == Full(Len(given))
             num == IF 0 > full THEN full ELSE 0
             passes == 2 * num >= full
  <2>1. Graded(points, Len(given)) = [num |-> num, den |-> full, passed |-> passes,
                                      winner |-> "tie", failed |-> FALSE]
    BY <1>4, GradedOf
  <2>2. ~passes
    BY <1>4
  <2> HIDE DEF num, full, passes
  <2>3. Graded(points, Len(given)).passed = passes
    BY <2>1
  <2> QED BY <2>2, <2>3
<1>6. ~NoResult.passed
  BY DEF NoResult
<1> QED BY <1>3, <1>5, <1>6

-----------------------------------------------------------------------------
LEMMA PassesAreAnswered == IInv => PassIsTheJudges
<1> SUFFICES ASSUME IInv, result.passed PROVE PassIsTheJudges
  BY DEF PassIsTheJudges
<1>1. result # NoResult /\ result # TieResult
  BY DEF NoResult, TieResult
<1>2. /\ setup = "ready" /\ ~looped /\ Len(answers) = rounds
      /\ result = IF kind = "judge" THEN Judging ELSE Compared(answers[1])
  BY <1>1 DEF IInv, CallInv, Outcome
<1>3. CASE kind = "judge"
  <2>1. answers \in Seq(Replies) /\ rounds \in Nat \ {0}
    BY <1>3 DEF IInv, TypeOK
  <2>2. \E i \in DOMAIN answers : answers[i].ok
    <3> SUFFICES ASSUME \A i \in DOMAIN answers : ~answers[i].ok PROVE FALSE
      OBVIOUS
    <3>1. ~ScoreRounds(answers).passed
      BY <1>2, <2>1, RoundsRefused
    <3>2. rounds = 1 => ScoreOnce(answers[1]) = NoResult
      BY <1>2, <2>1 DEF ScoreOnce
    <3> QED BY <1>1, <1>2, <1>3, <3>1, <3>2 DEF Judging
  <2> QED BY <1>2, <1>3, <2>2 DEF PassIsTheJudges
<1>4. CASE kind = "pairwise"
  <2>1. answers \in Seq(Verdicts) /\ Len(answers) = 1
    BY <1>2, <1>4 DEF IInv, TypeOK, CallInv
  <2>2. result = Compared(answers[1]) /\ 1 \in DOMAIN answers
    BY <1>2, <1>4, <2>1
  <2>3. /\ answers[1].ok /\ answers[1].winner \in {"a", "b"}
        /\ result.winner = answers[1].winner
    BY <1>1, <2>2 DEF Compared
  <2> QED BY <1>2, <1>4, <2>2, <2>3 DEF PassIsTheJudges
<1> QED BY <1>3, <1>4 DEF IInv, TypeOK

LEMMA ScoresAreInRange == IInv => ScoreInRange
<1> SUFFICES ASSUME IInv PROVE ScoreInRange
  OBVIOUS
<1>1. CASE result \in {NoResult, TieResult}
  BY <1>1 DEF ScoreInRange, NoResult, TieResult
<1>2. CASE pc = "done" /\ answers # <<>> /\ kind = "judge"
  <2>1. answers \in Seq(Replies) /\ Len(answers) # 0 /\ answers[1] \in Replies
    BY <1>2 DEF IInv, TypeOK
  <2>2. result = Judging
    BY <1>2 DEF IInv, CallInv, Outcome
  <2>3. result.num \in Int /\ result.num <= result.den
    BY <2>1, <2>2, OnceScaled, RoundsScaled DEF Judging, Scaled, ResultType
  <2>4. ASSUME \A i \in DOMAIN answers, d \in Dims : 0 <= answers[i].dims[d].n
        PROVE  0 <= result.num
    <3>1. 0 <= ScoreRounds(answers).num
      BY <2>1, <2>4, RoundsFloor
    <3>2. 0 <= ScoreOnce(answers[1]).num
      BY <2>1, <2>4, OnceFloor
    <3> QED BY <2>2, <3>1, <3>2 DEF Judging
  <2>5. \A i \in DOMAIN answers, d \in Dims : answers[i].dims[d].n \in Int
    BY <2>1, AnswerPoints
  <2> QED BY <1>2, <2>3, <2>4, <2>5 DEF ScoreInRange
<1>3. CASE pc = "done" /\ answers # <<>> /\ kind = "pairwise"
  <2>1. answers[1] \in Verdicts /\ result = Compared(answers[1])
    BY <1>3 DEF IInv, TypeOK, CallInv, Outcome
  <2>2. result.num \in Int /\ result.num <= result.den
    BY <2>1, ComparedScaled DEF Scaled, ResultType
  <2>3. 0 <= result.num
    <3>1. \A n \in Int : 0 <= Cut(n)
      BY RubricAssumption DEF Cut
    <3>2. answers[1].n \in Int
      BY <2>1, VerdictPoints
    <3> QED BY <2>1, <3>1, <3>2 DEF Compared, TieResult
  <2> QED BY <2>2, <2>3 DEF ScoreInRange
<1> QED BY <1>1, <1>2, <1>3 DEF IInv, TypeOK, CallInv, Outcome

-----------------------------------------------------------------------------
(* The average of the rounds: the table of weighted points, a row a round  *)
(* and a column a dimension, has one sum.                                  *)
LEMMA OnceIsWeighted ==
  ASSUME NEW a \in Replies, InScale(a)
  PROVE  /\ ScoreOnce(a).num = Weighted(PointsIn(a))
         /\ Weighted(PointsIn(a)) <= Full(1) /\ Weighted(PointsIn(a)) \in Int
         /\ ScoreOnce(a).den = Full(1) \/ Weighted(PointsIn(a)) = 0
<1> DEFINE points == PointsIn(a)
<1>1. \A d \in Dims : points[d] \in 0..Scale /\ points[d] \in Int
  BY RubricAssumption DEF InScale, PointsIn
<1>2. ~a.ok => \A d \in Dims : points[d] = 0
  BY AnswerPoints DEF PointsIn
<1>3. ~a.ok => ScoreOnce(a) = NoResult
  BY DEF ScoreOnce
<1>4. a.ok => ScoreOnce(a) = Graded(points, 1)
  BY DEF ScoreOnce, InScale, PointsIn
<1> HIDE DEF points
<1>5. Weighted(points) <= Full(1) /\ Weighted(points) \in Int /\ Full(1) \in Nat
  BY <1>1, WeightedCeiling, WeightedInt, FullIsPositive
<1>6. Graded(points, 1).num = Weighted(points) /\ Graded(points, 1).den = Full(1)
  BY <1>5, GradedOf
<1>7. ~a.ok => Weighted(points) = 0
  BY <1>2, WeightedZero
<1>8. CASE a.ok
  BY <1>4, <1>5, <1>6, <1>8 DEF points
<1>9. CASE ~a.ok
  BY <1>3, <1>5, <1>7, <1>9 DEF points, NoResult
<1> QED BY <1>8, <1>9

LEMMA RoundsWeigh ==
  ASSUME NEW given \in Seq(Replies)
  PROVE  Weighted([d \in Dims |-> PointsOf(given, d)]) =
           Sum([i \in 1..Len(given) |-> Weighted(PointsIn(given[i]))], 1..Len(given))
<1> DEFINE n == Len(given)
           f == [k \in 1..n |-> [d \in Dims |-> Weight[d] * given[k].dims[d].n]]
<1>1. n \in Nat /\ DOMAIN given = 1..n /\ IsFiniteSet(1..n)
  <2>1. n \in Nat /\ DOMAIN given = 1..n
    OBVIOUS
  <2> QED BY <2>1, FS_Interval
<1>2. \A k \in 1..n : \A d \in Dims : given[k].dims[d].n \in Int /\ Weight[d] \in Int
  BY <1>1, AnswerPoints, RubricAssumption
<1>3. \A k \in 1..n : \A d \in Dims : f[k][d] \in Int
  BY <1>2
<1>4. ASSUME NEW k \in 1..n PROVE SumFunctionOnSet(f[k], Dims) = Weighted(PointsIn(given[k]))
  <2>1. f[k] = [d \in Dims |-> Weight[d] * PointsIn(given[k])[d]]
    BY DEF PointsIn
  <2> HIDE DEF f
  <2> QED BY <2>1 DEF Weighted, Sum
<1>5. ASSUME NEW d \in Dims
      PROVE  SumFunctionOnSet([k \in 1..n |-> f[k][d]], 1..n) = Weight[d] * PointsOf(given, d)
  <2> DEFINE c == [k \in 1..n |-> f[k][d]]
             t == [k \in DOMAIN given |-> given[k].dims[d].n]
             w == Weight[d]
  <2>1. w \in Int /\ \A k \in 1..n : t[k] \in Int /\ c[k] = w * t[k]
    BY <1>1, <1>2, RubricAssumption
  <2>2. PointsOf(given, d) = SumFunctionOnSet(t, 1..n)
    BY <1>1 DEF PointsOf, SumFunction
  <2> HIDE DEF c, t, w, f, n
  <2>3. SumFunctionOnSet(c, 1..n) = w * SumFunctionOnSet(t, 1..n)
    BY <1>1, <2>1, SumTimes
  <2> QED BY <2>2, <2>3 DEF c, w
<1> HIDE DEF f, n
<1>6. SumFunctionOnSet([k \in 1..n |-> SumFunctionOnSet(f[k], Dims)], 1..n) =
      SumFunctionOnSet([d \in Dims |-> SumFunctionOnSet([k \in 1..n |-> f[k][d]], 1..n)], Dims)
  BY <1>1, <1>3, RubricAssumption, SumSwap
<1>7. [k \in 1..n |-> SumFunctionOnSet(f[k], Dims)] =
      [k \in 1..n |-> Weighted(PointsIn(given[k]))]
  BY <1>4
<1>8. [d \in Dims |-> SumFunctionOnSet([k \in 1..n |-> f[k][d]], 1..n)] =
      [d \in Dims |-> Weight[d] * PointsOf(given, d)]
  BY <1>5
<1> DEFINE points == [d \in Dims |-> PointsOf(given, d)]
<1>9. [d \in Dims |-> Weight[d] * PointsOf(given, d)] = [d \in Dims |-> Weight[d] * points[d]]
  OBVIOUS
<1>10. Weighted(points) = SumFunctionOnSet([d \in Dims |-> Weight[d] * PointsOf(given, d)], Dims)
  BY <1>9 DEF Weighted, Sum
<1> QED BY <1>6, <1>7, <1>8, <1>10 DEF n, Sum

LEMMA RoundsAreAveraged == IInv => RoundsAverage
<1> DEFINE n == Len(answers)
           full == Full(1)
           once == [i \in DOMAIN answers |-> ScoreOnce(answers[i]).num]
           w == [i \in 1..n |-> Weighted(PointsIn(answers[i]))]
           points == [d \in Dims |-> PointsOf(answers, d)]
           total == Sum(w, 1..n)
           sum == Sum(once, 1..n)
<1> SUFFICES ASSUME IInv, Judgement, \A i \in DOMAIN answers : InScale(answers[i])
             PROVE  result.num * rounds * full = result.den * SumFunction(once)
  BY DEF RoundsAverage
<1>1. /\ answers \in Seq(Replies) /\ n \in Nat \ {0} /\ DOMAIN answers = 1..n
      /\ n = rounds /\ result = Judging
  BY DEF IInv, TypeOK, CallInv, Outcome, Judgement
<1>2. IsFiniteSet(1..n)
  BY <1>1, FS_Interval
<1>3. full \in Nat \ {0}
  BY FullIsPositive
<1>4. ASSUME NEW i \in 1..n
      PROVE  /\ once[i] = w[i] /\ w[i] \in Int /\ w[i] <= full
             /\ ScoreOnce(answers[i]).den = full \/ w[i] = 0
  <2>1. answers[i] \in Replies /\ InScale(answers[i]) /\ i \in DOMAIN answers
    BY <1>1
  <2> QED BY <2>1, OnceIsWeighted
<1>5. SumFunction(once) = sum
  <2>1. DOMAIN once = 1..n
    BY <1>1
  <2> QED BY <2>1 DEF SumFunction, Sum
<1>6. Weighted(points) = total
  BY <1>1, RoundsWeigh
<1>7. ScoreRounds(answers) = Graded(points, n)
  <2>1. \A i \in DOMAIN answers : ~Unscored(answers[i])
    BY DEF InScale, Unscored
  <2> QED BY <2>1 DEF ScoreRounds
<1>8. Judging = IF n = 1 THEN ScoreOnce(answers[1]) ELSE Graded(points, n)
  BY <1>1, <1>7 DEF Judging
<1>9. n = 1 => ScoreOnce(answers[1]).num = w[1]
  BY <1>1, <1>4
<1> HIDE DEF once, w, points, full
<1>10. sum = total /\ total \in Int /\ total <= n * full
  <2>1. \A i \in 1..n : w[i] \in Int /\ once[i] = w[i] /\ w[i] <= full
    BY <1>4
  <2> QED BY <1>1, <1>2, <1>3, <2>1, SumEqual, SumInt, SumBound DEF Sum
<1>11. CASE n = 1
  <2>1. 1..0 = {} /\ 0 \in Nat /\ 0 + 1 = 1
    OBVIOUS
  <2>2. total = w[1]
    <3>1. 1 \in 1..n /\ (1..n) \ {1} = {}
      BY <1>11
    <3>2. \A i \in 1..n : w[i] \in Int
      BY <1>4
    <3>3. total = w[1] + Sum(w, {})
      BY <1>2, <3>1, <3>2, SumRemove DEF Sum
    <3>4. Sum(w, {}) = 0
      BY SumEmpty DEF Sum
    <3> HIDE DEF total
    <3> QED BY <3>1, <3>2, <3>3, <3>4
  <2>3. result = ScoreOnce(answers[1])
    BY <1>1, <1>8, <1>11
  <2>4. ScoreOnce(answers[1]).den = full \/ total = 0
    BY <1>4, <1>11, <2>2
  <2>5. result.num = total /\ (result.den = full \/ total = 0) /\ result.den \in Int
    BY <1>9, <1>11, <2>2, <2>3, <2>4 DEF IInv, TypeOK
  <2> HIDE DEF total, sum
  <2> QED BY <1>1, <1>3, <1>5, <1>10, <1>11, <2>5
<1>12. CASE n # 1
  <2>1. Full(n) = n * full
    BY <1>1, FullOfRounds DEF full
  <2>2. Graded(points, n).num = total /\ Graded(points, n).den = n * full
    <3>1. ~(Weighted(points) > Full(n))
      <4>1. n * full \in Int
        BY <1>1, <1>3
      <4> HIDE DEF total
      <4> QED BY <1>6, <1>10, <2>1, <4>1
    <3> QED BY <1>6, <2>1, <3>1, GradedOf
  <2>3. result = Graded(points, n)
    BY <1>1, <1>8, <1>12
  <2> HIDE DEF total, sum
  <2>4. total * n * full = (n * full) * total
    BY <1>1, <1>3, <1>10
  <2> QED BY <1>1, <1>5, <1>10, <2>2, <2>3, <2>4
<1> QED BY <1>11, <1>12

-----------------------------------------------------------------------------
(* At every moment of a call the answers are replies of its kind of judge, *)
(* no more than its rounds, and the result is a fraction with a positive   *)
(* denominator: what score returns can be divided and compared.            *)
THEOREM TypeCorrect == Spec => []TypeOK
<1>1. IInv => TypeOK
  BY DEF IInv
<1> QED BY InitIInv, StepIInv, <1>1, PTL DEF Spec

(* The score of any number of rounds is the average of what each round     *)
(* alone would score, for every rubric and all its weights, while the      *)
(* judge keeps to the scale; and whatever it says the score is at most one,*)
(* and below zero only when the judge gave negative points.                *)
THEOREM ScoresAreRounds == Spec => []ScoreIsTheRounds
<1>1. IInv => ScoreIsTheRounds
  BY RoundsAreAveraged, ScoresAreInRange DEF ScoreIsTheRounds
<1> QED BY InitIInv, StepIInv, <1>1, PTL DEF Spec

(* A pass is the judge's: it comes after every round was asked, from at    *)
(* least one answer that could be read, and a comparison passes for the    *)
(* winner the judge named.                                                 *)
THEOREM PassesAreJudged == Spec => []PassIsTheJudges
<1> QED BY InitIInv, StepIInv, PassesAreAnswered, PTL DEF Spec
=============================================================================
