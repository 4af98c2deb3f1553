------------------------- MODULE TaskExecutionProofs -------------------------
(***************************************************************************)
(* Proofs about TaskExecution for any tasks, scorers and number of tests.  *)
(* A text task and a code task take paths that do not meet before "build"; *)
(* the invariant says, for each step of the coroutine, what is already     *)
(* known of the scores and of the dict that CodeTaskRunner returned.       *)
(***************************************************************************)
EXTENDS TaskExecution, FiniteSetTheorems, SequenceTheorems, TLAPS

CodeType == [score : Grades, failed : Nat, exit_code : {0, 1}, status : CodeStatuses]

(* Which path a step belongs to, and what the path has produced there.     *)
PathInv ==
  /\ pc # "done" => result = None
  /\ pc \in {"call", "validate", "code", "tests"} => tests.outcomes = <<>>
  /\ pc \in {"validate", "primary", "safety"} => ~IsCode(task.kind)
  /\ pc \in {"code", "tests", "fallback"} => IsCode(task.kind)
  /\ pc = "fallback" \/ (pc \in {"secondary", "build"} /\ IsCode(task.kind)) => code \in CodeType
  /\ \/ pc \in {"call", "validate", "primary", "safety", "code", "tests"}
     \/ pc = "secondary" /\ ~IsCode(task.kind)
     => code = None

(* The secondary and the safety score come after the primary one.          *)
BlockInv ==
  /\ pc \in {"call", "validate", "primary", "code", "tests", "fallback"} => details = {}
  /\ pc \notin {"build", "done"} => safety = None
  /\ pc \in {"secondary", "safety"} /\ ~IsCode(task.kind) /\ task.primary # NoScorer =>
       score # None
  /\ pc = "build" /\ ~IsCode(task.kind) /\ task.primary # NoScorer /\ score = None =>
       details = {} /\ safety = None

(* The grade of the tests alone is the one the lines of pytest earned.     *)
CodeInv ==
  /\ IsCode(task.kind) /\ task.primary \in {UnitTest, NoScorer}
  /\ pc \in {"fallback", "secondary", "build"}
  => Earned(tests, code.score)

IInv ==
  /\ TypeOK /\ PathInv /\ BlockInv /\ CodeInv
  /\ ResultContract /\ SecondaryNeedsPrimary /\ UnitScoreIsEarned

-----------------------------------------------------------------------------
(* What is counted of a run of pytest.  A full grade needs a line that     *)
(* passed and no other line; no line that passed is a grade of zero; and   *)
(* where all lines are whole, the lines that passed are the outcomes.      *)
LEMMA LinesAreCounted ==
  ASSUME NEW run \in TestRuns
  PROVE  /\ \A word : IsFiniteSet(Lines(run, word)) /\ Cardinality(Lines(run, word)) \in Nat
         /\ IsFiniteSet(Headings(run)) /\ Cardinality(Headings(run)) \in Nat
<1>1. PICK n \in Nat : run.outcomes \in [1..n -> Outcomes]
  BY DEF TestRuns, Seq
<1>2. IsFiniteSet(1..n) /\ DOMAIN run.outcomes = 1..n
  BY <1>1, FS_Interval
<1>3. \A word : Lines(run, word) \in SUBSET (1..n)
  BY <1>2 DEF Lines
<1>4. Headings(run) \in SUBSET (1..n)
  BY <1>2 DEF Headings
<1> QED BY <1>2, <1>3, <1>4, FS_Subset, FS_CardinalityType

LEMMA CountsAreTyped ==
  ASSUME NEW run \in TestRuns
  PROVE  /\ Passed(run) \in Nat /\ Failed(run) \in Nat /\ Total(run) \in Nat
         /\ Passed(run) = 0 <=> Lines(run, "PASSED") = {}
         /\ Passed(run) = Total(run) =>
              /\ Lines(run, "FAILED") = {} /\ Lines(run, "ERROR") = {}
              /\ Lines(run, "SKIPPED") = {} /\ Headings(run) = {}
         /\ (/\ Lines(run, "FAILED") = {} /\ Lines(run, "ERROR") = {}
             /\ Lines(run, "SKIPPED") = {} /\ Headings(run) = {})
            => Passed(run) = Total(run)
<1> DEFINE P == Cardinality(Lines(run, "PASSED"))  F == Cardinality(Lines(run, "FAILED"))
           E == Cardinality(Lines(run, "ERROR"))   K == Cardinality(Lines(run, "SKIPPED"))
           H == Cardinality(Headings(run))
<1>1. P \in Nat /\ F \in Nat /\ E \in Nat /\ K \in Nat /\ H \in Nat
  BY LinesAreCounted
<1>2. /\ P = 0 <=> Lines(run, "PASSED") = {}
      /\ F = 0 <=> Lines(run, "FAILED") = {}
      /\ E = 0 <=> Lines(run, "ERROR") = {}
      /\ K = 0 <=> Lines(run, "SKIPPED") = {}
      /\ H = 0 <=> Headings(run) = {}
  BY LinesAreCounted, FS_EmptySet
<1>3. Passed(run) = P /\ Failed(run) = F + E + H /\ Total(run) = P + (F + E + H) + K
  BY DEF Passed, Failed, Total
<1> HIDE DEF P, F, E, K, H
<1>4. P = P + (F + E + H) + K <=> (F = 0 /\ E = 0 /\ H = 0 /\ K = 0)
  BY <1>1
<1> QED BY <1>1, <1>2, <1>3, <1>4

LEMMA GradeIsEarned ==
  ASSUME NEW run \in TestRuns
  PROVE  /\ Failed(run) \in Nat
         /\ Grade(Passed(run), Total(run)) \in Grades
         /\ Earned(run, Grade(Passed(run), Total(run)))
<1> DEFINE said == run.outcomes
           real == {i \in DOMAIN said : said[i].line # "printed"}
           grade == Grade(Passed(run), Total(run))
<1>1. /\ grade = "full" => /\ Lines(run, "PASSED") # {} /\ Lines(run, "FAILED") = {}
                           /\ Lines(run, "ERROR") = {} /\ Lines(run, "SKIPPED") = {}
                           /\ Headings(run) = {}
      /\ grade = "zero" <=> Lines(run, "PASSED") = {}
      /\ (/\ Lines(run, "PASSED") # {} /\ Lines(run, "FAILED") = {} /\ Lines(run, "ERROR") = {}
          /\ Lines(run, "SKIPPED") = {} /\ Headings(run) = {}) => grade = "full"
  BY CountsAreTyped DEF Grade
<1>2. \A i \in DOMAIN said : said[i].word \in {"PASSED", "FAILED", "SKIPPED", "ERROR"}
  <2>1. PICK n \in Nat : said \in [1..n -> Outcomes]
    BY DEF TestRuns, Seq
  <2>2. \A i \in DOMAIN said : said[i] \in Outcomes
    BY <2>1
  <2> QED BY <2>2 DEF Outcomes
<1> HIDE DEF grade
<1>3. grade = "full" => FullIsEarned(run, said, real)
  BY <1>1, <1>2 DEF FullIsEarned, Lines, Headings
<1>4. grade = "zero" => ZeroIsEarned(said)
  BY <1>1 DEF ZeroIsEarned, Lines
<1>5. ASSUME \A i \in DOMAIN said : said[i].line = "whole"
      PROVE  grade = "full" <=> AllPassed(said)
  <2>1. ASSUME AllPassed(said) PROVE grade = "full"
    <3>1. /\ Lines(run, "PASSED") # {} /\ Lines(run, "FAILED") = {} /\ Lines(run, "ERROR") = {}
          /\ Lines(run, "SKIPPED") = {} /\ Headings(run) = {}
      BY <1>5, <2>1 DEF AllPassed, Lines, Headings
    <3> QED BY <1>1, <3>1
  <2>2. ASSUME grade = "full" PROVE AllPassed(said)
    BY <1>1, <1>2, <1>5, <2>2 DEF AllPassed, Lines
  <2> QED BY <2>1, <2>2
<1>6. grade \in Grades /\ Failed(run) \in Nat
  BY CountsAreTyped DEF grade, Grade, Grades
<1> QED BY <1>3, <1>4, <1>5, <1>6 DEF Earned, grade

(* Where there is no output, no grade but the full one is ruled out.       *)
LEMMA NothingIsEarned ==
  ASSUME NEW run, run.outcomes = <<>>, NEW grade, grade # "full"
  PROVE  Earned(run, grade)
BY DEF Earned, ZeroIsEarned, AllPassed

LEMMA TaskIsTyped ==
  ASSUME task \in Tasks
  PROVE  task.kind \in TaskKinds /\ task.secondary \in Seq(Scorers)
BY TasksAssumption DEF TaskType

(* The dict CodeTaskRunner returns after pytest ran.                       *)
LEMMA TestsGiveDict ==
  ASSUME RunTests
  PROVE  code' \in CodeType /\ tests' \in TestRuns /\ Earned(tests', code'.score)
<1>1. PICK n \in 0..MaxLines : \E outcomes \in [1..n -> Outcomes], ended \in BOOLEAN :
        tests' = [outcomes |-> outcomes, ended |-> ended]
  BY DEF RunTests
<1>2. n \in Nat
  BY MaxLinesAssumption
<1>3. tests' \in TestRuns
  BY <1>1, <1>2 DEF TestRuns
<1>4. /\ Failed(tests') \in Nat /\ Grade(Passed(tests'), Total(tests')) \in Grades
      /\ Earned(tests', Grade(Passed(tests'), Total(tests')))
  BY <1>3, GradeIsEarned
<1>5. code' \in CodeType /\ code'.score = Grade(Passed(tests'), Total(tests'))
  BY <1>4 DEF RunTests, CodeType, CodeStatuses
<1> QED BY <1>3, <1>4, <1>5

LEMMA InitIInv == Init => IInv
<1> SUFFICES ASSUME Init PROVE IInv
  OBVIOUS
<1>1. <<>> \in Seq(Scorers) /\ <<>> \in Seq(Outcomes)
  BY EmptySeq
<1>2. TypeOK
  BY <1>1 DEF Init, TypeOK, TestRuns
<1>3. PathInv /\ BlockInv /\ CodeInv
  BY DEF Init, PathInv, BlockInv, CodeInv
<1>4. ResultContract /\ SecondaryNeedsPrimary /\ UnitScoreIsEarned
  BY DEF Init, ResultContract, SecondaryNeedsPrimary, UnitScoreIsEarned
<1> QED BY <1>2, <1>3, <1>4 DEF IInv

(* Every step keeps the types.                                             *)
LEMMA StepTypeOK == IInv /\ [Next]_vars => TypeOK'
<1> SUFFICES ASSUME IInv, [Next]_vars PROVE TypeOK'
  OBVIOUS
<1> USE DEF IInv, TypeOK
<1>1. CASE ChatComplete
  BY <1>1 DEF ChatComplete
<1>2. CASE Raise
  BY <1>2 DEF Raise, Statuses
<1>3. CASE RunValidation
  BY <1>3 DEF RunValidation
<1>4. CASE ScorePrimary
  BY <1>4, TaskIsTyped DEF ScorePrimary
<1>5. CASE ScoreSecondary
  <2>1. CASE todo = <<>>
    BY <1>5, <2>1 DEF ScoreSecondary
  <2>2. CASE todo # <<>>
    <3>1. Head(todo) \in Scorers /\ Tail(todo) \in Seq(Scorers)
      BY <2>2, HeadTailProperties
    <3> QED BY <1>5, <2>2, <3>1 DEF ScoreSecondary
  <2> QED BY <2>1, <2>2
<1>6. CASE ScoreSafety
  BY <1>6 DEF ScoreSafety
<1>7. CASE RejectCode
  <2>1. code' \in CodeType
    BY <1>7 DEF RejectCode, Failure, CodeType, CodeStatuses, Grades
  <2> QED BY <1>7, <2>1 DEF RejectCode, CodeType
<1>8. CASE AcceptCode
  BY <1>8 DEF AcceptCode
<1>9. CASE RunTests
  BY <1>9, TestsGiveDict DEF RunTests, CodeType
<1>10. CASE FallbackScore
  <2>1. code \in CodeType
    BY <1>10 DEF PathInv, FallbackScore
  <2>2. code' \in CodeType
    BY <1>10, <2>1 DEF FallbackScore, CodeType
  <2> QED BY <1>10, <2>2, TaskIsTyped DEF FallbackScore, CodeType
<1>11. CASE BuildText
  BY <1>11 DEF BuildText, Statuses
<1>12. CASE BuildCode
  <2>1. code \in CodeType
    BY <1>12 DEF PathInv, BuildCode
  <2> QED BY <1>12, <2>1 DEF BuildCode, CodeType, Statuses
<1>13. CASE UNCHANGED vars
  BY <1>13 DEF vars
<1> QED BY <1>1, <1>2, <1>3, <1>4, <1>5, <1>6, <1>7, <1>8, <1>9, <1>10, <1>11, <1>12, <1>13
        DEF Next, Step, Done

(* No step leaves its path.                                                *)
LEMMA StepPathInv == IInv /\ [Next]_vars => PathInv'
<1> SUFFICES ASSUME IInv, [Next]_vars PROVE PathInv'
  OBVIOUS
<1> USE DEF IInv, PathInv
<1>1. CASE ChatComplete
  BY <1>1, TaskIsTyped DEF ChatComplete, TypeOK, IsCode, TaskKinds
<1>2. CASE Raise
  BY <1>2 DEF Raise
<1>3. CASE RunValidation
  BY <1>3 DEF RunValidation
<1>4. CASE ScorePrimary
  BY <1>4 DEF ScorePrimary
<1>5. CASE ScoreSecondary
  BY <1>5 DEF ScoreSecondary
<1>6. CASE ScoreSafety
  BY <1>6 DEF ScoreSafety
<1>7. CASE RejectCode
  <2>1. code' \in CodeType
    BY <1>7 DEF RejectCode, Failure, CodeType, CodeStatuses, Grades
  <2> QED BY <1>7, <2>1 DEF RejectCode
<1>8. CASE AcceptCode
  BY <1>8 DEF AcceptCode
<1>9. CASE RunTests
  <2>1. code' \in CodeType
    BY <1>9, TestsGiveDict
  <2> QED BY <1>9, <2>1 DEF RunTests
<1>10. CASE FallbackScore
  <2>1. code' \in CodeType
    BY <1>10 DEF FallbackScore, CodeType
  <2> QED BY <1>10, <2>1 DEF FallbackScore
<1>11. CASE BuildText
  BY <1>11 DEF BuildText
<1>12. CASE BuildCode
  BY <1>12 DEF BuildCode
<1>13. CASE UNCHANGED vars
  BY <1>13 DEF vars
<1> QED BY <1>1, <1>2, <1>3, <1>4, <1>5, <1>6, <1>7, <1>8, <1>9, <1>10, <1>11, <1>12, <1>13
        DEF Next, Step, Done

(* No score is there without the one it is scored after.                   *)
LEMMA StepBlockInv == IInv /\ [Next]_vars => BlockInv'
<1> SUFFICES ASSUME IInv, [Next]_vars PROVE BlockInv'
  OBVIOUS
<1> USE DEF IInv, BlockInv, PathInv
<1>1. CASE ChatComplete
  BY <1>1 DEF ChatComplete
<1>2. CASE Raise
  BY <1>2 DEF Raise
<1>3. CASE RunValidation
  BY <1>3 DEF RunValidation
<1>4. CASE ScorePrimary
  BY <1>4, ScorersAssumption DEF ScorePrimary
<1>5. CASE ScoreSecondary
  BY <1>5 DEF ScoreSecondary
<1>6. CASE ScoreSafety
  BY <1>6 DEF ScoreSafety
<1>7. CASE RejectCode
  BY <1>7 DEF RejectCode
<1>8. CASE AcceptCode
  BY <1>8 DEF AcceptCode
<1>9. CASE RunTests
  BY <1>9 DEF RunTests
<1>10. CASE FallbackScore
  BY <1>10 DEF FallbackScore
<1>11. CASE BuildText
  BY <1>11 DEF BuildText
<1>12. CASE BuildCode
  BY <1>12 DEF BuildCode
<1>13. CASE UNCHANGED vars
  BY <1>13 DEF vars
<1> QED BY <1>1, <1>2, <1>3, <1>4, <1>5, <1>6, <1>7, <1>8, <1>9, <1>10, <1>11, <1>12, <1>13
        DEF Next, Step, Done

(* Only pytest, or a scorer that is not unit_test, gives full marks.       *)
LEMMA StepCodeInv == IInv /\ [Next]_vars => CodeInv'
<1> SUFFICES ASSUME IInv, [Next]_vars PROVE CodeInv'
  OBVIOUS
<1> USE DEF IInv, CodeInv, PathInv
<1>1. CASE ChatComplete
  BY <1>1 DEF ChatComplete
<1>2. CASE Raise
  BY <1>2 DEF Raise
<1>3. CASE RunValidation
  BY <1>3 DEF RunValidation
<1>4. CASE ScorePrimary
  BY <1>4 DEF ScorePrimary
<1>5. CASE ScoreSecondary
  BY <1>5 DEF ScoreSecondary
<1>6. CASE ScoreSafety
  BY <1>6 DEF ScoreSafety
<1>7. CASE RejectCode
  <2>1. tests' = tests /\ tests.outcomes = <<>> /\ code'.score = "zero"
    BY <1>7 DEF RejectCode, Failure
  <2> QED BY <1>7, <2>1, NothingIsEarned
<1>8. CASE AcceptCode
  BY <1>8 DEF AcceptCode
<1>9. CASE RunTests
  <2>1. Earned(tests', code'.score)
    BY <1>9, TestsGiveDict
  <2> QED BY <1>9, <2>1 DEF RunTests
<1>10. CASE FallbackScore
  BY <1>10 DEF FallbackScore
<1>11. CASE BuildText
  BY <1>11 DEF BuildText
<1>12. CASE BuildCode
  BY <1>12 DEF BuildCode
<1>13. CASE UNCHANGED vars
  BY <1>13 DEF vars
<1> QED BY <1>1, <1>2, <1>3, <1>4, <1>5, <1>6, <1>7, <1>8, <1>9, <1>10, <1>11, <1>12, <1>13
        DEF Next, Step, Done

-----------------------------------------------------------------------------
(* The three invariants about the result itself.  Only a step to "done"    *)
(* makes one.                                                              *)
LEMMA StepResult ==
  IInv /\ [Next]_vars => (ResultContract /\ SecondaryNeedsPrimary /\ UnitScoreIsEarned)'
<1> SUFFICES ASSUME IInv, [Next]_vars
             PROVE (ResultContract /\ SecondaryNeedsPrimary /\ UnitScoreIsEarned)'
  OBVIOUS
<1> USE DEF IInv
<1>1. CASE Raise
  <2>1. /\ details = {} /\ safety = None /\ task' = task /\ tests' = tests
        /\ tests.outcomes = <<>>
    BY <1>1 DEF Raise, BlockInv, PathInv
  <2>2. /\ result'.details = {} /\ result'.safety = None /\ result'.score = None
        /\ result'.status = "error"
    BY <1>1, <2>1 DEF Raise, BlockInv
  <2>3. Earned(tests', result'.score)
    BY <2>1, <2>2, NothingIsEarned, ScorersAssumption DEF Grades
  <2> QED BY <2>1, <2>2, <2>3 DEF ResultContract, SecondaryNeedsPrimary,
          UnitScoreIsEarned, Results, Statuses
<1>2. CASE BuildText
  <2>1. /\ result'.details = details /\ result'.safety = safety /\ result'.score = score
        /\ result'.status = "success" /\ task' = task /\ ~IsCode(task.kind)
    BY <1>2 DEF BuildText
  <2>2. task.primary # NoScorer /\ score = None => details = {} /\ safety = None
    BY <1>2, <2>1 DEF BuildText, BlockInv
  <2> QED BY <2>1, <2>2 DEF TypeOK, ResultContract, SecondaryNeedsPrimary, UnitScoreIsEarned,
          Results, Statuses
<1>3. CASE BuildCode
  <2>1. code \in CodeType /\ task' = task /\ tests' = tests /\ IsCode(task.kind)
    BY <1>3 DEF BuildCode, PathInv
  <2>2. /\ result'.details = {} /\ result'.status \in Statuses
        /\ result'.score = code.score /\ result'.failed = code.failed
    BY <1>3, <2>1 DEF BuildCode, Statuses
  <2>3. task.primary \in {UnitTest, NoScorer} => Earned(tests, code.score)
    BY <1>3, <2>1 DEF BuildCode, CodeInv
  <2> QED BY <2>1, <2>2, <2>3 DEF ResultContract, SecondaryNeedsPrimary, UnitScoreIsEarned,
          Results
<1>4. ASSUME result' = result, task' = task, result # None => tests' = tests
      PROVE (ResultContract /\ SecondaryNeedsPrimary /\ UnitScoreIsEarned)'
  BY <1>4 DEF ResultContract, SecondaryNeedsPrimary, UnitScoreIsEarned
<1>5. CASE RunTests
  <2>1. result = None /\ result' = result /\ task' = task
    BY <1>5 DEF RunTests, PathInv
  <2> QED BY <1>4, <2>1
<1>6. ASSUME ChatComplete \/ RunValidation \/ ScorePrimary \/ ScoreSecondary \/ ScoreSafety
               \/ RejectCode \/ AcceptCode \/ FallbackScore \/ UNCHANGED vars
      PROVE result' = result /\ task' = task /\ tests' = tests
  BY <1>6 DEF ChatComplete, RunValidation, ScorePrimary, ScoreSecondary, ScoreSafety, RejectCode,
     AcceptCode, FallbackScore, vars
<1> QED BY <1>1, <1>2, <1>3, <1>4, <1>5, <1>6 DEF Next, Step, Done

LEMMA Invariance == Spec => []IInv
<1>1. Init => IInv
  BY InitIInv
<1>2. IInv /\ [Next]_vars => IInv'
  BY StepTypeOK, StepPathInv, StepBlockInv, StepCodeInv, StepResult DEF IInv
<1> QED BY <1>1, <1>2, PTL DEF Spec

(* Every variable of the coroutine keeps its type.                         *)
THEOREM TypeCorrect == Spec => []TypeOK
<1>1. IInv => TypeOK
  BY DEF IInv
<1> QED BY <1>1, Invariance, PTL

(* What run returns has the shape save_run stores: CliRun, which draws its *)
(* results from Results, stores nothing this module does not produce.      *)
THEOREM ResultsAreStorable == Spec => []ResultContract
<1>1. IInv => ResultContract
  BY DEF IInv
<1> QED BY <1>1, Invariance, PTL

(* No record of a text task has a secondary or a safety score beside a     *)
(* primary scorer that raised.                                             *)
THEOREM ScoresAreABlock == Spec => []SecondaryNeedsPrimary
<1>1. IInv => SecondaryNeedsPrimary
  BY DEF IInv
<1> QED BY <1>1, Invariance, PTL

(* For any number of outcomes, printed and broken lines among them: unit   *)
(* tests alone give full marks only where a line says PASSED, no whole     *)
(* line of pytest says otherwise and no error was reported, give zero only *)
(* where no line says PASSED, and grade an output without printed or       *)
(* broken lines by the real outcomes.                                      *)
THEOREM UnitScoresAreEarned == Spec => []UnitScoreIsEarned
<1>1. IInv => UnitScoreIsEarned
  BY DEF IInv
<1> QED BY <1>1, Invariance, PTL
=============================================================================
