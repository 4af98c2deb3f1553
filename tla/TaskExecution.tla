--------------------------- MODULE TaskExecution ---------------------------
(***************************************************************************)
(* One call of CompletionRunner.run(task, params): the model call, the     *)
(* validation command, the scorers, and for code tasks the detour through  *)
(* CodeTaskRunner.  The steps follow the coroutine; what the model, pytest,*)
(* git and the scorers answer is chosen by the environment.  Timing and    *)
(* token arithmetic are left out: no later step branches on them.          *)
(***************************************************************************)
EXTENDS RunResults, Sequences, FiniteSets, Naturals

CONSTANTS
  Tasks,            \* the tasks of the suite, records of TaskType
  UnitTest,         \* the scorer name "unit_test"
  CommandSafety,    \* the scorer name "command_safety"
  NoScorer,         \* scoring.primary is missing or ""
  None,             \* Python's None
  MaxLines          \* bound: outcome lines of one run of pytest

Grades == {"zero", "partial", "full"}      \* a score of 0, in between, 1

TaskType ==
  [kind : TaskKinds, primary : Scorers \cup {NoScorer},
   secondary : Seq(Scorers), validated : BOOLEAN, allowed : BOOLEAN]

ASSUME ScorersAssumption ==
  /\ {UnitTest, CommandSafety} \subseteq Scorers
  /\ NoScorer \notin Scorers
  /\ None \notin BOOLEAN /\ None \notin Grades
ASSUME TasksAssumption == Tasks \subseteq TaskType
ASSUME MaxLinesAssumption == MaxLines \in Nat

VARIABLES
  task,        \* the task being run
  pc,          \* the next step of the coroutine
  reply,       \* what chat_complete returned: "content", "empty" or "error"
  files,       \* files in the validation command's directory when it ran
  validation,  \* validation_passed
  score,       \* score_primary
  todo,        \* secondary scorers of the loop still to run
  details,     \* names in secondary_scores
  safety,      \* safety_score
  tests,       \* the outcomes of one run of pytest, real ones and printed ones
  code,        \* the dict CodeTaskRunner.run returned
  result       \* the RunResult

vars == <<task, pc, reply, files, validation, score, todo, details, safety,
          tests, code, result>>

(* One outcome in the output of pytest -v -s.  pytest reports the outcome  *)
(* of a test on a line of its own ("whole"), unless text the test printed  *)
(* stands between its name and its outcome ("broken"); a test whose set-up *)
(* or teardown fails, or a file that cannot be collected, is an "ERROR".   *)
(* "printed" is a line of the tested code's own that reads like one.       *)
(* ended: pytest lived to write its section of errors.                     *)
Outcomes == [word : {"PASSED", "FAILED", "SKIPPED", "ERROR"},
             line : {"whole", "broken", "printed"}]
TestRuns == [outcomes : Seq(Outcomes), ended : BOOLEAN]
CodeStatuses == {"valid_python", "syntax_error", "patch_applied",
                 "patch_failed", "error"}

TypeOK ==
  /\ task \in Tasks
  /\ pc \in {"call", "validate", "primary", "secondary", "safety", "code",
             "tests", "fallback", "build", "done"}
  /\ reply \in {"content", "empty", "error", None}
  /\ files \subseteq {"response"}
  /\ validation \in BOOLEAN \cup {None}
  /\ score \in Grades \cup {None}
  /\ todo \in Seq(Scorers)
  /\ details \subseteq Scorers
  /\ safety \in Grades \cup {None}
  /\ tests \in TestRuns
  /\ code = None \/ code \in [score : Grades, failed : Nat, exit_code : {0, 1},
                              status : CodeStatuses]
  /\ result = None \/
     result \in [status : Statuses, details : SUBSET Scorers,
                 score : Grades \cup {None}, safety : Grades \cup {None},
                 exit_code : {0, 1, None}, failed : Nat \cup {None}]

Init ==
  /\ task \in Tasks
  /\ pc = "call"
  /\ reply = None /\ files = {} /\ validation = None
  /\ score = None /\ todo = <<>> /\ details = {} /\ safety = None
  /\ tests = [outcomes |-> <<>>, ended |-> FALSE] /\ code = None /\ result = None

-----------------------------------------------------------------------------
(* chat_complete catches every exception of the API call and returns a     *)
(* dict; run reads only its content and usage.                             *)
ChatComplete ==
  /\ pc = "call"
  /\ reply' \in {"content", "empty", "error"}
  /\ pc' = IF IsCode(task.kind) THEN "code" ELSE "validate"
  /\ UNCHANGED <<task, files, validation, score, todo, details, safety, tests,
                 code, result>>

(* The outer except of run and of _run_code_task: building the messages,   *)
(* reading the usage or creating a temporary directory raised.             *)
Raise ==
  /\ pc \in {"call", "validate", "code"}
  /\ result' = [status |-> "error", details |-> {}, score |-> None,
                safety |-> safety, exit_code |-> None, failed |-> None]
  /\ pc' = "done"
  /\ UNCHANGED <<task, reply, files, validation, score, todo, details, safety,
                 tests, code>>

(* The command runs in a fresh directory that nothing was written to; one  *)
(* the allowlist refuses is reported as failed without running.            *)
RunValidation ==
  /\ pc = "validate"
  /\ files' = {}
  /\ IF ~task.validated THEN validation' = None
     ELSE IF ~task.allowed THEN validation' = FALSE
     ELSE validation' \in BOOLEAN
  /\ pc' = "primary"
  /\ UNCHANGED <<task, reply, score, todo, details, safety, tests, code, result>>

(* A primary scorer that raises takes the secondary scorers and the safety *)
(* scorer with it: one try encloses the three.                             *)
ScorePrimary_SecondariesAnyway ==
  /\ pc = "primary"
  /\ score' \in IF task.primary = NoScorer THEN {None} ELSE Grades \cup {None}
  /\ pc' = "secondary" /\ todo' = task.secondary
  /\ UNCHANGED <<task, reply, files, validation, details, safety, tests, code,
                 result>>

ScorePrimary ==
  /\ pc = "primary"
  /\ \/ /\ task.primary # NoScorer
        /\ score' \in Grades
        /\ pc' = "secondary" /\ todo' = task.secondary
     \/ /\ task.primary # NoScorer
        /\ pc' = "build" /\ UNCHANGED <<score, todo>>
     \/ /\ task.primary = NoScorer
        /\ pc' = "secondary" /\ todo' = task.secondary /\ UNCHANGED score
  /\ UNCHANGED <<task, reply, files, validation, details, safety, tests, code,
                 result>>

(* One round of the loop over the secondary scorers, of the text path and  *)
(* of the code path alike; a scorer that raises is skipped.                *)
ScoreSecondary_KeepsHead ==
  /\ pc = "secondary"
  /\ IF todo = <<>>
     THEN /\ pc' = IF IsCode(task.kind) THEN "build" ELSE "safety"
          /\ UNCHANGED details
     ELSE /\ details' \in {details, details \cup {Head(todo)}}
          /\ UNCHANGED pc
  /\ UNCHANGED <<task, reply, files, validation, score, todo, safety, tests,
                 code, result>>

ScoreSecondary ==
  /\ pc = "secondary"
  /\ IF todo = <<>>
     THEN /\ pc' = IF IsCode(task.kind) THEN "build" ELSE "safety"
          /\ UNCHANGED <<todo, details>>
     ELSE /\ todo' = Tail(todo)
          /\ details' \in {details, details \cup {Head(todo)}}
          /\ UNCHANGED pc
  /\ UNCHANGED <<task, reply, files, validation, score, safety, tests, code,
                 result>>

ScoreSafety ==
  /\ pc = "safety"
  /\ IF \E i \in DOMAIN task.secondary : task.secondary[i] = CommandSafety
     THEN safety' \in Grades \cup {None}
     ELSE UNCHANGED safety
  /\ pc' = "build"
  /\ UNCHANGED <<task, reply, files, validation, score, todo, details, tests,
                 code, result>>

-----------------------------------------------------------------------------
(* CodeTaskRunner.                                                         *)

Failure(why) == [score |-> "zero", failed |-> 0, exit_code |-> 1, status |-> why]

(* The generated code does not parse, the patch does not apply, or anything*)
(* inside the runner raised.  A patch is applied to an empty repository.   *)
RejectCode ==
  /\ pc = "code"
  /\ code' \in { Failure(why) : why \in
       IF task.kind = "patch_generation" THEN {"patch_failed", "error"}
       ELSE IF reply = "content" THEN {"syntax_error", "error"} ELSE {"error"} }
  /\ pc' = "fallback"
  /\ UNCHANGED <<task, reply, files, validation, score, todo, details, safety,
                 tests, result>>

(* An empty reply parses as Python; it does not apply as a patch.          *)
AcceptCode ==
  /\ pc = "code"
  /\ task.kind = "patch_generation" => reply = "content"
  /\ pc' = "tests"
  /\ UNCHANGED <<task, reply, files, validation, score, todo, details, safety,
                 tests, code, result>>

(* _parse_pytest_xml reads every line that is a word, blanks and an        *)
(* outcome: whole lines of pytest and printed ones alike.  The heading     *)
(* "____ ERROR at ..." of the section of errors reads like one as well, so *)
(* an error is counted there too, and there even if its line is broken.    *)
Lines(run, word) ==
  {i \in DOMAIN run.outcomes : run.outcomes[i].word = word /\ run.outcomes[i].line # "broken"}
Headings(run) ==
  {i \in DOMAIN run.outcomes : /\ run.ended /\ run.outcomes[i].word = "ERROR"
                               /\ run.outcomes[i].line # "printed"}

Passed(run) == Cardinality(Lines(run, "PASSED"))
Failed(run) == Cardinality(Lines(run, "FAILED")) + Cardinality(Lines(run, "ERROR"))
                 + Cardinality(Headings(run))
Total(run)  == Passed(run) + Failed(run) + Cardinality(Lines(run, "SKIPPED"))

Grade_NoTestsIsFull(passed, total) ==
  IF passed = total THEN "full" ELSE IF passed = 0 THEN "zero" ELSE "partial"

Grade(passed, total) ==
  IF passed = 0 THEN "zero" ELSE IF passed = total THEN "full" ELSE "partial"

(* pytest exits with any code; the dict always says 0.  A timeout leaves   *)
(* none of the output.  The second guess of a total of zero only divides a *)
(* zero.                                                                   *)
RunTests ==
  /\ pc = "tests"
  /\ \E outcomes \in UNION { [1..n -> Outcomes] : n \in 0..MaxLines }, ended \in BOOLEAN :
       tests' = [outcomes |-> outcomes, ended |-> ended]
  /\ code' = [score |-> Grade(Passed(tests'), Total(tests')), failed |-> Failed(tests'),
              exit_code |-> 0,
              status |-> IF task.kind = "patch_generation"
                         THEN "patch_applied" ELSE "valid_python"]
  /\ pc' = "fallback"
  /\ UNCHANGED <<task, reply, files, validation, score, todo, details, safety,
                 result>>

(* The task's own primary scorer replaces a score of zero.                 *)
FallbackScore ==
  /\ pc = "fallback"
  /\ IF code.score = "zero" /\ task.primary \notin {UnitTest, NoScorer}
     THEN code' \in { [code EXCEPT !.score = g] : g \in Grades }
     ELSE UNCHANGED code
  /\ pc' = "secondary" /\ todo' = task.secondary
  /\ UNCHANGED <<task, reply, files, validation, score, details, safety, tests,
                 result>>

-----------------------------------------------------------------------------
(* The success constructor of run.                                         *)
BuildText ==
  /\ pc = "build" /\ ~IsCode(task.kind)
  /\ result' = [status |-> "success", details |-> details, score |-> score,
                safety |-> safety, exit_code |-> None, failed |-> None]
  /\ pc' = "done"
  /\ UNCHANGED <<task, reply, files, validation, score, todo, details, safety,
                 tests, code>>

(* The constructor of _run_code_task: score_secondary is code_result's own *)
(* dict, whose values are counts and lists, not scorer dictionaries.       *)
BuildCode_KeepsSecondaries ==
  /\ pc = "build" /\ IsCode(task.kind)
  /\ result' = [status |-> IF code.exit_code = 0 THEN "success" ELSE "error",
                details |-> details, score |-> code.score, safety |-> None,
                exit_code |-> code.exit_code, failed |-> code.failed]
  /\ pc' = "done"
  /\ UNCHANGED <<task, reply, files, validation, score, todo, details, safety,
                 tests, code>>

BuildCode ==
  /\ pc = "build" /\ IsCode(task.kind)
  /\ result' = [status |-> IF code.exit_code = 0 THEN "success" ELSE "error",
                details |-> {}, score |-> code.score, safety |-> None,
                exit_code |-> code.exit_code, failed |-> code.failed]
  /\ pc' = "done"
  /\ UNCHANGED <<task, reply, files, validation, score, todo, details, safety,
                 tests, code>>

Done == pc = "done" /\ UNCHANGED vars

Step ==
  \/ ChatComplete \/ Raise \/ RunValidation \/ ScorePrimary \/ ScoreSecondary
  \/ ScoreSafety \/ RejectCode \/ AcceptCode \/ RunTests \/ FallbackScore
  \/ BuildText \/ BuildCode

Next == Step \/ Done

(* Fairness: every call the coroutine awaits or waits for has a timeout    *)
(* (the API client, the validation command, pytest and git), so it goes on.*)
Spec == Init /\ [][Next]_vars /\ WF_vars(Step)

-----------------------------------------------------------------------------
(***************************************************************************)
(* Properties.  None of them holds by the choice of a single step: each    *)
(* relates the result to what the environment answered several steps ago.  *)
(***************************************************************************)

(* Whatever path the coroutine took, its result has the shape the storage  *)
(* layer relies on: only a successful text task yields score_details rows. *)
ResultContract ==
  result # None =>
    [status |-> result.status, details |-> result.details] \in Results(task.kind)

(* Scores of a text task come as a block: when the task has a primary      *)
(* scorer and it raised, the record carries no secondary and no safety     *)
(* score either, so a partly scored record is never stored.                *)
SecondaryNeedsPrimary ==
  /\ result # None
  /\ ~IsCode(task.kind) /\ task.primary # NoScorer
  /\ result.details # {} \/ result.safety # None
  => result.score # None

(* What a score of unit tests alone must have in common with their run.    *)
FullIsEarned(run, said, real) ==
  /\ \E i \in DOMAIN said : said[i].word = "PASSED" /\ said[i].line # "broken"
  /\ \A i \in real : said[i].word = "PASSED" \/ said[i].line = "broken"
  /\ run.ended => \A i \in real : said[i].word # "ERROR"
ZeroIsEarned(said) ==
  \A i \in DOMAIN said : said[i].word = "PASSED" => said[i].line = "broken"
AllPassed(said) ==
  DOMAIN said # {} /\ \A i \in DOMAIN said : said[i].word = "PASSED"
Earned(run, grade) ==
  LET said == run.outcomes
      real == {i \in DOMAIN said : said[i].line # "printed"}
  IN  /\ grade = "full" => FullIsEarned(run, said, real)
      /\ grade = "zero" => ZeroIsEarned(said)
      /\ (\A i \in DOMAIN said : said[i].line = "whole") => (grade = "full" <=> AllPassed(said))

(* The score of unit tests alone, against what the tests did.  Full marks  *)
(* need an outcome line that says PASSED, which the tested code may have   *)
(* printed; they hide a failed or a skipped test only if its own line is   *)
(* broken, and an error only if pytest did not live to write its section.  *)
(* No passing line scores zero.  A run where nothing was printed and no    *)
(* line is broken gets full marks exactly if it has tests and all passed.  *)
UnitScoreIsEarned ==
  /\ result # None
  /\ IsCode(task.kind) /\ task.primary \in {UnitTest, NoScorer}
  => Earned(tests, result.score)

(* Every task yields a result, whatever fails on the way: the callers'     *)
(* loops append exactly one result per task and do not handle a missing one.*)
EveryTaskYieldsAResult == <>(result # None)

(* Said by tests/test_mock_benchmark.py:163-164: a reply with an 'error'   *)
(* key ends as exit_status 'error'.                                        *)
ApiErrorIsError ==
  result # None /\ reply = "error" => result.status = "error"
=============================================================================
