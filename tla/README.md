# A TLA+ model of benchmark-harness

`bench_harness` (`src/src/bench_harness`) runs suites of prompts against models
behind OpenAI-compatible endpoints, scores the answers, stores results in SQLite
and JSONL, and writes reports.  This directory holds TLA+ modules of the parts
of it that are hard to test, the TLC configurations that check them, and proofs
checked by TLAPS.  `PROJECT.json` maps every definition to the lines it models,
lists the runs with their properties, the mutants that show each property can
fail, the hazards and the findings.

    tlc -config MCCliRunShared.cfg MCCliRun.tla     # one run
    tlapm CliRunProofs.tla                          # proofs about CliRun
    tlapm DataLemmas.tla                            # lemmas on sums and lists

and likewise `BenchRunProofs`, `StoreSchemaProofs`, `TaskExecutionProofs`,
`ArtifactStoreProofs`, `JudgeScoringProofs` and `ReaderProofs`, which is about
`Exports`, `Reports`, `Comparison` and `PromptOptimization` and takes a quarter of
an hour; the last two use `DataLemmas`.

## 1. The system

| Component | State it keeps | Operations | What is hard | Module |
|---|---|---|---|---|
| Task execution: `CompletionRunner.run`, `_run_code_task`, `CodeTaskRunner`, `ShellRunner`, `OpenAICompatClient` | locals of one coroutine, a temporary directory | call the model, validate, score, test, build a `RunResult` | every external call can fail; nested `try` blocks decide which scores survive; outcomes parsed from text | `TaskExecution` |
| `bench-harness run` and its store: `cli.run`, the sweep runners, `SQLiteStore`, `save_run_artifact`, `generate_report` | `benchmark.db`, `runs.jsonl`, `report.md` of one directory | loops over models, tasks, repetitions, variants; four commits per result; a report | kills between commits, several invocations in one directory, torn appends, stale identity | `CliRun`, `RunLedger` |
| `bench-run`: `RuntimeRunner` classes, `ProcessHandle`, run directories, `RunResult.write_to_directory` | a child process, a run directory | prepare, launch, wait, workload, results, logs, shutdown | leaked processes, shared directories, result files cut by a kill and read by other commands | `BenchRun` |
| Database schema: `SQLiteStore.init` and its migrations | tables and columns of a `benchmark.db` of any earlier version | create, look, add a column, skip one | other commands at the same step, refused locks, kills, readers that never migrate | `StoreSchema` |
| Artifact registry: `registry.py`, `hashing.py`, `runner.py` | `artifacts.jsonl`, managed copies and links | register, copy, link, fingerprint | incremental copies after a kill, links to other people's files | `ArtifactStore` |
| Judges: `llm_judge.py`, `pairwise.py` | none | check, ask, parse, weigh, average rounds | missing dimensions, scores out of scale, failed rounds, nested event loops | `JudgeScoring` |
| Reports: `helpers.py`, `v2.py`, `quantization_comparison.py`, `style_comparison.py` | none | frontier, deltas, rankings, clusters | empty, tied and unscored rows, order of rows, sections that must agree | `RunRows`, `Reports` |
| Comparison and regression suite: `compare.py`, `regression.py` | none | compare two databases, select tasks | thresholds in both directions, keys of one side | `Comparison` |
| Prompt optimisation: `analysis.py`, `proposals.py`, `runner.py` | `TemplateRegistry` | rank, propose, compare, adopt | styles without scores, ties, minimum of runs | `PromptOptimization` |
| Exports: `export/` | files under `exports/` or a given path | six exports | paths that stand for something else, joins that repeat rows, what is taught against what is tested | `Exports` |
| Web server: run service, saved configurations | `_active_runs`, threads, YAML files | launch, cancel, save | none of it runs, see 6 | none |
| Deterministic scorers | none | match, parse, classify | text | `TaskExecution` chooses their answer |
| Context packing, metrics, loaders, schemas, markdown report, lm-eval adapter, notebooks | none | | text and arithmetic | none, see 6 |

How they interact: a command of `cli.py` builds a client and a runner; the sweep
runners call `CompletionRunner.run` once per variant and hand a list of
`RunResult` back; `cli.run` stores each with `SQLiteStore.save_run` and
`save_run_artifact`; reports, comparisons, exports and the web server read the
tables later, from other processes.  Nothing locks the output directory: the
file names and SQLite's own transactions are the only coordination.  `bench-run`
is a second path with its own result schema and directories.  Every command that
stores initialises the database first (`StoreSchema`); the reports, comparisons,
optimiser and exports read what it stored.

What makes each part correct: a task always yields exactly one result whose
scores match what was really run; a directory holds each result completely or
not, never half a result that looks whole; what a report or a comparison says is
about rows that exist; a process that was started is stopped; a directory called
immutable is not written twice.  A command that initialised a database can store
in it, whoever else opens it.  A managed copy that is trusted is a copy of the
source.  Sections of one report, and a report and the command that computes the
same, do not contradict each other.  A file an export returned still holds its
records when it is read.

## 2. Modules

`RunResults` is the shape both modules share: the statuses, the kinds of task,
and `Results(kind)`, what storage may rely on about a result.  `TaskExecution`
shows that its results have that shape (`ResultContract`); `CliRun` draws the
results it stores from it.  So the two modules compose without a product.

`TaskExecution` is one call of `CompletionRunner.run` as a step machine.  `pc`
names the next step of the coroutine; `ChatComplete` is the API call; on the
text path follow `RunValidation`, `ScorePrimary`, `ScoreSecondary` (one round of
the loop), `ScoreSafety` and `BuildText`; on the code path `RejectCode` (syntax
error, patch that does not apply, exception) or `AcceptCode` and `RunTests`,
then `FallbackScore`, `ScoreSecondary` and `BuildCode`.  `Raise` is the outer
`except`.  `tests` holds the outcomes of one run of pytest: lines of its own,
whole or broken by what a test printed (pytest runs with `-s`), and lines the
tested code printed that read like them.  `Lines`, `Headings`, `Passed` and
`Total` are what `_parse_pytest_xml` counts of them, so that printed text can add
passes as it can hide failures.  Scores are `zero`, `partial` or `full`: the
code compares a score only with 0.

`CliRun` has any number of invocations of `bench-harness run` over one
directory.  `pc[i]` and `at[i]` are the program counter and the loop variables;
`fresh[i]` is the list a sweep returned and that is not stored yet.  `Open` is
everything before the loops, `SkipAlias` the `continue` for an unknown model,
`Identify` the identity stamp, `Execute` one variant.  A result is stored in
`SaveRun` (row of `runs`), `SaveTiming` (row of `run_timings`), `SaveDetail`
(one row of `score_details`) and `AppendLine` or `AppendHead` and `AppendRest`
(`runs.jsonl`, in one write or two); `Advance`, part of the last one, moves the
loops on.  `ReadRows` is `get_runs` for the report; `OpenReport` opens
`report.md`, which empties it, and `WriteHead` and `WriteRest` write it in two
pieces.  The report on disk is a head and a rest, each with the text it is of, and
the invocations that had it open since it was last emptied: a kill leaves it empty
or cut, and two writers mix.
`Die` is a kill or an exception nothing catches, at any step.  `SwapModel` is
the backend, outside the program.  The four commits are separate because
sqlite-utils commits each insert and the file is another medium.

`RunLedger` is what the command promises, storage aside: each invocation records
the cells of its plan in order, at most once, finishes only when the plan is
exhausted, and may stop before.  `ImplementsLedger` is the refinement: a cell is
recorded when the last commit of its result is done, and `Plan` is computed from
the job independently of the loops: its n-th cell is the one of `Cells(i)` with
n - 1 cells before it.

`BenchRun` has any number of invocations of `bench-run` over one storage root
and a clock of one second.  `CreateRunDir` picks the directory of the spec's
name and the second, existing or not; `OpenFile` and `CloseFile` are the two
halves of writing a file, truncated at once and filled when it is closed;
`Prepare`, `Launch` and `WaitUntilReady` are the runner of the spec's kind,
`Request` one request of `run_workload`, `FinishWorkload` its end, `CollectLogs`
the log files.  `file[i]` says which file is next: the spec before the runner,
then `metrics.jsonl`, `summary.json` and `result.json`.  A file keeps whose bytes
it has, how many requests it tells of and whether it has YAML tags.  `Kill` may
strike at any step; `ServerExits` is the launched process.  The readers
`ListRuns`, `Summarize` (also `export-summary`), `Compare` and `CompareV2` look
at all directories at once and leave only how they ended, in `reader`.
`shutdown` with a live process has no action: the code cannot reach it, since
every managed runner that starts a process fails before the `try` whose
`finally` calls it.

`StoreSchema` is `SQLiteStore.init` as a program of steps, each of which creates
a table or migrates one, executed by any number of commands; `Program`,
`Created`, `Migrated` and `Written` are constants, so that the same module fits
every list of columns.  `CreateTable` and `RefuseTable` are a `CREATE TABLE` that
commits or dies of a lock; `LookAtColumns` reads the columns once, `AddColumn`
adds one of those it found missing (or finds that another command was faster),
`RefuseColumn` is one whose error is logged and forgotten, `EndMigration` the end
of the loop.  `SaveRun` is the insert of `save_run`, `Read` a command that opens
the database without `init`.  A command may be opened again after it ended or was
killed.

`ArtifactStore` is `manage_artifact` and `register` by any number of processes:
`Start` and `StartRunner` are their callers; `ManageExternal`, `BeginCopy` and
`Unlink` the three modes; `SkipFile`, `OpenCopy` and `CloseCopy` one file of an
incremental copy, whose opening truncates and whose closing stamps; `List` the
`.copied_files`, `Link` the link, `Fingerprint` the assignment that raises, and
`Register` the line of `artifacts.jsonl`.  `Kill` strikes anywhere, `Edit` is the
owner of a source.  A file is its bytes and its stamp (mtime and size).  An id may
be nothing, a directory, a file or a link, and paths below a linked id lead to
what it is linked to *now*: `Dest(i)` is evaluated at every step, so a copy whose
id is relinked between its opening and its closing stamps another file.  `Placed`
are links that earlier commands left.  `IsPlain` tells paths that are one file
from directories, where a single file and a directory copied under one id meet.
`raced` and `alone` are history: which files were edited, rewritten or stamped by
others while they were copied, and who had the store to itself.

`JudgeScoring` is one call of a judge: `Check` is everything before the first
request, `Ask` a round of the rubric judge, `AskPairwise` a comparison;
`ScoreOnce` and `ScoreRounds` are what becomes of the answers.  An answer has a
shape for each dimension, because a number, a quoted number, a null and a
missing one each take another way through the two functions.

`Lists` says what Python's comprehensions, dicts of lists and sorts make of a list
by the positions of its members, without recursion.  `RunRows` is what readers of
`runs` share: averages as exact fractions, groups in
the order a dict meets its keys, the stable descending sort and the loop that
keeps a champion.  `Reports` computes each table of the three reports from the
rows; `Comparison` extends it with two databases and the regression suite,
`PromptOptimization` with the analysis, proposals, comparisons and the registry
of candidates.  Their actions are `save_run` (any row of a small set may be
recorded next), and in `PromptOptimization` the calls on the registry; the
functions are operators evaluated in every state.  `Exports` has its own rows,
with what an export tests, and a file system of the names that are passed in
output paths, one of which is the file name of an export: a name is nothing, a file
or a directory.  A path is a directory and a name in it (`PathsFor`: what a name
resolves to, or the path `d/n`).  `Export` makes the directory, writes the records
with their kind and remembers what it returned, unless a file is in the place of
the directory or a directory in that of the file; then it writes nothing.
Meanwhile `SaveRun`, `SaveEvaluation` and `SavePairwise` let the store grow.  Its
specification is `ExportSpec` and its rows are `stored`, because `ReaderProofs` extends it and
`Reports` together.

## 3. Runs

| Run | Instance | Properties |
|---|---|---|
| `task_execution` | all kinds of task, with/without primary, secondary, validation; up to three outcomes of pytest, each whole, broken or printed | `ResultContract`, `SecondaryNeedsPrimary`, `UnitScoreIsEarned`, `EveryTaskYieldsAResult` |
| `cli_shared` | two invocations over one directory, a sweep of two context sizes and a single run, long and short records | `StoreOrder`, `OnlyTheCurrentIsPartial`, `OneRowPerCell`, `UnreadableNeedsATear`, `ReportCoversItsAuthor`, `FinishedReportIsWhole` |
| `cli_loops` | one invocation, a model listed twice around an unknown alias, two tasks, two repetitions, a backend that swaps its model | `DoneIsComplete`, `ImplementsLedger`, `EveryInvocationEnds` |
| `bench_run` | two invocations, each with an endpoint, an external, a managed vLLM or a stub spec, of one name or of two, in one second or in two | `FilesInOrder`, `OnlyTheLastIsCut`, `DoneIsOnDisk`, `EveryRunEnds` |
| `store_schema` | two commands opened up to twice each, three tables, four versions of the database, two refused statements, a reader | `InitCompletes`, `RefusalsAreOwn`, `ReadersAreServed`, `EveryInitEnds` |
| `artifact_store` | two processes, three sources (one a single file), two ids of which one was linked before, six artifacts of all three modes, one edit of a file | `TypeOK`, `SkippedIsCurrent`, `CopyIsCurrent`, `SourcesKeepTheirFiles` |
| `judge_scoring` | two dimensions of unequal weight, a scale of three, points below, on and above it, two rounds | `TypeOK`, `ScoreIsTheRounds`, `PassIsTheJudges` |
| `reports` | all databases of up to four rows in the columns a section reads, ten such sets, two of them with a second database | `FrontierCovers`, `SectionsAgree`, `ChoicesAreBest`, `SensitivityExplainsDelta`; of `Comparison`: `VerdictsAgree`, `SuiteIsSelected` |
| `prompt_optimization` | all databases of up to four styled rows, registries of up to four calls | `RankingIsSound`, `ProposalsAreFounded`, `CandidatesAreCompared` |
| `exports` | two suites, six kinds of row, two comparisons, three saves, two exports to any path of two names, one the default directory and one another export's file name | `TypeOK`, `LatestIsReadable`, `RecordsFollowTheStore` |

The type invariants of `CliRun`, `BenchRun`, `StoreSchema` and `TaskExecution` are
theorems and stand in no configuration; those of `ArtifactStore`, `JudgeScoring`
and `Exports` are theorems too and are checked by TLC as well.

What the runs of the readers and of the judges say; where a property has several
parts, each is a definition of its own:

| Property | Part | Statement |
|---|---|---|
| `FrontierCovers` | | a scored model off the frontier is no better and no faster than one on it, and those on it do not beat each other |
| `SectionsAgree` | `SummaryAgrees` | the executive summary, the comparison table and the frontier name one winner with one score |
| | `RunsAreCounted` | every table counts every row it is about once |
| | `QuantTablesAgree` | the summary's loss, the table of v2 and the quantization report agree |
| `ChoicesAreBest` | `MarginIsToRunnerUp` | the margin of a family's winner is that to the best of the others |
| | `FamilyBestsBound` | nothing is better overall than the best of some family |
| | `RecommendedIsUndominated` | no style is better with fewer tokens than the recommended one |
| | `DiscriminatingFirst` | in the table of v2, tasks whose scores differ come before those whose scores agree, and each once |
| `SensitivityExplainsDelta` | | where the families are equally covered, an overall loss shows in a family |
| `VerdictsAgree` | `SwapMirrors`, `VerdictsAreConsistent` | swapping the databases swaps the verdicts; none is contradicted, none arises against oneself |
| | `SectionIsTheComparison` | the regression section over whole lists is the comparison key by key |
| `SuiteIsSelected` | `SuiteKeepsFailures` | the regression suite holds each failed task once, with its failures and before all others, and at most `MaxTasks` others; within each part the order is that of the identifiers |
| | `SuiteKeepsSpread` | a task with two scores or more is left out only for at least `MaxTasks` tasks with as much variance, and every task of the suite that did not fail is one of those |
| `RankingIsSound` | `AnalysisIsTheReport` | the optimiser's analysis and the style report name the same best averages |
| | `MarginsAddUp`, `MinRunsNarrows` | margins of a ranking sum to its differences; a larger minimum of runs only narrows |
| `ProposalsAreFounded` | | for all rows or any family, whichever way its name is read off an identifier, a proposal has a baseline with scores and follows from the ranking of the rows that were found |
| `CandidatesAreCompared` | `LastCandidateWins` | the registry holds the candidate added last under a name, in order |
| | `ComparisonsAreSound` | each candidate and other baseline is compared once, mutual baselines are opposite, and what is adopted ran and stands above its baseline |
| | `OptSectionComparesWithPlain` | v2 compares as the optimizer does exactly where `plain` was met before the candidate, or scores zero; otherwise the candidate's whole score is its difference |
| `RecordsFollowTheStore` | `PreferenceIsWidest` | a preference pairs the two answers to a task farthest apart, once, and leaves no task out whose runs differ by the margin |
| | `TaughtFailuresScoreZero` | what is taught and also tested as a failure is exactly the successes with a text that scored zero and were let through by a cutoff of zero, the default; as a preference, a run chosen among runs that all scored zero |
| | `JudgeRecordsCount` | an evaluation is exported once, a comparison once a run of its task in every suite that ran it |
| `LatestIsReadable` | | the path an export returned keeps its records until the same kind is exported again, unless one of the two that meet there is the regression export and was passed the other's file name |
| `ScoreIsTheRounds` | `RoundsAverage`, `ScoreInRange` | within the scale, several rounds give the average of what each would score alone, a failed one as zero; no score is above one, and none below zero unless the judge gave negative points |

The bounds are enough because the properties are about pairs: two writers are
needed to tear a line or to write between a read and a report, two variants to
have an unsaved result behind the head of the list, two of each loop to see a
reset missing.  Three outcomes of pytest (`MaxLines`) show a pass and a failure
beside a printed or a broken line.  One secondary scorer separates a result with details from one without.  Two seconds
let two runs of one name share a directory or not; two requests make a workload
that can be half done.  Two openings let a command find a database its earlier
self or the other left half migrated, and two refusals hit a create and a column,
or two columns.  One edit is what makes a stamp stale; two processes with two
calls each let a second copy trust the remains of a killed one.  Two rounds are
one that fails beside one that counts.  In tables of three or four rows there are
ties, a best, a second and a rest, an unscored row among scored ones, and every
order in which they were recorded; the columns a section does not read are held
fixed (`Fills`), since no property relates sections over different columns.  Two
exports are one and what may overwrite it.  An invocation of `bench-harness run`
that is refused at once, for a name that is no slug, stands in no instance; the
proofs are about it too.

The two violation runs check one sentence of the repository each, and TLC
refutes it; see "findings" in `PROJECT.json`:

| Run | Sentence |
|---|---|
| `task_api_error` | an API error ends as `exit_status` "error" (`tests/test_mock_benchmark.py:163`) |
| `schema_old_timings` | `run_timings` gets its context columns by migration (`milestones/m09-long-context-benchmark-suite.md:172`) |

Other places where the code and the repository's own words, or two parts of the
code, disagree.  They were met while modelling and are followed by the model as
the code has them; they are plain in the code, so no run is spent on them:

- `tests_failed` is documented as the number of tests that failed (`completion_runner.py:47`), and misses those whose line the pattern does not match (`code_task_runner.py:36`).
- The validation command is said to find the response in its directory (`completion_runner.py:687`), which is created empty (`:699`).
- The identity stamp is read once per model (`cli.py:263`), though `_parse_models_response` says it is called before each task (`cli.py:54`).
- `--suite` takes a comma-separated list (`cli.py:128`), which `run_spec.py:142` refuses as a name.
- A run directory is called immutable (`README.md:80`) and is reused by a second run of the same name and second (`storage/config.py:185`).
- `vllm.py:59` raises a `NameError` after the server was started; `list-runs` refuses the tags that `storage/config.py:199` writes.
- A judge's score is divided by its scale twice (`llm_judge.py:228` and `:250`), so a full mark on a scale of five is 0.2, not the 1.0 of `base.py:105`.
- The quantization frontier is a set of indices of an unsorted list that is looked up in the sorted one (`quantization_comparison.py:372-391`); the model does the same, and `FrontierCovers` is about the frontier of v2 only.
- The optimisation section of v2 compares a candidate met before `plain` with 0.0 (`v2.py:541`).
- `crash_changes` can only name keys that one database lacks (`compare.py:73`), not a model that crashed in one (`compare.py:36`).
- The regression suite is said to be sorted by variance after its failed tasks (`regression.py:204`), and is sorted by identifier (`:213`); variance only chooses what is in it.
- `generate_proposals` finds the rows of a family by the second part of their identifier (`proposals.py:126`), while the families come from `_extract_family_from_task_id` (`analysis.py:56`), which skips names of tasks: of `benchmark.mbpp_000` the family is `000`, under which no row is found.
- The extractors of `helpers.py:25` and `markdown.py:292` do not skip names of tasks as the other three do.  `FamilyOf` is a constant and stands for either; no property relates a section that uses one to a section that uses the other.
- Printed text that reads like an outcome is counted as one (`code_task_runner.py:32-45`, and `-s` at `:540`), so full marks need no test that passed; `UnitScoreIsEarned` says what they do need.
- The docstring of the regression export shows a success that scored 0.2 as a failure (`regression_export.py:50`); the code takes only those that scored 0.
- The SFT export's default cutoff is 0 (`sft_export.py:29`), so it teaches successes that scored zero, which the regression export lists as failures.
- The regression export writes exactly the path it is given (`regression_export.py:27`), another export's file included.
- The rankings ignore `min_runs`, which only the choice of the best style obeys.
- The live path of the prompt optimiser always ends in a `TypeError`: `run_sweep` is a coroutine nobody awaits (`prompt_optimization/runner.py:160`).  `_compute_candidate_results` is called only after it, so no command reaches it; `Computed` is what it would say of the rows it is given, and what the choice of what to adopt reads.
- Of the export commands only `sft` works: the others import names that do not exist or pass parameters the functions do not have (`cli.py:694-781`).
- Of two runs with equal scores a preference may choose and reject the same model (compare `tests/test_export.py:351`).
- The percentile of `get_timing_summary` ignores the suite it is asked for (`sqlite.py:839`).
- `register-artifact` fails after the copy, at the fingerprint (`cli.py:1284`), and for a missing source at the manifest (`cli.py:1295`).

Fairness.  `TaskExecution` assumes weak fairness of its steps: the API client,
the validation command, git and pytest all have timeouts.  `CliRun` assumes weak
fairness of each invocation's steps: it is a sequential process, SQLite's busy
handler gives up, and no step waits for another invocation.  So does `BenchRun`:
the HTTP client has a timeout, `Popen` returns, and nothing waits for a lock.
`StoreSchema` assumes it of each command's steps in `init`: SQLite gives up a lock
after a while, which is a step too.  The other modules assume none: nothing in them is said to happen at last.  Nothing is assumed of `Die` and `Kill`, the clock, the
backend, the launched server, the owners of sources or the readers.
`CHECK_DEADLOCK FALSE` stands in the configurations of `ArtifactStore`,
`JudgeScoring` and the readers: their processes end, or the bound on rows is met.

## 4. Proofs

Every safety property that a passing run checks is a theorem of the module's
specification, for every value of its constants that its assumptions allow.

`CliRunProofs` proves, for every set of invocations, every job and any number of
kills, first `TypeOK`, `StoreOrder`, `OnlyTheCurrentIsPartial`,
`ReportCoversItsAuthor` and `FinishedReportIsWhole`.  Of the last four only
`StoreOrder` could be a part of the invariant as it stands.  The argument:
results are stored only while they are the head of `fresh[i]`, and the head's
key is one more than the number of recorded results (`FreshInv`); `HeadInv` says
what of the head is stored at each value of `pc`; `RowInv` says that every other
row is stored everywhere; `ReportInv` that an invocation which has read its rows
adds none, so that each piece it writes covers them; `FileInv` that an invocation
in the middle of writing is among the report's writers, and how far the only one
of them has come.  `IInv` is their conjunction.  `StepIsLocal` and `StepGrows` carry
the invariant across the steps of other invocations: a step changes only its own
invocation's variables, and the store only grows.  Each `Step...` lemma has one
step per action.  The assumptions are those of `CliRun` on its constants: `Jobs`
has the type of a command line, at least one alias is given, there is a model
and `None` is not one.

Its second part is about the loops: `OneRowPerCell`, `DoneIsComplete`,
`UnreadableNeedsATear` and the refinement `Spec => ImplementsLedger`.  The four
nested loops, with a `continue` for unknown aliases and a list of variants that
is stored one by one, are tied to the plan by counting: `InPlace` says that a
result's number is one more than the number of cells before its own, and
`LoopAt` that `Due(i)`, the cell the loop variables stand at, has as many cells
before it as results were executed.  One more variant leaves one more cell behind
(`NextVariant`), and where a loop ends and the next outer one moves on, no cell
lies between (the `Carry` lemmas).  Distinct cells have distinct numbers of cells
before them, which gives `OneRowPerCell`; at the end all cells are behind, which
gives `DoneIsComplete`; and the row with number n + 1 is the n + 1st cell of
`Plan`, which is what a step of `RunLedger` needs.  `LineInv` adds where in
`runs.jsonl` the lines of recorded results are.

`BenchRunProofs` proves, for any invocations, specs and seconds and any number
of kills, `TypeOK`, `FilesInOrder`, `OnlyTheLastIsCut` and `DoneIsOnDisk`.  The
last three speak of files only; what makes them inductive is where each
invocation is.  `Closed(i)` and `Begun(i)` are the files `i` has finished and
opened, as `pc[i]` and `file[i]` tell.  `BegunInv`: a directory has at least the
files its invocations began; this carries `FilesInOrder`, since no file is ever
removed.  `AloneInv`: with a directory to itself, a living invocation has no
other file there, and those it closed are whole and tell of all requests
(`AskedInv`).  `FreshInv`: a directory nobody is in has no files, so the first
to create it finds it empty.  `QuietKeeps` covers the steps that touch neither
directories nor files.  The assumptions are those of `BenchRun`: specs have
their type, `MaxSecond` is a number, `None` is neither a directory nor a file.

`TaskExecutionProofs` proves, for any tasks, any list of secondary scorers and any
number of outcomes, `TypeOK`, `ResultContract`, `SecondaryNeedsPrimary` and
`UnitScoreIsEarned`.  The invariants about the result hold only if the step that builds it finds the right scores; so `IInv` adds
`PathInv` (the text path and the code path do not meet before `build`, and what
each has produced at a step), `BlockInv` (no secondary or safety score before the
primary one) and `CodeInv` (what the lines of pytest earned).  `GradeIsEarned` is
the counting argument: a grade is full when as many lines say PASSED as there are
lines, so there is no other line; it is zero when none says so.  It assumes that
tasks have their type, the two named scorers are scorers, `NoScorer` is none and
`None` is no grade.

`StoreSchemaProofs` proves, for any program of creates and migrations, any
versions and any commands, `TypeOK`, `InitCompletes`, `RefusalsAreOwn` and
`ReadersAreServed`.  `StepsInv` says of every command what the steps behind it
leave (`CreatedBehind`, `MigratedBehind`) and that what its migration has still to
do is in `todo`, in the table or refused (`TodoCovers`); it is kept by the steps
of others because no step takes a column away (`SchemaGrows`).  It assumes what
the code has: every table is created by some step, every table with columns to
migrate is migrated after its create, and what is written are columns of the
table.

`ArtifactStoreProofs` proves, for any processes, sources, artifacts, earlier links
and numbers of edits, `TypeOK`, `SkippedIsCurrent`, `CopyIsCurrent` and
`SourcesKeepTheirFiles`.  The argument is that a stamp tells the bytes
(`StampInv`): an undisturbed file with a stamp holds the version the stamp is of.
A copy gives its file no stamp when it opens it and one only when it closes it;
that the source is then still what it read, and the file still its own, is
`WriteInv`, which every step of every other process must keep.  `ReachInv`
and `PlaceInv` say that a copy leaves the store only through a link that some
artifact made; `AloneInv` what a process that was alone has done about each file
of its source.  `OpenEffect` and `CloseEffect` say once what the two halves of
`copy2` change, with all their failures, for the lemmas about each conjunct.  The
attempt to prove `StampInv` failed at first, and rightly: a copy out of a file
that was itself disturbed passes the disturbance on, a relinked id has
`copystat` stamp another file than the one that was filled, and a single file and
a directory under one id meet in a path.  TLC had not met these in the instance it
was given; the module and the instance have them now.

`JudgeScoringProofs` proves, for any rubric with positive weights, any scale and
number of rounds, `TypeOK`, `ScoreIsTheRounds` and `PassIsTheJudges`.  The
invariant is short: the result of a finished call is the function of its answers
that the code computes (`Outcome`).  The rest is arithmetic.  Both averages are
sums over one table of dimensions and rounds, one by rows and one by columns
(`SumSwap`); within the scale neither is cut, and each round weighs the same.

`ReaderProofs` is about the readers.  It first proves `TypeOK`, `LatestIsReadable`
and `RecordsFollowTheStore` of `Exports`, for any store, output paths and number of
exports.  The paths a kind can write to
(`PathsOf`) end in the kind's own file name, but for those of the regression
export, which may end in any name that is passed; so two kinds share a path only
if one is the regression export and the name is the other's (`PathsMeet`).
`RecordsFollowTheStore` follows from the tables alone: they are numbered
(`TypeInv`), so their rows are distinct and a selection holds each at most once.
`WidestOf` says that the ends of the stable sort are a highest and a lowest score
of the task, and two different rows even when all are equal; `KeysAre` that each
task is met once.  `PairsAre` counts through the
join: a comparison occurs once for each run of its task, and since identifiers are
distinct no other comparison adds to it.

The rest is about `Reports`, `Comparison` and `PromptOptimization`, for any fills
and hence databases of any size.  The inductive invariant is small, since rows are
only recorded: a database holds rows of its fill (`FillInv`), and the registry of
candidates is what its calls make of it (`RegistryInv`).  What the functions compute
of such rows is proved of *any* list of them (`GoodRows`), section by section:

- `FrontierCovers`: models are compared by two averages.  Being beaten is a strict
  partial order, so above every model there is an unbeaten one; `Regrouped` rows
  have the averages of the rows they were.
- `VerdictsAgree`: with a positive tolerance, what is far up one way is as far down
  the other, so that the lists of a comparison and of the swapped one have the same
  keys; the sorted section holds what the comparison holds, key by key.
- `SuiteIsSelected`: the lists of failed and of separating tasks are lists of
  distinct keys, cut at the maximum; what is cut off has no more variance than what
  stays, because the sort is descending; and the last sort orders each part by name.
- `ChoicesAreBest`: a pass over a list that keeps the best two has the greatest
  value and the greatest of the others (`BestTwo`).  An average over families is a
  weighted mean, so some family is at least as good (from sums over rows alone);
  more score for no more tokens is more score per token.  A task whose scores differ
  has a positive variance, which is where separating tasks and the others part.
- `SectionsAgree`: the head of a stable descending sort and the champion of a loop
  are the same member, namely the first met of the greatest value; counting group
  by group counts each row once.
- `SensitivityExplainsDelta`: where every quantization ran as much of each family,
  the loss of the average is shared out among families with the counts, so one of
  them has at least its share.
- `ProposalsAreFounded`: each rule of `generate_proposals` compares averages that
  the ranking holds too, a line for each style with scored rows
  (`StyleAverages`); which rows a family has does not matter to them.
- `CandidatesAreCompared`: of an appended call, the ones before it under its name
  are no longer the last, which is what `Added` removes (`LastWins`).  The
  differences of mutual baselines are then the same terms turned round.  In v2 a
  style met after `plain` is compared with the average `plain` has, which is the
  optimizer's term; one met before it with zero, which gives the same difference
  only if `plain` has none.
- `RankingIsSound`: the margins telescope, by induction along the ranking; keeping
  the styles with more runs leaves the head no higher and its lead over the next no
  smaller; and the champion of a family in the style report is the head of its
  ranking.

`Reports` assumes of its constants that what was measured is a natural number,
that tasks, styles and quantizations are of the alphabet that sorts them, which
names each once, and that no score reaches 100.0, from which the search for the
least loss starts; `Comparison` that the tolerance for scores is positive and the
one for speeds not negative, and `MaxTasks` a number; `PromptOptimization` that the
full score is positive and that no style or candidate is named `None`.  The
attempts to prove these properties found two things about the model.  Without a
bound on scores a loss of a hundred or more is never found by the report's
search; and `ProposalsAreFounded` now says of `repl` and `architect` themselves
that they are not ranked below `plain`, where it said so only of the first line.

`DataLemmas` holds what these need of data.  Induction is stated over a set
of good values (`SubsetInduction`, `NumberInduction`, `ListInduction`), which asks
for no operator parameter, and gives that sums over finite sets exist, are linear
and monotone, and may be exchanged; that `FlattenSeq` joins its lists, and what
occurs in the join.  `PartMembers`, `HavingTimes`, `RankOrderMembers`, `SortedEnds`
and `FirstsAreAll` are about the operators of `Lists`; then come fractions and their
order, averages, sums over the rows of a set and over groups, champions, the best
two, and variances.  Three forms of the modules are for the sake of
the prover: selections are said by positions and not with `SelectSeq`, whose
recursion it cannot see; a loop that keeps a champion is a recursive function
under LET and not `FoldLeft`; and a line gets its margin by naming its fields and
not with `@@`.

Only checked by TLC: liveness and everything with ENABLED, which are outside the
prover's reach.  A module with a RECURSIVE operator cannot hold theorems; the
modules here use none.

## 5. Plan

1. A measure that every step of an invocation decreases, as the safety part of its
   termination.
2. The writers of the judge tables (evaluations, comparisons, human overrides)
   beside `CliRun`, and `save_environment`.
3. The tables of `markdown.py` and the timing summaries over `RunRows`.

Nothing composes with `ArtifactStore` but `bench-run`'s spec, which only names an
artifact.  `Comparison` and `PromptOptimization` extend `Reports`; `CliRun` and
`TaskExecution` meet in `RunResults`.

## 6. Not modelled

Faults without a state to get wrong are not hazards of the list: the server's
output pipes that nobody reads (`vllm.py:46`) and the launch outside the `try` of
`shutdown` (`cli.py:1768`), as no managed server gets that far; the temporary
directories of code tasks, which are kept and never read again
(`code_task_runner.py:156`); the secondary scores of a code task, which are
dropped (`completion_runner.py:618`); its `exit_code`, always 0 once pytest ran
(`code_task_runner.py:301`); a human's verdict on a comparison, which the
preference export does not read (`preference_export.py:155`).  `BuildCode` and
`Exports` have the last three as the code has them.

The web server.  Its run service cannot start a run: `RunState()` raises a
`NameError` (`timezone` is never imported, `runner_service.py:42`), and
`create_run` fails before that on `current_app`, which `routes/runs.py` (28, 41,
48) does not import.  The handlers of `routes/configs.py` (73 to 141),
`routes/compare.py` (19, 50), `routes/export.py` (58), `routes/models.py` (62) and
`routes/results.py` (123) that use it fail too.  No thread, cancellation or event of it is ever
reached, and a model must not have states the program cannot be in.

The date part of a `bench-run` path and a run across midnight, its log files and
the arithmetic of its summary: no reader branches on them.  Timing and token
arithmetic of a result, prompt rendering, logging and report layout: no later
step branches on them.  The deterministic scorers and context packing are text
matching and cutting, without state; the model lets scorers answer anything.
`lookup`, `list_all` and `verify` of the registry only read.  A source that is a
single file goes by one name in `ArtifactStore`, and one copied over a link
whose directory is gone is put below that directory, not in its place.  The lm-eval adapter,
notebooks, data generators and dataclass or pydantic schemas are wrappers and
declarations.
