------------------------------- MODULE CliRun -------------------------------
(***************************************************************************)
(* Invocations of `bench-harness run` (cli.py) that share an output        *)
(* directory, as repeated or concurrent invocations of one suite on one    *)
(* day do.  Each walks its models, tasks, repetitions and sweep variants,  *)
(* and stores every result in four separate steps: the row of runs, the    *)
(* row of run_timings, one row of score_details per secondary scorer (each *)
(* insert commits by itself), and a line of runs.jsonl.  An invocation may *)
(* be killed, or may die of an exception, between any two of them; running *)
(* the command again is another invocation.                                *)
(***************************************************************************)
EXTENDS RunResults, Sequences, Naturals, FiniteSets

CONSTANTS
  Invocations,   \* processes running the command
  Jobs,          \* the arguments of each invocation, a record of JobType
  AliasNames,    \* model aliases that may be named on the command line
  Configured,    \* the aliases of configs/models.yaml
  Suites,
  Models,        \* models a backend can have loaded
  None,
  LongRecords,   \* bound: whether records longer than the file buffer occur
  MaxSwaps       \* bound: how often the backend's model is replaced

(* slug: whether <first model>-<suite>-cli is a name RunSpec accepts, which *)
(* a suite with an underscore or a list of suites does not give; kinds: the*)
(* kind of each task of the suite; sizes, styles: how many context sizes   *)
(* and prompt styles are listed.                                           *)
JobType == [suite : Suites, slug : BOOLEAN, aliases : Seq(AliasNames),
            kinds : Seq(TaskKinds), runs : Nat \ {0}, sizes : Nat \ {0},
            styles : Nat \ {0}]

ASSUME JobsAssumption ==
  /\ Jobs \in [Invocations -> JobType]
  /\ \A i \in Invocations : Jobs[i].aliases # <<>>
  /\ Configured \subseteq AliasNames
ASSUME ModelsAssumption == Models # {} /\ None \notin Models /\ MaxSwaps \in Nat
ASSUME LongRecordsAssumption == LongRecords \in BOOLEAN

VARIABLES
  pc,        \* the next step of each invocation
  at,        \* the loop variables of each invocation: model, task, repetition
  stamp,     \* identity: the model the backend reported, or None
  fresh,     \* results executed and not yet stored
  executed,  \* how many results the invocation has produced
  left,      \* secondary scores of the head of fresh not yet inserted
  runs,      \* table runs, with the fields the other parts read
  timings,   \* keys of table run_timings
  details,   \* keys of table score_details
  jsonl,     \* runs.jsonl, as the writes that reached it
  rows,      \* runs_list, what get_runs returned to the invocation
  report,    \* report.md: the texts its parts are from, and who may write it
  served,    \* the model the backend has loaded
  swaps      \* how often it was replaced

store == <<runs, timings, details, jsonl>>
backend == <<served, swaps>>
vars == <<pc, at, stamp, fresh, executed, left, store, rows, report, backend>>

(* Context sizes override styles; one of each is the single-run path.      *)
Variants(i) ==
  IF Jobs[i].sizes > 1 THEN Jobs[i].sizes
  ELSE IF Jobs[i].styles > 1 THEN Jobs[i].styles ELSE 1

Cell == [alias : Nat, task : Nat, run : Nat, variant : Nat]
Keys == Invocations \X Nat
Stamps == Models \cup {None}
RunRows == [key : Keys, suite : Suites, cell : Cell, status : Statuses,
            details : SUBSET Scorers, stamp : Stamps, by : Stamps]
Writes == [key : Keys, part : {"line", "head", "tail"}]

(* The text of one report: who made it, for which suite, from which rows.  *)
(* head is the text the file begins with (None: nothing there, or a hole), *)
(* rest the texts its remainder is from; writers are the invocations that  *)
(* had the file open when it was last truncated, the one truncating it and *)
(* those that were writing it.                                             *)
Texts == [by : Invocations, suite : Suites, rows : SUBSET RunRows]
ReportFiles == [head : Texts \cup {None}, rest : SUBSET Texts,
                writers : SUBSET Invocations]
ASSUME NoFileAssumption == None \notin ReportFiles

Final == {"done", "refused", "dead"}
Writing == {"writeHead", "writeRest"}
Active == {"start", "alias", "execute", "saveRun", "saveTiming", "saveDetails",
           "append", "appendRest", "report", "openReport", "writeHead", "writeRest"}

TypeOK ==
  /\ pc \in [Invocations -> Active \cup Final]
  /\ at \in [Invocations -> [alias : Nat, task : Nat, run : Nat]]
  /\ stamp \in [Invocations -> Stamps]
  /\ fresh \in [Invocations -> Seq(RunRows)]
  /\ executed \in [Invocations -> Nat]
  /\ left \in [Invocations -> SUBSET Scorers]
  /\ runs \subseteq RunRows
  /\ timings \subseteq Keys
  /\ details \subseteq Keys \X Scorers
  /\ jsonl \in Seq(Writes)
  /\ rows \in [Invocations -> SUBSET RunRows]
  /\ report = None \/ report \in ReportFiles
  /\ served \in Models
  /\ swaps \in 0..MaxSwaps

Init ==
  /\ pc = [i \in Invocations |-> "start"]
  /\ at = [i \in Invocations |-> [alias |-> 1, task |-> 1, run |-> 1]]
  /\ stamp = [i \in Invocations |-> None]
  /\ fresh = [i \in Invocations |-> <<>>]
  /\ executed = [i \in Invocations |-> 0]
  /\ left = [i \in Invocations |-> {}]
  /\ runs = {} /\ timings = {} /\ details = {} /\ jsonl = <<>>
  /\ rows = [i \in Invocations |-> {}]
  /\ report = None
  /\ served \in Models /\ swaps = 0

Goto(i, step) == pc' = [pc EXCEPT ![i] = step]

-----------------------------------------------------------------------------
(* Everything before the loop: a name that is no slug, a suite without     *)
(* tasks, or a first alias that is not in the configuration, ends the      *)
(* command; the tables are created if missing.                             *)
Runnable(i) == Jobs[i].kinds # <<>> /\ Jobs[i].aliases[1] \in Configured

Open(i) ==
  /\ pc[i] = "start"
  /\ Goto(i, IF Jobs[i].slug /\ Runnable(i) THEN "alias" ELSE "refused")
  /\ UNCHANGED <<at, stamp, fresh, executed, left, store, rows, report, backend>>

AliasAt(i) == Jobs[i].aliases[at[i].alias]
LastAlias(i) == at[i].alias = Len(Jobs[i].aliases)
AfterAlias(i) == IF LastAlias(i) THEN "report" ELSE "alias"
NextAlias(i) == [alias |-> IF LastAlias(i) THEN at[i].alias ELSE at[i].alias + 1,
                 task |-> 1, run |-> 1]

SkipAlias_KeepsAlias(i) ==
  /\ pc[i] = "alias" /\ AliasAt(i) \notin Configured
  /\ UNCHANGED vars

SkipAlias(i) ==
  /\ pc[i] = "alias" /\ AliasAt(i) \notin Configured
  /\ Goto(i, AfterAlias(i))
  /\ at' = [at EXCEPT ![i] = NextAlias(i)]
  /\ UNCHANGED <<stamp, fresh, executed, left, store, rows, report, backend>>

(* fetch_models, once per model; an error leaves the stamp empty.          *)
Identify(i) ==
  /\ pc[i] = "alias" /\ AliasAt(i) \in Configured
  /\ \E s \in {served, None} : stamp' = [stamp EXCEPT ![i] = s]
  /\ Goto(i, "execute")
  /\ UNCHANGED <<at, fresh, executed, left, store, rows, report, backend>>

(* The result of one run, or the error result a sweep makes of an          *)
(* exception, which carries no identity.                                   *)
Outcome_LastVariant(i, r) ==
  [key |-> <<i, executed[i] + 1>>, suite |-> Jobs[i].suite,
   cell |-> [alias |-> at[i].alias, task |-> at[i].task, run |-> at[i].run,
             variant |-> Variants(i)],
   status |-> r.status, details |-> r.details, stamp |-> stamp[i], by |-> served]

Outcome(i, r) ==
  [key |-> <<i, executed[i] + 1>>, suite |-> Jobs[i].suite,
   cell |-> [alias |-> at[i].alias, task |-> at[i].task, run |-> at[i].run,
             variant |-> Len(fresh[i]) + 1],
   status |-> r.status, details |-> r.details, stamp |-> stamp[i], by |-> served]

SweepError(i) == [Outcome(i, [status |-> "error", details |-> {}])
                    EXCEPT !.stamp = None, !.by = None]

(* One variant of the sweep; the results of all variants are kept in       *)
(* memory until the last one ran.                                          *)
Execute(i) ==
  /\ pc[i] = "execute"
  /\ \E result \in { Outcome(i, r) : r \in Results(Jobs[i].kinds[at[i].task]) }
                   \cup (IF Variants(i) > 1 THEN {SweepError(i)} ELSE {}) :
       fresh' = [fresh EXCEPT ![i] = Append(@, result)]
  /\ executed' = [executed EXCEPT ![i] = @ + 1]
  /\ Goto(i, IF Len(fresh[i]) + 1 = Variants(i) THEN "saveRun" ELSE "execute")
  /\ UNCHANGED <<at, stamp, left, store, rows, report, backend>>

-----------------------------------------------------------------------------
(* SQLiteStore.save_run and save_run_artifact, one commit at a time.       *)
Current(i) == Head(fresh[i])

SaveRun_WholeSweep(i) ==
  /\ pc[i] = "saveRun"
  /\ runs' = runs \cup {fresh[i][k] : k \in DOMAIN fresh[i]}
  /\ Goto(i, "saveTiming")
  /\ UNCHANGED <<at, stamp, fresh, executed, left, timings, details, jsonl, rows,
                 report, backend>>

SaveRun(i) ==
  /\ pc[i] = "saveRun"
  /\ runs' = runs \cup {Current(i)}
  /\ Goto(i, "saveTiming")
  /\ UNCHANGED <<at, stamp, fresh, executed, left, timings, details, jsonl, rows,
                 report, backend>>

SaveTiming_NoDetails(i) ==
  /\ pc[i] = "saveTiming"
  /\ timings' = timings \cup {Current(i).key}
  /\ left' = [left EXCEPT ![i] = Current(i).details]
  /\ Goto(i, "append")
  /\ UNCHANGED <<at, stamp, fresh, executed, runs, details, jsonl, rows, report,
                 backend>>

SaveTiming(i) ==
  /\ pc[i] = "saveTiming"
  /\ timings' = timings \cup {Current(i).key}
  /\ left' = [left EXCEPT ![i] = Current(i).details]
  /\ Goto(i, IF Current(i).details = {} THEN "append" ELSE "saveDetails")
  /\ UNCHANGED <<at, stamp, fresh, executed, runs, details, jsonl, rows, report,
                 backend>>

SaveDetail(i) ==
  /\ pc[i] = "saveDetails"
  /\ \E name \in left[i] :
       /\ details' = details \cup {<<Current(i).key, name>>}
       /\ left' = [left EXCEPT ![i] = @ \ {name}]
       /\ Goto(i, IF left[i] = {name} THEN "append" ELSE "saveDetails")
  /\ UNCHANGED <<at, stamp, fresh, executed, runs, timings, jsonl, rows, report,
                 backend>>

Advance_RunOffByOne(i) ==
  LET job == Jobs[i]
      pos == at[i]
  IN /\ fresh' = [fresh EXCEPT ![i] = Tail(@)]
     /\ IF Len(fresh[i]) > 1
        THEN Goto(i, "saveRun") /\ UNCHANGED at
        ELSE IF pos.run <= job.runs
        THEN Goto(i, "execute") /\ at' = [at EXCEPT ![i].run = @ + 1]
        ELSE IF pos.task < Len(job.kinds)
        THEN Goto(i, "execute")
             /\ at' = [at EXCEPT ![i] = [alias |-> pos.alias,
                                      task |-> pos.task + 1, run |-> 1]]
        ELSE Goto(i, AfterAlias(i)) /\ at' = [at EXCEPT ![i] = NextAlias(i)]

Advance_RunNotReset(i) ==
  LET job == Jobs[i]
      pos == at[i]
  IN /\ fresh' = [fresh EXCEPT ![i] = Tail(@)]
     /\ IF Len(fresh[i]) > 1
        THEN Goto(i, "saveRun") /\ UNCHANGED at
        ELSE IF pos.run < job.runs
        THEN Goto(i, "execute") /\ at' = [at EXCEPT ![i].run = @ + 1]
        ELSE IF pos.task < Len(job.kinds)
        THEN Goto(i, "execute") /\ at' = [at EXCEPT ![i].task = @ + 1]
        ELSE Goto(i, AfterAlias(i)) /\ at' = [at EXCEPT ![i] = NextAlias(i)]

(* The loops go on: the next unsaved result, repetition, task or model.    *)
Advance(i) ==
  LET job == Jobs[i]
      pos == at[i]
  IN /\ fresh' = [fresh EXCEPT ![i] = Tail(@)]
     /\ IF Len(fresh[i]) > 1
        THEN Goto(i, "saveRun") /\ UNCHANGED at
        ELSE IF pos.run < job.runs
        THEN Goto(i, "execute") /\ at' = [at EXCEPT ![i].run = @ + 1]
        ELSE IF pos.task < Len(job.kinds)
        THEN Goto(i, "execute")
             /\ at' = [at EXCEPT ![i] = [alias |-> pos.alias,
                                      task |-> pos.task + 1, run |-> 1]]
        ELSE Goto(i, AfterAlias(i)) /\ at' = [at EXCEPT ![i] = NextAlias(i)]

AppendLine_NoNewline(i) ==
  /\ pc[i] = "append"
  /\ jsonl' = Append(jsonl, [key |-> Current(i).key, part |-> "head"])
  /\ Advance(i)
  /\ UNCHANGED <<stamp, executed, left, runs, timings, details, rows, report,
                 backend>>

(* A record that fits the file buffer reaches the file in one write; a     *)
(* longer one in two, and another process may write in between.            *)
AppendLine(i) ==
  /\ pc[i] = "append"
  /\ jsonl' = Append(jsonl, [key |-> Current(i).key, part |-> "line"])
  /\ Advance(i)
  /\ UNCHANGED <<stamp, executed, left, runs, timings, details, rows, report,
                 backend>>

AppendHead(i) ==
  /\ pc[i] = "append" /\ LongRecords
  /\ jsonl' = Append(jsonl, [key |-> Current(i).key, part |-> "head"])
  /\ Goto(i, "appendRest")
  /\ UNCHANGED <<at, stamp, fresh, executed, left, runs, timings, details, rows,
                 report, backend>>

AppendRest(i) ==
  /\ pc[i] = "appendRest"
  /\ jsonl' = Append(jsonl, [key |-> Current(i).key, part |-> "tail"])
  /\ Advance(i)
  /\ UNCHANGED <<stamp, executed, left, runs, timings, details, rows, report,
                 backend>>

-----------------------------------------------------------------------------
(* The report is made from the suite's rows in the database, those of      *)
(* other invocations included, and overwrites the file.                    *)
ReadRows_Successes(i) ==
  /\ pc[i] = "report"
  /\ rows' = [rows EXCEPT ![i] = {r \in runs : /\ r.suite = Jobs[i].suite
                                              /\ r.status = "success"}]
  /\ Goto(i, "openReport")
  /\ UNCHANGED <<at, stamp, fresh, executed, left, store, report, backend>>

ReadRows(i) ==
  /\ pc[i] = "report"
  /\ rows' = [rows EXCEPT ![i] = {r \in runs : r.suite = Jobs[i].suite}]
  /\ Goto(i, "openReport")
  /\ UNCHANGED <<at, stamp, fresh, executed, left, store, report, backend>>

Text(i) == [by |-> i, suite |-> Jobs[i].suite, rows |-> rows[i]]

(* Path.write_text opens the file, which empties it, and then writes: what *)
(* is written lands after its own earlier writes, also when another        *)
(* invocation emptied the file in between, and replaces what another one   *)
(* wrote there; the surplus of a longer text stays behind it.              *)
OpenReport_NoTruncation(i) ==
  /\ pc[i] = "openReport"
  /\ report' = [head    |-> IF report = None THEN None ELSE report.head,
                rest    |-> IF report = None THEN {} ELSE report.rest,
                writers |-> {i} \cup {j \in Invocations : pc[j] \in Writing}]
  /\ Goto(i, "writeHead")
  /\ UNCHANGED <<at, stamp, fresh, executed, left, store, rows, backend>>

OpenReport(i) ==
  /\ pc[i] = "openReport"
  /\ report' = [head    |-> None,
                rest    |-> {},
                writers |-> {i} \cup {j \in Invocations : pc[j] \in Writing}]
  /\ Goto(i, "writeHead")
  /\ UNCHANGED <<at, stamp, fresh, executed, left, store, rows, backend>>

WriteHead(i) ==
  /\ pc[i] = "writeHead"
  /\ report' = [report EXCEPT !.head = Text(i)]
  /\ Goto(i, "writeRest")
  /\ UNCHANGED <<at, stamp, fresh, executed, left, store, rows, backend>>

WriteRest(i) ==
  /\ pc[i] = "writeRest"
  /\ \E surplus \in {{}, report.rest} :
       report' = [report EXCEPT !.rest = {Text(i)} \cup surplus]
  /\ Goto(i, "done")
  /\ UNCHANGED <<at, stamp, fresh, executed, left, store, rows, backend>>

(* A kill, or an exception nothing catches (a locked database, a full      *)
(* disk): the process is gone, what it committed stays.                    *)
Die(i) ==
  /\ pc[i] \in Active
  /\ Goto(i, "dead")
  /\ UNCHANGED <<at, stamp, fresh, executed, left, store, rows, report, backend>>

(* Environment: the backend loads another model behind the same URL.       *)
SwapModel ==
  /\ swaps < MaxSwaps
  /\ served' \in Models \ {served}
  /\ swaps' = swaps + 1
  /\ UNCHANGED <<pc, at, stamp, fresh, executed, left, store, rows, report>>

Step(i) ==
  \/ Open(i) \/ SkipAlias(i) \/ Identify(i) \/ Execute(i)
  \/ SaveRun(i) \/ SaveTiming(i) \/ SaveDetail(i)
  \/ AppendLine(i) \/ AppendHead(i) \/ AppendRest(i)
  \/ ReadRows(i) \/ OpenReport(i) \/ WriteHead(i) \/ WriteRest(i)

Terminated == (\A i \in Invocations : pc[i] \in Final) /\ UNCHANGED vars

Next == (\E i \in Invocations : Step(i) \/ Die(i)) \/ SwapModel \/ Terminated

(* A live process keeps running: its API calls time out, SQLite's busy     *)
(* handler gives up, and nothing else blocks.                              *)
Fairness == \A i \in Invocations : WF_vars(Step(i))

Spec == Init /\ [][Next]_vars /\ Fairness

-----------------------------------------------------------------------------
(* Derived views of the store.                                             *)

(* How many results of i were stored completely: save_run and              *)
(* save_run_artifact have returned for them.                               *)
Recorded(i) == executed[i] - Len(fresh[i])

HasDetails(r) == \A name \in r.details : <<r.key, name>> \in details
HasLine(r) == \E k \in DOMAIN jsonl : jsonl[k].key = r.key /\ jsonl[k].part # "head"
Complete(r) == r.key \in timings /\ HasDetails(r) /\ HasLine(r)

(* A reader of runs.jsonl gets a record back when its writes make up a line*)
(* of their own.                                                           *)
StartsLine(k) == k = 1 \/ jsonl[k - 1].part # "head"
Readable(key) ==
  \E k \in DOMAIN jsonl :
    /\ jsonl[k].key = key /\ StartsLine(k)
    /\ \/ jsonl[k].part = "line"
       \/ /\ jsonl[k].part = "head" /\ k < Len(jsonl)
          /\ jsonl[k + 1] = [key |-> key, part |-> "tail"]

(* A long record whose second write does not follow its first: its process *)
(* died in between, or another one wrote first.                            *)
Torn(k) ==
  /\ jsonl[k].part = "head"
  /\ k < Len(jsonl)
  /\ jsonl[k + 1] # [key |-> jsonl[k].key, part |-> "tail"]

-----------------------------------------------------------------------------
(* The four commits of a result keep their order in every interleaving: a  *)
(* line of runs.jsonl is never ahead of the database, and a timing or a    *)
(* score never exists without the run it belongs to.                       *)
StoreOrder ==
  /\ \A k \in DOMAIN jsonl :
       \E r \in runs : r.key = jsonl[k].key /\ r.key \in timings /\ HasDetails(r)
  /\ \A key \in timings : \E r \in runs : r.key = key
  /\ \A d \in details : d[1] \in timings

(* However many invocations were killed, each leaves at most one record    *)
(* that is in the runs table and not everywhere else, and it is the one it *)
(* was storing.                                                            *)
OnlyTheCurrentIsPartial ==
  \A r \in runs :
    ~Complete(r) => LET i == r.key[1] IN
      /\ r.key[2] = Recorded(i) + 1
      /\ pc[i] \in {"saveTiming", "saveDetails", "append", "appendRest", "dead"}

(* No invocation stores two results for one model, task, repetition and    *)
(* sweep variant, so averages over its rows weigh every cell once.         *)
OneRowPerCell ==
  \A r, s \in runs : r.key[1] = s.key[1] /\ r.cell = s.cell => r = s

(* The cells an invocation has to run, and the order of its four loops:    *)
(* the n-th cell of the plan is the one with n - 1 cells before it.        *)
Cells(i) ==
  [alias : {k \in DOMAIN Jobs[i].aliases : Jobs[i].aliases[k] \in Configured},
   task : DOMAIN Jobs[i].kinds, run : 1..Jobs[i].runs, variant : 1..Variants(i)]

Before(c, d) ==
  \/ c.alias < d.alias
  \/ /\ c.alias = d.alias
     /\ \/ c.task < d.task
        \/ /\ c.task = d.task
           /\ c.run < d.run \/ (c.run = d.run /\ c.variant < d.variant)

Earlier(i, c) == {d \in Cells(i) : Before(d, c)}

Plan ==
  [i \in Invocations |->
     [n \in 1..Cardinality(Cells(i)) |->
        CHOOSE c \in Cells(i) : Cardinality(Earlier(i, c)) = n - 1]]

(* An invocation that reached its end stored every cell of its plan in the *)
(* three tables and in runs.jsonl.                                         *)
DoneIsComplete ==
  \A i \in Invocations : pc[i] = "done" =>
    \A n \in DOMAIN Plan[i] :
      \E r \in runs : r.key[1] = i /\ r.cell = Plan[i][n] /\ Complete(r)

(* Every part of the report on disk covers all rows the part's author      *)
(* stored, of every model it ran, whatever other invocations do to the     *)
(* database meanwhile and whoever else writes the file.                    *)
ReportCoversItsAuthor ==
  report # None =>
    \A text \in ({report.head} \ {None}) \cup report.rest :
      \A r \in runs : r.key[1] = text.by => r \in text.rows

(* A report is cut or mixed of two texts only if an invocation died while  *)
(* writing it or wrote it while another one did: when the only one that    *)
(* had the file open since it was emptied has ended, the file is its text, *)
(* whole and with nothing left of an earlier report.                       *)
FinishedReportIsWhole ==
  \A i \in Invocations :
    /\ report # None /\ report.writers = {i}
    /\ pc[i] = "done"
    => report.head = Text(i) /\ report.rest = {Text(i)}

(* A result whose line was appended can be read back unless some line of   *)
(* the file is torn: without concurrent writers and kills runs.jsonl is    *)
(* complete.                                                               *)
UnreadableNeedsATear ==
  \A r \in runs :
    r.key[2] <= Recorded(r.key[1]) /\ ~Readable(r.key) =>
      \E k \in DOMAIN jsonl : Torn(k)

(* Every invocation ends: by its report, by refusing to start or by dying. *)
EveryInvocationEnds == \A i \in Invocations : <>(pc[i] \in Final)

-----------------------------------------------------------------------------
(* The invocations implement the ledger: a cell is recorded when the last  *)
(* of its four commits is done.                                            *)
RecordedCell(i, n) == (CHOOSE r \in runs : r.key = <<i, n>>).cell

Ledger == INSTANCE RunLedger WITH
  ledger <- [i \in Invocations |->
               [n \in 1..Recorded(i) |-> RecordedCell(i, n)]],
  phase <- [i \in Invocations |->
              IF pc[i] = "done" THEN "finished"
              ELSE IF pc[i] \in Final THEN "stopped" ELSE "running"]

ImplementsLedger == Ledger!Spec
=============================================================================
