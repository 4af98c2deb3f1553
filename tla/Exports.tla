------------------------------- MODULE Exports -------------------------------
(***************************************************************************)
(* The training-data exports: what each of the six takes from the result   *)
(* store, and the file it writes it to.  The store grows while exports     *)
(* run.  An output path that is not a directory stands for its parent,     *)
(* except for the regression export, which writes a file of that name,     *)
(* whatever file that is.                                                  *)
(* Scores and margins are whole numbers, 0 the lowest.                     *)
(***************************************************************************)
EXTENDS RunRows

CONSTANTS
  Suites,      \* suites of the database
  RowShapes,   \* rows of runs, without their identifier
  PairShapes,  \* rows of pairwise_comparisons, without their identifier
  Outs,        \* names in the output paths that are passed; "exports" is one
  Cutoffs,     \* values of min_score and of min_margin
  MaxSaves, MaxExports  \* bounds of the runs

Kinds == {"sft", "preference", "preference_pairwise", "regression", "judge", "judge_pairwise"}

ASSUME ShapeAssumption ==
  /\ "exports" \in Outs /\ "." \notin Outs /\ None \notin Outs \cup Nat
  /\ \A r \in RowShapes :
       /\ {"suite", "task", "status", "score", "text", "error"} \subseteq DOMAIN r
       /\ r.suite \in Suites /\ r.score \in Nat \cup {None}
  /\ \A p \in PairShapes :
       /\ {"task", "a", "b", "winner"} \subseteq DOMAIN p
       /\ p.winner \in {"A", "B", "tie"} /\ p.a # p.b
  /\ Cutoffs \subseteq Nat /\ MaxSaves \in Nat /\ MaxExports \in Nat

VARIABLES
  stored,  \* the table runs, newest first
  evals,   \* the table judge_evaluations, newest first
  pairs,   \* the table pairwise_comparisons, newest first
  place,   \* what is at each name of Outs: "absent", "dir" or "file"
  files,   \* the exports that can be read: path -> what kind of records, and which
  last,    \* kind -> what its latest export returned and wrote
  done     \* exports so far

exportVars == <<stored, evals, pairs, place, files, last, done>>
store == <<stored, evals, pairs>>

TypeOK ==
  /\ \A i \in DOMAIN stored : stored[i].suite \in Suites /\ stored[i].id = Len(stored) - i + 1
  /\ \A i \in DOMAIN evals :
       evals[i].id = Len(evals) - i + 1 /\ \E r \in ToSet(stored) : r.id = evals[i].run
  /\ \A i \in DOMAIN pairs : pairs[i].id = Len(pairs) - i + 1
  /\ place \in [Outs -> {"absent", "dir", "file"}]
  /\ DOMAIN last = Kinds
  /\ \A path \in DOMAIN files : path[1] \in Outs => place[path[1]] = "dir"
  /\ \A p \in Outs : <<".", p>> \in DOMAIN files => place[p] = "file"
  /\ done \in 0..MaxExports

ExportInit ==
  /\ stored = <<>> /\ evals = <<>> /\ pairs = <<>>
  /\ place = [p \in Outs |-> "absent"]
  /\ files = <<>>
  /\ last = [k \in Kinds |-> None]
  /\ done = 0

-----------------------------------------------------------------------------
(* Writers of the store.                                                   *)
Saves == Len(stored) + Len(evals) + Len(pairs)

(* A row under the identifier it is stored with.                           *)
Numbered(shape, n) == [f \in DOMAIN shape \cup {"id"} |-> IF f = "id" THEN n ELSE shape[f]]

SaveRun(shape) ==
  /\ Saves < MaxSaves
  /\ stored' = <<Numbered(shape, Len(stored) + 1)>> \o stored
  /\ UNCHANGED <<evals, pairs, place, files, last, done>>

SaveEvaluation(run) ==
  /\ Saves < MaxSaves
  /\ evals' = <<[id |-> Len(evals) + 1, run |-> run]>> \o evals
  /\ UNCHANGED <<stored, pairs, place, files, last, done>>

SavePairwise(shape) ==
  /\ Saves < MaxSaves
  /\ pairs' = <<Numbered(shape, Len(pairs) + 1)>> \o pairs
  /\ UNCHANGED <<stored, evals, place, files, last, done>>

(* Someone makes the directory they will pass as the output path.          *)
MakeDir(p) ==
  /\ place[p] = "absent"
  /\ place' = [place EXCEPT ![p] = "dir"]
  /\ UNCHANGED <<store, files, last, done>>

-----------------------------------------------------------------------------
(* The queries.                                                            *)
RunsOf(s) == Kept(stored, LAMBDA r : r.suite = s)
EvalsOf(s) == Kept(evals, LAMBDA e : \E r \in ToSet(RunsOf(s)) : r.id = e.run)

(* Comparisons know their task and not their suite: the join repeats one   *)
(* for every run of its task.                                              *)
PairsOf(s) ==
  LET runs == RunsOf(s)
      Copies(p) == [n \in 1..Len(Kept(runs, LAMBDA r : r.task = p.task)) |-> p]
  IN FlattenSeq([i \in DOMAIN pairs |-> Copies(pairs[i])])

(* The records of each export.                                             *)
Sft(s, min) ==
  Kept(RunsOf(s), LAMBDA r :
    r.status = "success" /\ r.score # None /\ r.score >= min /\ r.text)

(* The best and the worst run of a task: the ends of a stable sort.        *)
Usable(s) == Kept(RunsOf(s), LAMBDA r : r.status = "success" /\ r.score # None)
ByScore(usable, t) == Descending(Group(usable, Task, t), LAMBDA r : Whole(r.score))
Widest_LastOfBest(usable, t) ==
  LET ranked == ByScore(usable, t)
  IN [task |-> t, chosen |-> ranked[1], rejected |-> ranked[2]]
Widest(usable, t) ==
  LET ranked == ByScore(usable, t)
  IN [task |-> t, chosen |-> ranked[1], rejected |-> Last(ranked)]

TaskPairs(usable) ==
  LET ts == Kept(Keys(usable, Task), LAMBDA t : Len(ByScore(usable, t)) >= 2)
  IN [i \in DOMAIN ts |-> Widest(usable, ts[i])]
Preference(s, margin) ==
  Kept(TaskPairs(Usable(s)), LAMBDA p : p.chosen.score - p.rejected.score >= margin)

(* Whatever a human said of the comparison.                                *)
Turned(p) == IF p.winner = "A" THEN [of |-> p.id, chosen |-> p.a, rejected |-> p.b]
                               ELSE [of |-> p.id, chosen |-> p.b, rejected |-> p.a]
PairPreference(s) ==
  LET decided == Kept(PairsOf(s), LAMBDA p : p.winner # "tie")
  IN [i \in DOMAIN decided |-> Turned(decided[i])]

(* Failed runs by task, but for those with neither an answer nor an error. *)
Failed(r) == r.status = "error" \/ r.score = 0
Regression(s) ==
  LET kept == Kept(RunsOf(s), LAMBDA r : Failed(r) /\ (r.text \/ r.error))
  IN {[task |-> t, failures |-> Group(kept, Task, t)] : t \in ToSet(Keys(kept, Task))}

Records(kind, s, min) ==
  CASE kind = "sft" -> Sft(s, min)
    [] kind = "preference" -> Preference(s, min)
    [] kind = "preference_pairwise" -> PairPreference(s)
    [] kind = "regression" -> Regression(s)
    [] kind = "judge" -> EvalsOf(s)
    [] kind = "judge_pairwise" -> PairsOf(s)

-----------------------------------------------------------------------------
(* Where an export goes.  Every kind has a file name of its own.           *)
FileName_Shared(kind) ==
  IF kind \in {"preference", "preference_pairwise"} THEN "preference" ELSE kind
FileName(kind) == kind

Resolve(kind, arg) ==
  CASE arg = None -> <<"exports", FileName(kind)>>
    [] arg # None /\ place[arg] = "dir" -> <<arg, FileName(kind)>>
    [] arg # None /\ place[arg] # "dir" ->
         <<".", IF kind = "regression" THEN arg ELSE FileName(kind)>>

(* A path d/n, where no directory is.                                      *)
Below(kind, d, n) == <<d, IF kind = "regression" THEN n ELSE FileName(kind)>>

PathsFor(kind) ==
  {Resolve(kind, arg) : arg \in Outs \cup {None}} \cup {Below(kind, d, n) : d, n \in Outs}

(* A directory that is missing is made; a file in its place, or a          *)
(* directory in the place of the file, is an error, and the export ends    *)
(* without writing.                                                        *)
Made_NoDirectory(path) ==
  [p \in Outs |-> IF path = <<".", p>> THEN "file" ELSE place[p]]

Made(path) ==
  [p \in Outs |-> IF p = path[1] THEN "dir" ELSE IF path = <<".", p>> THEN "file" ELSE place[p]]

Writable(path) ==
  \A p \in Outs : (p = path[1] => place[p] # "file") /\ (path = <<".", p>> => place[p] # "dir")

Export(kind, s, path, min) ==
  LET written == [kind |-> kind, records |-> Records(kind, s, min)]
  IN /\ done < MaxExports
     /\ Writable(path)
     /\ place' = Made(path)
     /\ files' = [q \in DOMAIN files \cup {path} |-> IF q = path THEN written ELSE files[q]]
     /\ last' = [last EXCEPT ![kind] = [path |-> path, records |-> written.records]]
     /\ done' = done + 1
     /\ UNCHANGED store

(* Only two of the exports have a cutoff.                                  *)
CutoffsOf(kind) == IF kind \in {"sft", "preference"} THEN Cutoffs ELSE {0}

ExportNext ==
  \/ \E shape \in RowShapes : SaveRun(shape)
  \/ \E i \in DOMAIN stored : SaveEvaluation(stored[i].id)
  \/ \E shape \in PairShapes : SavePairwise(shape)
  \/ \E p \in Outs : MakeDir(p)
  \/ \E kind \in Kinds, s \in Suites :
       \E path \in PathsFor(kind), min \in CutoffsOf(kind) : Export(kind, s, path, min)

ExportSpec == ExportInit /\ [][ExportNext]_exportVars

-----------------------------------------------------------------------------
(* The path an export returned keeps its records until the same kind is    *)
(* exported again, whatever else is exported, with one exception: two      *)
(* kinds meet in one file only if one of them is the regression export and *)
(* was passed a path with the other's file name.  Not even a path that was *)
(* not a directory, and became a regression file, makes two others meet.   *)
Meet(kind, other, path) ==
  /\ kind # other
  /\ path[2] \in Outs /\ path[2] # FileName("regression")
  /\ \/ other = "regression" /\ path[2] = FileName(kind)
     \/ kind = "regression" /\ path[2] = FileName(other)

LatestIsReadable ==
  \A k \in Kinds : last[k] # None =>
    LET path == last[k].path
    IN /\ path \in DOMAIN files
       /\ \/ files[path] = [kind |-> k, records |-> last[k].records]
          \/ Meet(k, files[path].kind, path)

(* A score-based preference is the widest of its task: two different runs, *)
(* with no other two usable ones farther apart, ties included; one record  *)
(* a task; and a task whose runs differ by the margin is never left out.   *)
PreferenceIsWidest ==
  \A s \in Suites, margin \in Cutoffs :
    LET records == ToSet(Preference(s, margin))
        usable == {r \in ToSet(stored) : r.suite = s /\ r.status = "success" /\ r.score # None}
    IN /\ \A p \in records : {p.chosen, p.rejected} \subseteq usable /\ p.chosen.id # p.rejected.id
       /\ Cardinality({p.task : p \in records}) = Len(Preference(s, margin))
       /\ \A r, q \in usable : (r.id # q.id /\ r.task = q.task /\ r.score - q.score >= margin) =>
            \E p \in records :
              p.task = r.task /\ p.chosen.score >= r.score /\ p.rejected.score <= q.score

(* What a model is taught and also tested on as a failure is what scored   *)
(* zero and was let through by a cutoff of zero, the default of the SFT    *)
(* export: every success of the suite that has a text and scored zero, and *)
(* as a preference a run chosen from runs that all scored zero.            *)
TaughtFailuresScoreZero ==
  \A s \in Suites, min \in Cutoffs :
    LET failures == UNION {ToSet(t.failures) : t \in Regression(s)}
    IN /\ failures \cap ToSet(Sft(s, min)) =
            {r \in ToSet(stored) : /\ r.suite = s /\ r.status = "success" /\ r.text
                                   /\ r.score = 0 /\ min = 0}
       /\ \A p \in ToSet(Preference(s, min)) :
            p.chosen \in failures => min = 0 /\ p.chosen.score = 0 /\ p.rejected.score = 0

(* What the joins make of the judge's tables: an evaluation is exported in *)
(* one suite, once.  A comparison is exported by every suite that ran its  *)
(* task, by whatever models, once a run; and it is a preference as often,  *)
(* with the winner chosen, unless it is a tie.                             *)
JudgeRecordsCount ==
  LET Occurrences(seq, P(_)) == Len(Kept(seq, P))
  IN /\ \A e \in ToSet(evals) :
          \E s \in Suites : \A u \in Suites :
            Occurrences(EvalsOf(u), LAMBDA x : x = e) = IF u = s THEN 1 ELSE 0
     /\ \A s \in Suites, c \in ToSet(pairs) :
          LET n == Occurrences(RunsOf(s), LAMBDA r : r.task = c.task)
              winner == IF c.winner = "A" THEN c.a ELSE c.b
          IN /\ Occurrences(PairsOf(s), LAMBDA x : x = c) = n
             /\ Occurrences(PairPreference(s), LAMBDA x : x.of = c.id /\ x.chosen = winner)
                  = IF c.winner = "tie" THEN 0 ELSE n

(* What is exported follows from the store: the preferences are the widest,*)
(* what is taught though it is tested as a failure scored zero, and the    *)
(* judge's records are as many as the runs they are joined with.           *)
RecordsFollowTheStore == PreferenceIsWidest /\ TaughtFailuresScoreZero /\ JudgeRecordsCount
=============================================================================
