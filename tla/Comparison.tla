----------------------------- MODULE Comparison -----------------------------
(***************************************************************************)
(* What is said of two databases, prior (the baseline) and rows (the       *)
(* candidate), by compare_runs and by the regression section of a report;  *)
(* and the regression suite made of one.  Runs are compared by task and    *)
(* model.                                                                  *)
(***************************************************************************)
EXTENDS Reports

CONSTANTS
  ScoreThreshold,  \* the least change of a score that is flagged, a fraction
  TpsThreshold,    \* the least relative change of a time or a speed
  MaxTasks         \* the tasks of a regression suite besides the failed ones

ASSUME ThresholdAssumption ==
  /\ {ScoreThreshold, TpsThreshold} \subseteq [num : Int, den : Nat \ {0}]
  /\ Lt(Zero, ScoreThreshold) /\ Le(Zero, TpsThreshold)
  /\ MaxTasks \in Nat

(* detect_regressions: the keys scored in both whose averages differ by at *)
(* least the tolerance, the greatest drop first.                           *)
Far_OnlyDrops(delta, tolerance) == Le(delta, Minus(Zero, tolerance))

Far(delta, tolerance) == Le(delta, Minus(Zero, tolerance)) \/ Le(tolerance, delta)

DetectRegressions(new, old, tolerance) ==
  LET ks == Kept(Keys(Scored(new), InTask), LAMBDA k : Scored(Group(old, InTask, k)) # <<>>)
      Change(k) == [key |-> k, old |-> ScoreIn(old, InTask, k), new |-> ScoreIn(new, InTask, k),
                    delta |-> Minus(ScoreIn(new, InTask, k), ScoreIn(old, InTask, k))]
      far == Kept([i \in DOMAIN ks |-> Change(ks[i])], LAMBDA c : Far(c.delta, tolerance))
  IN Descending(far, LAMBDA c : Minus(Zero, c.delta))

Regressed(changes) == {c \in ToSet(changes) : Lt(c.delta, Zero)}
Improved(changes) == ToSet(changes) \ Regressed(changes)

(* The regression section of v2 compares whole lists, and only if there is *)
(* a prior one; compare_runs calls the same with the rows of one key.      *)
Section(new, old) == IF old = <<>> THEN <<>> ELSE DetectRegressions(new, old, ScoreThreshold)

Both(new, old) == ToSet(Keys(new, InTask)) \cap ToSet(Keys(old, InTask))

QualityOf(new, old, k) ==
  DetectRegressions(Group(new, InTask, k), Group(old, InTask, k), ScoreThreshold)

(* Wall times and speeds above zero, by their change relative to the       *)
(* baseline's average.                                                     *)
Rose(old, new) ==
  /\ old # <<>> /\ new # <<>>
  /\ Lt(Times(Avg(old), TpsThreshold), Minus(Avg(new), Avg(old)))
Fell(old, new) ==
  /\ old # <<>> /\ new # <<>>
  /\ Lt(Times(Avg(old), TpsThreshold), Minus(Avg(old), Avg(new)))

Walls(rs, k) ==
  LET s == Kept(rs, LAMBDA r : InTask(r) = k /\ r.wall > 0) IN [i \in DOMAIN s |-> s[i].wall]
Speeds(rs, k) ==
  LET s == Kept(rs, LAMBDA r : InTask(r) = k /\ r.tps > 0) IN [i \in DOMAIN s |-> s[i].tps]

Slower(new, old) ==
  {[key |-> k, metric |-> "wall"] : k \in {k \in Both(new, old) : Rose(Walls(old, k), Walls(new, k))}}
  \cup {[key |-> k, metric |-> "tps"] : k \in {k \in Both(new, old) : Fell(Speeds(old, k), Speeds(new, k))}}

Faster(new, old) ==
  {[key |-> k, metric |-> "wall"] : k \in {k \in Both(new, old) : Fell(Walls(old, k), Walls(new, k))}}
  \cup {[key |-> k, metric |-> "tps"] : k \in {k \in Both(new, old) : Rose(Speeds(old, k), Speeds(new, k))}}

(* Crash changes: keys that only one database has, if they crashed there   *)
(* or were scored.                                                         *)
Crashed(rs, k) == \E r \in ToSet(rs) : InTask(r) = k /\ r.status = "error"
OnlyIn(rs, others) ==
  {[key |-> k, crashed |-> Crashed(rs, k)] :
     k \in {k \in ToSet(Keys(rs, InTask)) \ ToSet(Keys(others, InTask)) :
              Crashed(rs, k) \/ Scored(Group(rs, InTask, k)) # <<>>}}

(* compare_runs, key by key.                                               *)
CompareRuns(old, new) ==
  [regressions  |-> UNION {Regressed(QualityOf(new, old, k)) : k \in Both(new, old)},
   improvements |-> UNION {Improved(QualityOf(new, old, k)) : k \in Both(new, old)},
   slower |-> Slower(new, old),
   faster |-> Faster(new, old),
   lost   |-> OnlyIn(old, new),
   gained |-> OnlyIn(new, old)]

-----------------------------------------------------------------------------
(* The regression suite of a database.                                     *)
HasFailed(r) == r.status = "error" \/ r.score = 0
FailedTasks(rs) == {r.task : r \in {r \in ToSet(rs) : HasFailed(r)}}

Cut(s, n) == SubSeq(s, 1, Min({n, Len(s)}))

HighVariance(rs) ==
  LET ts == Discriminating(rs) IN Cut([i \in DOMAIN ts |-> ts[i].task], MaxTasks)

(* Without prior runs detect_regressions finds nothing, so the lowest      *)
(* averages are taken.                                                     *)
LowestAverage(rs) ==
  Cut(Descending(Keys(Scored(rs), Task), LAMBDA t : Minus(Zero, ScoreIn(rs, Task, t))), MaxTasks)

Selected_Intersection(rs) ==
  LET high == IF HighVariance(rs) # <<>> THEN HighVariance(rs) ELSE LowestAverage(rs)
  IN IF FailedTasks(rs) = {} THEN ToSet(high) ELSE FailedTasks(rs) \cap ToSet(high)

Selected(rs) ==
  LET high == IF HighVariance(rs) # <<>> THEN HighVariance(rs) ELSE LowestAverage(rs)
  IN ToSet(high) \cup FailedTasks(rs)

(* Failed tasks first, then by identifier.                                 *)
RegressionSuite(rs) ==
  LET Ids(ts) == Kept(Alphabet, LAMBDA t : t \in ts)
      Entry(t) == [id |-> t, failures |-> Len(Kept(rs, LAMBDA r : r.task = t /\ HasFailed(r)))]
      InOrder(ts, failed) == Ids(ts \cap failed) \o Ids(ts \ failed)
      Entries(order) == [i \in DOMAIN order |-> Entry(order[i])]
  IN IF rs = <<>> THEN <<>> ELSE Entries(InOrder(Selected(rs), FailedTasks(rs)))

-----------------------------------------------------------------------------
(* Swapping the databases swaps the verdicts: what regressed improves by   *)
(* as much, what was only in one is only in the other; and no time or      *)
(* speed is worse, or better, both ways.                                   *)
SwapMirrors ==
  LET there == CompareRuns(prior, rows)
      back == CompareRuns(rows, prior)
      Mirrored(cs, ds) == \A c \in cs : \E d \in ds :
        d.key = c.key /\ Same(d.old, c.new) /\ Same(d.new, c.old)
  IN /\ Mirrored(there.regressions, back.improvements)
     /\ Mirrored(back.improvements, there.regressions)
     /\ there.lost = back.gained /\ there.gained = back.lost
     /\ there.slower \cap back.slower = {} /\ there.faster \cap back.faster = {}

(* No verdict is contradicted, and a database compared with itself gets    *)
(* none.                                                                   *)
VerdictsAreConsistent ==
  LET c == CompareRuns(prior, rows)
      self == CompareRuns(rows, rows)
  IN /\ c.slower \cap c.faster = {}
     /\ \A r \in c.regressions, i \in c.improvements : r.key # i.key
     /\ \A x \in DOMAIN self : self[x] = {}

(* A report and the compare command agree: the regression section of v2,   *)
(* over all rows at once, lists what compare_runs finds key by key, the    *)
(* regressions before the improvements and no key twice.                   *)
SectionIsTheComparison ==
  LET section == Section(rows, prior)
      c == CompareRuns(prior, rows)
  IN /\ Regressed(section) = c.regressions /\ Improved(section) = c.improvements
     /\ \A i, j \in DOMAIN section : i < j =>
          section[i].key # section[j].key /\ Le(section[i].delta, section[j].delta)

(* The suite keeps every failure: each failed task once, before all others,*)
(* with its failures; at most MaxTasks others; and each part in the order  *)
(* of the identifiers, not of the variance.                                *)
SuiteKeepsFailures ==
  \E suite \in {RegressionSuite(rows)} :
  LET failed == {i \in DOMAIN suite : suite[i].id \in FailedTasks(rows)}
      Named(t, u) == \E k, l \in DOMAIN Alphabet : k < l /\ Alphabet[k] = t /\ Alphabet[l] = u
  IN /\ FailedTasks(rows) = {suite[i].id : i \in failed}
     /\ \A i, j \in DOMAIN suite : i # j => suite[i].id # suite[j].id
     /\ \A i \in failed, j \in DOMAIN suite \ failed : i < j
     /\ \A i \in DOMAIN suite : suite[i].failures > 0 <=> i \in failed
     /\ Len(suite) <= Cardinality(failed) + MaxTasks
     /\ \A i, j \in DOMAIN suite : i < j /\ (i \in failed <=> j \in failed)
          => Named(suite[i].id, suite[j].id)

(* The suite keeps what separates: a task with two scores or more is left  *)
(* out only for tasks with as much variance, at least MaxTasks of them,    *)
(* failed or not; and every task of the suite that did not fail is one of  *)
(* those.                                                                  *)
Twice(rs) == {t \in {r.task : r \in ToSet(rs)} : Len(Scored(Group(rs, Task, t))) >= 2}
Spread(rs, t) == Variance(Scores(Scored(Group(rs, Task, t))))
AsSpread(rs, t) == {u \in Twice(rs) : Le(Spread(rs, t), Spread(rs, u))}

SuiteKeepsSpread ==
  \E suite \in {RegressionSuite(rows)} :
  LET kept == {suite[i].id : i \in DOMAIN suite}
  IN \A t \in Twice(rows) \ kept :
       /\ Cardinality(kept \cap AsSpread(rows, t)) >= MaxTasks
       /\ kept \ FailedTasks(rows) \subseteq AsSpread(rows, t)

(* A comparison is a verdict on two databases, whichever is named first and*)
(* whoever computes it: it is mirrored when they are swapped, contradicts  *)
(* itself nowhere, and is the one the regression section of v2 prints.     *)
VerdictsAgree == SwapMirrors /\ VerdictsAreConsistent /\ SectionIsTheComparison

(* The suite made for the next regression run keeps what the database      *)
(* teaches: every failure, whatever the cap, and of the tasks that separate*)
(* runs those that separate them most.                                     *)
SuiteIsSelected == SuiteKeepsFailures /\ SuiteKeepsSpread
=============================================================================
