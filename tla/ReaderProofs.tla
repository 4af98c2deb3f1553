---------------------------- MODULE ReaderProofs ----------------------------
(***************************************************************************)
(* Proofs about the readers of the table runs, for any rows: Exports,      *)
(* Reports, Comparison and PromptOptimization.                             *)
(*                                                                         *)
(* Exports, for any store, suites, output paths and number of exports: the *)
(* paths of a kind end in its own name, but for those of the regression    *)
(* export, which may end in any name that is passed; so two kinds write    *)
(* one file only if it is one of them and the name is the other's.  The    *)
(* tables stay numbered, and what the six exports select, sort, join and   *)
(* count follows from that.                                                *)
(*                                                                         *)
(* Reports, Comparison and PromptOptimization, for any fills: whatever     *)
(* rows a database got, they are rows of its fill (FillInv), and what is   *)
(* computed of such rows is proved section by section, in the order in     *)
(* which the theorems stand.                                               *)
(***************************************************************************)
EXTENDS Exports, Comparison, PromptOptimization, DataLemmas

PathsOf(kind) ==
  {<<d, FileName(kind)>> : d \in Outs \cup {"."}}
  \cup (IF kind = "regression" THEN {<<d, n>> : d \in Outs \cup {"."}, n \in Outs} ELSE {})
LastAt(k) ==
  last[k] # None =>
    /\ last[k].path \in PathsOf(k)
    /\ last[k].path \in DOMAIN files
    /\ \/ files[last[k].path] = [kind |-> k, records |-> last[k].records]
       \/ Meet(k, files[last[k].path].kind, last[k].path)
IInv == DOMAIN last = Kinds /\ \A k \in Kinds : LastAt(k)

-----------------------------------------------------------------------------
(* Paths: every kind of export has its own, but for the regression export. *)
LEMMA PathsMeet ==
  ASSUME NEW k \in Kinds, NEW l \in Kinds, k # l, NEW path \in PathsOf(k) \cap PathsOf(l)
  PROVE  Meet(k, l, path)
<1>1. ASSUME NEW m \in Kinds, path \in PathsOf(m)
      PROVE  path[2] = m \/ (m = "regression" /\ path[2] \in Outs)
  BY <1>1 DEF PathsOf, FileName
<1> QED BY <1>1 DEF Meet, FileName

LEMMA PathsForAreOwn ==
  ASSUME NEW kind \in Kinds, NEW path \in PathsFor(kind)
  PROVE  path \in PathsOf(kind)
<1>1. ASSUME NEW d \in Outs, NEW n \in Outs PROVE Below(kind, d, n) \in PathsOf(kind)
  BY DEF Below, PathsOf
<1>2. ASSUME NEW arg \in Outs \cup {None} PROVE Resolve(kind, arg) \in PathsOf(kind)
  <2>1. CASE arg = None
    BY <2>1, ShapeAssumption DEF Resolve, PathsOf
  <2>2. CASE arg # None /\ place[arg] = "dir"
    BY <2>2 DEF Resolve, PathsOf
  <2>3. CASE arg # None /\ place[arg] # "dir"
    BY <2>3 DEF Resolve, PathsOf
  <2> QED BY <2>1, <2>2, <2>3
<1> QED BY <1>1, <1>2 DEF PathsFor

LEMMA InitIInv == ExportInit => IInv
BY DEF ExportInit, IInv, LastAt

LEMMA StepIInv == IInv /\ [ExportNext]_exportVars => IInv'
<1> SUFFICES ASSUME IInv, [ExportNext]_exportVars PROVE IInv'
  OBVIOUS
<1>1. ASSUME UNCHANGED <<files, last>> PROVE IInv'
  BY <1>1 DEF IInv, LastAt, PathsOf, FileName, Meet
<1>2. ASSUME NEW kind \in Kinds, NEW s \in Suites, NEW path \in PathsFor(kind),
             NEW min \in CutoffsOf(kind), Export(kind, s, path, min)
      PROVE IInv'
  <2> DEFINE written == [kind |-> kind, records |-> Records(kind, s, min)]
  <2>1. /\ files' = [q \in DOMAIN files \cup {path} |-> IF q = path THEN written ELSE files[q]]
        /\ last' = [last EXCEPT ![kind] = [path |-> path, records |-> written.records]]
    BY <1>2 DEF Export
  <2>2. written = [kind |-> kind, records |-> written.records] /\ written.kind = kind
    OBVIOUS
  <2> HIDE DEF written
  <2>3. path \in PathsOf(kind)
    BY PathsForAreOwn
  <2> SUFFICES ASSUME NEW k \in Kinds PROVE LastAt(k)'
    BY <2>1 DEF IInv
  <2>4. CASE k = kind
    <3>1. last'[k] = [path |-> path, records |-> written.records]
      BY <2>1, <2>4 DEF IInv
    <3>2. files'[path] = written /\ path \in DOMAIN files'
      BY <2>1
    <3> QED BY <2>2, <2>3, <2>4, <3>1, <3>2 DEF LastAt, PathsOf, FileName
  <2>5. CASE k # kind
    <3>1. last'[k] = last[k] /\ LastAt(k)
      BY <2>1, <2>5 DEF IInv
    <3>2. CASE last[k] # None /\ last[k].path = path
      <4>1. path \in DOMAIN files' /\ files'[path].kind = kind /\ path \in PathsOf(k)
        BY <2>1, <2>2, <3>1, <3>2 DEF LastAt
      <4>2. Meet(k, kind, path)
        BY <2>3, <2>5, <4>1, PathsMeet
      <4> QED BY <3>1, <3>2, <4>1, <4>2 DEF LastAt, PathsOf, FileName, Meet
    <3>3. CASE last[k] # None /\ last[k].path # path
      <4>1. last[k].path \in DOMAIN files' /\ files'[last[k].path] = files[last[k].path]
        BY <2>1, <3>1, <3>3 DEF LastAt
      <4> QED BY <3>1, <3>3, <4>1 DEF LastAt, PathsOf, FileName, Meet
    <3> QED BY <3>1, <3>2, <3>3 DEF LastAt
  <2> QED BY <2>4, <2>5
<1>3. ASSUME NEW shape, SaveRun(shape) \/ SavePairwise(shape) \/ SaveEvaluation(shape) \/ MakeDir(shape)
      PROVE UNCHANGED <<files, last>>
  BY <1>3 DEF SaveRun, SavePairwise, SaveEvaluation, MakeDir
<1>4. UNCHANGED exportVars => UNCHANGED <<files, last>>
  BY DEF exportVars
<1> QED BY <1>1, <1>2, <1>3, <1>4 DEF ExportNext

(* Whatever is exported to whatever paths, what the latest export of a     *)
(* kind returned is where its records are, unless it or what replaced it   *)
(* is a regression export that was passed the file name of the other.      *)
THEOREM LatestStays == ExportSpec => []LatestIsReadable
<1>1. ExportInit => IInv
  BY InitIInv
<1>2. IInv /\ [ExportNext]_exportVars => IInv'
  BY StepIInv
<1>3. IInv => LatestIsReadable
  BY DEF IInv, LastAt, LatestIsReadable
<1> QED BY <1>1, <1>2, <1>3, PTL DEF ExportSpec

-----------------------------------------------------------------------------
(* The tables and the output paths.                                        *)
Table(shapes) == {Numbered(shape, n) : shape \in shapes, n \in Nat}
TableInv ==
  /\ stored \in Seq(Table(RowShapes)) /\ pairs \in Seq(Table(PairShapes))
  /\ evals \in Seq([id : Nat, run : Nat])
TypeInv == TypeOK /\ TableInv

LEMMA NumberedFields ==
  ASSUME NEW shape, NEW n
  PROVE  /\ Numbered(shape, n).id = n
         /\ \A f \in DOMAIN shape \ {"id"} : Numbered(shape, n)[f] = shape[f]
BY DEF Numbered

-----------------------------------------------------------------------------
(* The type invariant, with numbered tables.                               *)
LEMMA InitTypeInv == ExportInit => TypeInv
BY ShapeAssumption DEF ExportInit, TypeInv, TypeOK, TableInv

LEMMA StepTypeInv == TypeInv /\ [ExportNext]_exportVars => TypeInv'
<1> SUFFICES ASSUME TypeInv, [ExportNext]_exportVars PROVE TypeInv'
  OBVIOUS
<1>1. ASSUME NEW shape \in RowShapes, SaveRun(shape) PROVE TypeInv'
  <2> DEFINE x == Numbered(shape, Len(stored) + 1)
  <2>1. stored' = <<x>> \o stored /\ UNCHANGED <<evals, pairs, place, files, last, done>>
    BY <1>1 DEF SaveRun
  <2>2. stored \in Seq(Table(RowShapes)) /\ Len(stored) \in Nat
    BY DEF TypeInv, TableInv
  <2>3. x \in Table(RowShapes)
    BY <2>2 DEF Table
  <2>4. x.id = Len(stored) + 1 /\ x.suite \in Suites
    BY ShapeAssumption DEF Numbered
  <2> HIDE DEF x
  <2>5. /\ stored' \in Seq(Table(RowShapes)) /\ Len(stored') = Len(stored) + 1
        /\ stored'[1] = x /\ DOMAIN stored' = 1..Len(stored)+1
        /\ \A i \in DOMAIN stored' \ {1} : i - 1 \in DOMAIN stored /\ stored'[i] = stored[i - 1]
        /\ ToSet(stored') = ToSet(stored) \cup {x}
    BY <2>1, <2>2, <2>3, PutFirst
  <2>6. ASSUME NEW i \in DOMAIN stored'
        PROVE  stored'[i].suite \in Suites /\ stored'[i].id = Len(stored') - i + 1
    <3>1. CASE i = 1
      BY <2>2, <2>4, <2>5, <3>1
    <3>2. CASE i # 1
      <4>1. i - 1 \in DOMAIN stored /\ stored'[i] = stored[i - 1] /\ i \in Int
        BY <2>5, <3>2
      <4>2. stored[i - 1].suite \in Suites /\ stored[i - 1].id = Len(stored) - (i - 1) + 1
        BY <4>1 DEF TypeInv, TypeOK
      <4> QED BY <2>2, <2>5, <4>1, <4>2
    <3> QED BY <3>1, <3>2
  <2>7. \A i \in DOMAIN evals' :
          evals'[i].id = Len(evals') - i + 1 /\ \E r \in ToSet(stored') : r.id = evals'[i].run
    BY <2>1, <2>5 DEF TypeInv, TypeOK
  <2> QED BY <2>1, <2>5, <2>6, <2>7 DEF TypeInv, TypeOK, TableInv
<1>2. ASSUME NEW k \in DOMAIN stored, SaveEvaluation(stored[k].id) PROVE TypeInv'
  <2> DEFINE x == [id |-> Len(evals) + 1, run |-> stored[k].id]
  <2>1. evals' = <<x>> \o evals /\ UNCHANGED <<stored, pairs, place, files, last, done>>
    BY <1>2 DEF SaveEvaluation
  <2>2. evals \in Seq([id : Nat, run : Nat]) /\ Len(evals) \in Nat /\ Len(stored) \in Nat
        /\ stored \in Seq(Table(RowShapes))
    BY DEF TypeInv, TableInv
  <2>3. stored[k].id = Len(stored) - k + 1 /\ k \in 1..Len(stored)
    BY <2>2 DEF TypeInv, TypeOK
  <2>4. x \in [id : Nat, run : Nat] /\ x.run = stored[k].id /\ x.id = Len(evals) + 1
    BY <2>2, <2>3
  <2> HIDE DEF x
  <2>5. /\ evals' \in Seq([id : Nat, run : Nat]) /\ evals'[1] = x
        /\ Len(evals') = Len(evals) + 1 /\ DOMAIN evals' = 1..Len(evals)+1
        /\ \A i \in DOMAIN evals' \ {1} : i - 1 \in DOMAIN evals /\ evals'[i] = evals[i - 1]
    BY <2>1, <2>2, <2>4, PutFirst
  <2>6. stored[k] \in ToSet(stored)
    BY DEF ToSet
  <2>7. ASSUME NEW i \in DOMAIN evals'
        PROVE  /\ evals'[i].id = Len(evals') - i + 1
               /\ \E r \in ToSet(stored) : r.id = evals'[i].run
    <3>1. CASE i = 1
      <4>1. evals'[i] = x /\ Len(evals') - i + 1 = Len(evals) + 1
        BY <2>2, <2>5, <3>1
      <4> QED BY <2>4, <2>6, <4>1
    <3>2. CASE i # 1
      <4>1. i - 1 \in DOMAIN evals /\ evals'[i] = evals[i - 1] /\ i \in Int
        BY <2>5, <3>2
      <4>2. /\ evals[i - 1].id = Len(evals) - (i - 1) + 1
            /\ \E r \in ToSet(stored) : r.id = evals[i - 1].run
        BY <4>1 DEF TypeInv, TypeOK
      <4>3. Len(evals') - i + 1 = Len(evals) - (i - 1) + 1
        BY <2>2, <2>5, <4>1
      <4> QED BY <4>1, <4>2, <4>3
    <3> QED BY <3>1, <3>2
  <2> QED BY <2>1, <2>5, <2>7 DEF TypeInv, TypeOK, TableInv
<1>3. ASSUME NEW shape \in PairShapes, SavePairwise(shape) PROVE TypeInv'
  <2> DEFINE x == Numbered(shape, Len(pairs) + 1)
  <2>1. pairs' = <<x>> \o pairs /\ UNCHANGED <<stored, evals, place, files, last, done>>
    BY <1>3 DEF SavePairwise
  <2>2. pairs \in Seq(Table(PairShapes)) /\ Len(pairs) \in Nat
    BY DEF TypeInv, TableInv
  <2>3. x \in Table(PairShapes) /\ x.id = Len(pairs) + 1
    BY <2>2, NumberedFields DEF Table
  <2> HIDE DEF x
  <2>4. /\ pairs' \in Seq(Table(PairShapes)) /\ Len(pairs') = Len(pairs) + 1
        /\ pairs'[1] = x /\ DOMAIN pairs' = 1..Len(pairs)+1
        /\ \A i \in DOMAIN pairs' \ {1} : i - 1 \in DOMAIN pairs /\ pairs'[i] = pairs[i - 1]
    BY <2>1, <2>2, <2>3, PutFirst
  <2>5. ASSUME NEW i \in DOMAIN pairs' PROVE pairs'[i].id = Len(pairs') - i + 1
    <3>1. CASE i = 1
      BY <2>2, <2>3, <2>4, <3>1
    <3>2. CASE i # 1
      <4>1. i - 1 \in DOMAIN pairs /\ pairs'[i] = pairs[i - 1] /\ i \in Int
        BY <2>4, <3>2
      <4>2. pairs[i - 1].id = Len(pairs) - (i - 1) + 1
        BY <4>1 DEF TypeInv, TypeOK
      <4> QED BY <2>2, <2>4, <4>1, <4>2
    <3> QED BY <3>1, <3>2
  <2> QED BY <2>1, <2>4, <2>5 DEF TypeInv, TypeOK, TableInv
<1>4. ASSUME NEW p \in Outs, MakeDir(p) PROVE TypeInv'
  BY <1>4 DEF MakeDir, store, TypeInv, TypeOK, TableInv
<1>5. ASSUME NEW kind \in Kinds, NEW s \in Suites, NEW path \in PathsFor(kind),
             NEW min \in CutoffsOf(kind), Export(kind, s, path, min)
      PROVE TypeInv'
  <2> DEFINE written == [kind |-> kind, records |-> Records(kind, s, min)]
  <2>1. /\ files' = [q \in DOMAIN files \cup {path} |-> IF q = path THEN written ELSE files[q]]
        /\ last' = [last EXCEPT ![kind] = [path |-> path, records |-> written.records]]
        /\ place' = Made(path) /\ done < MaxExports /\ done' = done + 1 /\ UNCHANGED store
    BY <1>5 DEF Export
  <2>2. \A p \in Outs : (p = path[1] => place[p] # "file") /\ (path = <<".", p>> => place[p] # "dir")
    BY <1>5 DEF Export, Writable
  <2> HIDE DEF written
  <2>3. place' \in [Outs -> {"absent", "dir", "file"}]
    BY <2>1 DEF Made, TypeInv, TypeOK
  <2>4. ASSUME NEW q \in DOMAIN files', q[1] \in Outs PROVE place'[q[1]] = "dir"
    <3>1. CASE q = path
      BY <2>1, <2>4, <3>1 DEF Made
    <3>2. CASE q # path
      <4>1. q \in DOMAIN files /\ place[q[1]] = "dir"
        BY <2>1, <2>4, <3>2 DEF TypeInv, TypeOK
      <4>2. path # <<".", q[1]>>
        BY <2>2, <2>4, <4>1
      <4> QED BY <2>1, <2>4, <4>1, <4>2 DEF Made
    <3> QED BY <3>1, <3>2
  <2>5. ASSUME NEW p \in Outs, <<".", p>> \in DOMAIN files' PROVE place'[p] = "file"
    <3>1. CASE path = <<".", p>>
      <4>1. path[1] = "." /\ p # path[1]
        BY <3>1, ShapeAssumption
      <4> QED BY <2>1, <3>1, <4>1 DEF Made
    <3>2. CASE path # <<".", p>>
      <4>1. <<".", p>> \in DOMAIN files /\ place[p] = "file"
        BY <2>1, <2>5, <3>2 DEF TypeInv, TypeOK
      <4>2. p # path[1]
        BY <2>2, <4>1
      <4> QED BY <2>1, <3>2, <4>1, <4>2 DEF Made
    <3> QED BY <3>1, <3>2
  <2>6. done' \in 0..MaxExports /\ DOMAIN last' = Kinds
    BY <2>1, ShapeAssumption DEF TypeInv, TypeOK
  <2> QED BY <2>1, <2>3, <2>4, <2>5, <2>6 DEF store, TypeInv, TypeOK, TableInv
<1>6. ASSUME UNCHANGED exportVars PROVE TypeInv'
  BY <1>6 DEF exportVars, TypeInv, TypeOK, TableInv
<1> QED BY <1>1, <1>2, <1>3, <1>4, <1>5, <1>6 DEF ExportNext

(* Rows of every table are numbered from the oldest on, evaluations belong *)
(* to stored runs, and a file under an output path is in a directory,      *)
(* although the regression export makes files where others expect one.     *)
THEOREM TypeCorrect == ExportSpec => []TypeOK
<1>1. TypeInv => TypeOK
  BY DEF TypeInv
<1> QED BY InitTypeInv, StepTypeInv, <1>1, PTL DEF ExportSpec

-----------------------------------------------------------------------------
(* What the queries return, for tables that are numbered.                  *)
RunTable == Table(RowShapes)
PairTable == Table(PairShapes)

LEMMA RowFields ==
  ASSUME NEW r \in RunTable
  PROVE  r.id \in Nat /\ r.suite \in Suites /\ (r.score # None => r.score \in Nat)
<1>1. PICK shape \in RowShapes, n \in Nat : r = Numbered(shape, n)
  BY DEF RunTable, Table
<1>2. r.id = n /\ r.suite = shape.suite /\ r.score = shape.score
  BY <1>1, NumberedFields, ShapeAssumption
<1> QED BY <1>1, <1>2, ShapeAssumption

LEMMA NumberedRows ==
  ASSUME TypeInv
  PROVE  /\ stored \in Seq(RunTable) /\ Distinct(stored)
         /\ \A r, q \in ToSet(stored) : r.id = q.id => r = q
<1>1. stored \in Seq(RunTable)
  BY DEF TypeInv, TableInv, RunTable
<1>2. DOMAIN stored = 1..Len(stored) /\ Len(stored) \in Nat
  BY <1>1
<1>3. \A i, j \in DOMAIN stored : stored[i].id = stored[j].id => i = j
  BY <1>2 DEF TypeInv, TypeOK
<1>4. Distinct(stored)
  BY <1>3 DEF Distinct
<1> QED BY <1>1, <1>3, <1>4 DEF ToSet

-----------------------------------------------------------------------------
(* The runs of a suite, and the usable ones by task.                       *)
InSuite(s) == {r \in RunTable : r.suite = s}

LEMMA RunsAre ==
  ASSUME TypeInv, NEW s
  PROVE  Filtered(RunsOf(s), stored, InSuite(s)) /\ RunsOf(s) \in Seq(RunTable)
<1>1. stored \in Seq(RunTable)
  BY NumberedRows
<1>2. {i \in DOMAIN stored : stored[i].suite = s} = {i \in DOMAIN stored : stored[i] \in InSuite(s)}
  BY <1>1 DEF InSuite
<1>3. RunsOf(s) = Having(stored, InSuite(s))
  BY <1>2 DEF RunsOf, Kept, Having
<1> QED BY <1>1, <1>3, HavingFilters

Scorable == {r \in RunTable : r.status = "success" /\ r.score # None}

LEMMA UsableAre ==
  ASSUME TypeInv, NEW s
  PROVE  /\ Usable(s) \in Seq(RunTable) /\ Distinct(Usable(s))
         /\ ToSet(Usable(s)) = {r \in ToSet(stored) : r.suite = s /\ r.status = "success"
                                                    /\ r.score # None}
<1>1. RunsOf(s) \in Seq(RunTable) /\ Filtered(RunsOf(s), stored, InSuite(s))
  BY RunsAre
<1>2. stored \in Seq(RunTable) /\ Distinct(stored)
  BY NumberedRows
<1> DEFINE runs == RunsOf(s)
<1>3. {i \in DOMAIN runs : runs[i].status = "success" /\ runs[i].score # None}
        = {i \in DOMAIN runs : runs[i] \in Scorable}
  BY <1>1 DEF Scorable
<1>4. Usable(s) = Having(runs, Scorable)
  BY <1>3 DEF Usable, Kept, Having
<1>5. Filtered(Usable(s), runs, Scorable) /\ Usable(s) \in Seq(RunTable)
  BY <1>1, <1>4, HavingFilters
<1>6. ToSet(stored) \subseteq RunTable
  BY <1>2 DEF ToSet
<1> HIDE DEF runs
<1>7. ToSet(Usable(s)) = (ToSet(stored) \cap InSuite(s)) \cap Scorable
  BY <1>1, <1>5 DEF Filtered, runs
<1> QED BY <1>1, <1>2, <1>5, <1>6, <1>7 DEF Filtered, InSuite, Scorable, runs

OfTask(t) == {r \in RunTable : r.task = t}

LEMMA GroupsAre ==
  ASSUME NEW u \in Seq(RunTable), NEW t
  PROVE  Filtered(Group(u, Task, t), u, OfTask(t)) /\ Group(u, Task, t) \in Seq(RunTable)
<1>1. {i \in DOMAIN u : u[i].task = t} = {i \in DOMAIN u : u[i] \in OfTask(t)}
  BY DEF OfTask
<1>2. Group(u, Task, t) = Having(u, OfTask(t))
  BY <1>1 DEF Group, Kept, Having, Task
<1> QED BY <1>2, HavingFilters

LEMMA KeysAre ==
  ASSUME NEW u \in Seq(RunTable)
  PROVE  /\ Keys(u, Task) \in Seq({r.task : r \in RunTable}) /\ Distinct(Keys(u, Task))
         /\ ToSet(Keys(u, Task)) = {r.task : r \in ToSet(u)}
<1> DEFINE k == [i \in DOMAIN u |-> u[i].task]
<1>1. k \in Seq({r.task : r \in RunTable}) /\ DOMAIN k = DOMAIN u
  OBVIOUS
<1>2. {i \in DOMAIN u : \A j \in 1..i-1 : k[j] # k[i]} = FirstOnes(k)
  BY <1>1 DEF FirstOnes
<1>3. Keys(u, Task) = Part(k, FirstOnes(k))
  BY <1>2 DEF Keys, Task
<1>4. \A i \in DOMAIN u : k[i] = u[i].task
  OBVIOUS
<1> HIDE DEF k
<1>5. ToSet(k) = {r.task : r \in ToSet(u)}
  BY <1>1, <1>4 DEF ToSet
<1> QED BY <1>1, <1>3, <1>5, FirstsAreAll

ScoresOf(g) == [i \in DOMAIN g |-> g[i].score]

(* The ends of a list of two or more that is sorted by values.             *)
AreEnds(r, s, v) ==
  \E i, k \in DOMAIN s :
    /\ i # k /\ r[1] = s[i] /\ r[Len(r)] = s[k]
    /\ \A j \in DOMAIN s : v[j] <= v[i] /\ v[k] <= v[j]

LEMMA ByScoreEnds ==
  ASSUME NEW u \in Seq(RunTable), NEW t, \A r \in ToSet(u) : r.score \in Nat,
         NEW g, g = Group(u, Task, t), NEW d, d = ByScore(u, t)
  PROVE  Len(d) = Len(g) /\ d \in Seq(RunTable) /\ (Len(d) >= 2 => AreEnds(d, g, ScoresOf(g)))
<1>1. g \in Seq(RunTable) /\ Filtered(g, u, OfTask(t))
  BY GroupsAre
<1>2. \A i \in DOMAIN g : g[i].score \in Nat
  <2>1. \A i \in DOMAIN g : g[i] \in ToSet(u)
    BY <1>1 DEF Filtered, ToSet
  <2> QED BY <2>1
<1>3. PICK v : v = [i \in DOMAIN g |-> Whole(g[i].score)]
  OBVIOUS
<1>4. v \in [DOMAIN g -> Fraction]
  BY <1>2, <1>3 DEF Whole, Fraction
<1>5. d = RankOrder(g, Standing(v))
  BY <1>3 DEF ByScore, Descending, Standing
<1>6. d \in Seq(RunTable) /\ Len(d) = Len(g) /\ \E at : Arranges(at, d, g, Falling(v))
  BY <1>1, <1>4, <1>5, StandingArranges
<1>7. PICK at : Arranges(at, d, g, Falling(v))
  BY <1>6
<1>8. PICK n : n = Len(g)
  OBVIOUS
<1>9. n \in Nat /\ DOMAIN g = 1..n /\ Len(d) = n
  BY <1>1, <1>6, <1>8
<1>10. ASSUME n >= 2 PROVE AreEnds(d, g, ScoresOf(g))
  <2>1. 1 \in DOMAIN g /\ n \in DOMAIN g
    BY <1>9, <1>10
  <2>2. PICK i \in DOMAIN g, k \in DOMAIN g : i = at[1] /\ k = at[n]
    BY <1>7, <2>1 DEF Arranges
  <2>3. d[1] = g[i] /\ d[n] = g[k] /\ i # k
    BY <1>7, <1>10, <2>1, <2>2 DEF Arranges
  <2>4. ASSUME NEW p \in DOMAIN g, NEW q \in DOMAIN g, p = q \/ <<p, q>> \in Falling(v)
        PROVE  g[q].score <= g[p].score
    <3>1. v[p] = Whole(g[p].score) /\ v[q] = Whole(g[q].score)
      BY <1>3
    <3>2. p = q \/ Lt(v[q], v[p]) \/ Same(v[q], v[p])
      BY <2>4 DEF Falling
    <3>3. g[p].score \in Nat /\ g[q].score \in Nat
      BY <1>2
    <3> QED BY <3>1, <3>2, <3>3 DEF Whole, Lt, Same
  <2>5. ASSUME NEW j \in DOMAIN g PROVE g[j].score <= g[i].score /\ g[k].score <= g[j].score
    <3>1. PICK m \in DOMAIN g : at[m] = j
      BY <1>7 DEF Arranges
    <3>2. m = 1 \/ 1 < m
      BY <1>9
    <3>3. m = n \/ m < n
      BY <1>9
    <3>4. i = j \/ <<i, j>> \in Falling(v)
      BY <1>7, <2>1, <2>2, <3>1, <3>2 DEF Arranges
    <3>5. j = k \/ <<j, k>> \in Falling(v)
      BY <1>7, <2>1, <2>2, <3>1, <3>3 DEF Arranges
    <3> QED BY <2>4, <3>4, <3>5
  <2>6. \A j \in DOMAIN g : ScoresOf(g)[j] = g[j].score
    BY DEF ScoresOf
  <2>7. \A j \in DOMAIN g : ScoresOf(g)[j] <= ScoresOf(g)[i] /\ ScoresOf(g)[k] <= ScoresOf(g)[j]
    BY <2>5, <2>6
  <2> QED BY <1>9, <2>3, <2>7 DEF AreEnds
<1> QED BY <1>6, <1>9, <1>10

-----------------------------------------------------------------------------
(* The preferences that follow from scores.                                *)
LEMMA UsableScores ==
  ASSUME TypeInv, NEW s, NEW r \in ToSet(Usable(s))
  PROVE  r \in ToSet(stored) /\ r \in RunTable /\ r.score \in Nat
<1>1. r \in ToSet(stored) /\ r.score # None
  BY UsableAre
<1>2. r \in RunTable
  BY <1>1, NumberedRows DEF ToSet
<1> QED BY <1>1, <1>2, RowFields

IsWidest(p, u, t) ==
  /\ p.task = t /\ p.chosen \in ToSet(u) /\ p.rejected \in ToSet(u)
  /\ p.chosen.task = t /\ p.chosen.id # p.rejected.id
  /\ \A r \in ToSet(u) : r.task = t =>
       r.score <= p.chosen.score /\ p.rejected.score <= r.score

LEMMA WidestOf ==
  ASSUME TypeInv, NEW s, NEW u, u = Usable(s), NEW t, Len(ByScore(u, t)) >= 2
  PROVE  IsWidest(Widest(u, t), u, t)
<1>1. u \in Seq(RunTable) /\ Distinct(u)
  BY UsableAre
<1>2. \A r \in ToSet(u) : r \in ToSet(stored) /\ r.score \in Nat
  BY UsableScores
<1>3. PICK g : g = Group(u, Task, t)
  OBVIOUS
<1>4. PICK d : d = ByScore(u, t)
  OBVIOUS
<1>5. d \in Seq(RunTable) /\ Len(d) >= 2 /\ AreEnds(d, g, ScoresOf(g))
  BY <1>1, <1>2, <1>3, <1>4, ByScoreEnds
<1>6. g \in Seq(RunTable) /\ Filtered(g, u, OfTask(t))
  BY <1>1, <1>3, GroupsAre
<1>7. Distinct(g) /\ ToSet(g) = ToSet(u) \cap OfTask(t)
  BY <1>1, <1>6 DEF Filtered
<1>8. PICK i \in DOMAIN g, k \in DOMAIN g :
        /\ i # k /\ d[1] = g[i] /\ d[Len(d)] = g[k]
        /\ \A j \in DOMAIN g : ScoresOf(g)[j] <= ScoresOf(g)[i] /\ ScoresOf(g)[k] <= ScoresOf(g)[j]
  BY <1>5 DEF AreEnds
<1>9. Widest(u, t) = [task |-> t, chosen |-> g[i], rejected |-> g[k]]
  <2>1. Last(d) = d[Len(d)]
    BY DEF Last
  <2> QED BY <1>4, <1>8, <2>1 DEF Widest
<1>10. g[i] \in ToSet(g) /\ g[k] \in ToSet(g)
  BY DEF ToSet
<1>11. g[i] \in ToSet(u) /\ g[k] \in ToSet(u) /\ g[i].task = t
  BY <1>7, <1>10 DEF OfTask
<1>12. g[i].id # g[k].id
  <2>1. g[i] # g[k]
    BY <1>7, <1>8 DEF Distinct
  <2> QED BY <1>2, <1>11, <2>1, NumberedRows
<1>13. ASSUME NEW r \in ToSet(u), r.task = t
       PROVE  r.score <= g[i].score /\ g[k].score <= r.score
  <2>1. r \in RunTable
    BY UsableScores
  <2>2. r \in ToSet(g)
    BY <1>7, <1>13, <2>1 DEF OfTask
  <2>3. PICK j \in DOMAIN g : r = g[j]
    BY <2>2 DEF ToSet
  <2>4. \A n \in DOMAIN g : ScoresOf(g)[n] = g[n].score
    BY DEF ScoresOf
  <2> QED BY <1>8, <2>3, <2>4
<1> QED BY <1>9, <1>11, <1>12, <1>13 DEF IsWidest

LEMMA TwoOfTask ==
  ASSUME TypeInv, NEW s, NEW u, u = Usable(s), NEW r \in ToSet(u), NEW q \in ToSet(u),
         r # q, r.task = q.task
  PROVE  Len(ByScore(u, r.task)) >= 2
<1>1. u \in Seq(RunTable) /\ \A x \in ToSet(u) : x \in RunTable /\ x.score \in Nat
  BY UsableAre, UsableScores
<1>2. PICK g : g = Group(u, Task, r.task)
  OBVIOUS
<1>3. g \in Seq(RunTable) /\ ToSet(g) = ToSet(u) \cap OfTask(r.task)
  BY <1>1, <1>2, GroupsAre DEF Filtered
<1>4. r \in ToSet(g) /\ q \in ToSet(g)
  BY <1>1, <1>3 DEF OfTask
<1>5. PICK i \in DOMAIN g, j \in DOMAIN g : g[i] = r /\ g[j] = q
  BY <1>4 DEF ToSet
<1>6. i \in 1..Len(g) /\ j \in 1..Len(g) /\ i # j /\ Len(g) \in Nat
  BY <1>3, <1>5
<1>7. Len(ByScore(u, r.task)) = Len(g)
  BY <1>1, <1>2, ByScoreEnds
<1> QED BY <1>6, <1>7

Wide(p, margin) == p.chosen.score - p.rejected.score >= margin
ArePreferences(pr, u, margin) ==
  /\ \A n \in DOMAIN pr : \E t :
       Len(ByScore(u, t)) >= 2 /\ pr[n] = Widest(u, t) /\ Wide(pr[n], margin)
  /\ \A r \in ToSet(u) :
       Len(ByScore(u, r.task)) >= 2 /\ Wide(Widest(u, r.task), margin) =>
         \E n \in DOMAIN pr : pr[n] = Widest(u, r.task)
  /\ \A n, m \in DOMAIN pr : pr[n].task = pr[m].task => n = m

LEMMA PreferencesAre ==
  ASSUME TypeInv, NEW s, NEW margin, NEW u, u = Usable(s), NEW pr, pr = Preference(s, margin)
  PROVE  ArePreferences(pr, u, margin) /\ \E S : pr \in Seq(S)
<1> DEFINE tasks == {r.task : r \in RunTable}
           Contested == {t \in tasks : Len(ByScore(u, t)) >= 2}
           W(t) == Widest(u, t)
           all == {W(t) : t \in tasks}
           far == {p \in all : Wide(p, margin)}
<1>1. u \in Seq(RunTable)
  BY UsableAre
<1>2. PICK ks : ks = Keys(u, Task)
  OBVIOUS
<1>3. ks \in Seq(tasks) /\ Distinct(ks) /\ ToSet(ks) = {r.task : r \in ToSet(u)}
  BY <1>1, <1>2, KeysAre
<1>4. PICK ts : ts = Having(ks, Contested)
  OBVIOUS
<1>5. ts \in Seq(tasks) /\ Filtered(ts, ks, Contested)
  BY <1>3, <1>4, HavingFilters
<1>6. Distinct(ts) /\ ToSet(ts) = ToSet(ks) \cap Contested
  BY <1>3, <1>5 DEF Filtered
<1>7. PICK pl : pl = TaskPairs(u)
  OBVIOUS
<1>8. pl = [i \in DOMAIN ts |-> W(ts[i])]
  <2>1. {i \in DOMAIN ks : Len(ByScore(u, ks[i])) >= 2} = {i \in DOMAIN ks : ks[i] \in Contested}
    BY <1>3
  <2> DEFINE kept == Part(ks, {i \in DOMAIN ks : Len(ByScore(u, ks[i])) >= 2})
  <2>2. kept = ts
    <3> HIDE DEF Contested
    <3> QED BY <1>4, <2>1 DEF Having
  <2>3. pl = [i \in DOMAIN kept |-> W(kept[i])]
    BY <1>2, <1>7 DEF TaskPairs, Kept
  <2> HIDE DEF kept
  <2> QED BY <2>2, <2>3
<1>9. pl \in Seq(all) /\ DOMAIN pl = DOMAIN ts /\ \A i \in DOMAIN ts : pl[i] = W(ts[i])
  <2>1. \A i \in DOMAIN ts : ts[i] \in tasks
    BY <1>5
  <2> HIDE DEF tasks, W
  <2>2. \A i \in DOMAIN ts : W(ts[i]) \in all
    BY <2>1
  <2> HIDE DEF all
  <2> QED BY <1>5, <1>8, <2>2
<1>10. pr = Having(pl, far)
  <2>1. {i \in DOMAIN pl : pl[i].chosen.score - pl[i].rejected.score >= margin}
          = {i \in DOMAIN pl : pl[i] \in far}
    <3>1. \A i \in DOMAIN pl : pl[i] \in all
      BY <1>9
    <3> HIDE DEF all
    <3> QED BY <3>1 DEF Wide
  <2>2. pr = Part(pl, {i \in DOMAIN pl : pl[i].chosen.score - pl[i].rejected.score >= margin})
    BY <1>7 DEF Preference, Kept
  <2> HIDE DEF far
  <2> QED BY <2>1, <2>2 DEF Having
<1> HIDE DEF all, far, W, Contested, tasks
<1>11. pr \in Seq(all) /\ Filtered(pr, pl, far)
  BY <1>9, <1>10, HavingFilters
<1>12. ToSet(pr) = ToSet(pl) \cap far
  BY <1>11 DEF Filtered
<1>13. ASSUME NEW i \in DOMAIN ts PROVE Len(ByScore(u, ts[i])) >= 2 /\ W(ts[i]).task = ts[i]
  <2>1. ts[i] \in Contested
    BY <1>6 DEF ToSet
  <2>2. Len(ByScore(u, ts[i])) >= 2
    BY <2>1 DEF Contested
  <2>3. W(ts[i]).task = ts[i]
    BY DEF W, Widest
  <2> QED BY <2>2, <2>3
<1>14. ASSUME NEW n \in DOMAIN pr
       PROVE  \E t : Len(ByScore(u, t)) >= 2 /\ pr[n] = Widest(u, t) /\ Wide(pr[n], margin)
  <2>1. pr[n] \in ToSet(pl) /\ pr[n] \in far
    BY <1>12 DEF ToSet
  <2>2. PICK i \in DOMAIN pl : pr[n] = pl[i]
    BY <2>1 DEF ToSet
  <2> QED BY <1>9, <1>13, <2>1, <2>2 DEF W, far
<1>15. ASSUME NEW r \in ToSet(u), Len(ByScore(u, r.task)) >= 2, Wide(Widest(u, r.task), margin)
       PROVE  \E n \in DOMAIN pr : pr[n] = Widest(u, r.task)
  <2>1. r \in RunTable
    BY UsableScores
  <2>2. r.task \in tasks
    BY <2>1 DEF tasks
  <2>3. r.task \in Contested /\ r.task \in ToSet(ks)
    BY <1>3, <1>15, <2>2 DEF Contested
  <2>4. PICK i \in DOMAIN ts : ts[i] = r.task
    BY <1>6, <2>3 DEF ToSet
  <2>5. pl[i] = W(r.task) /\ pl[i] \in ToSet(pl)
    BY <1>9, <2>4 DEF ToSet
  <2>6. W(r.task) \in far
    BY <1>15, <2>2 DEF far, all, W
  <2>7. W(r.task) \in ToSet(pr)
    BY <1>12, <2>5, <2>6
  <2> QED BY <2>7 DEF ToSet, W
<1>16. Distinct(pl)
  <2> SUFFICES ASSUME NEW i \in DOMAIN pl, NEW j \in DOMAIN pl, pl[i] = pl[j] PROVE i = j
    BY DEF Distinct
  <2>1. ts[i] = ts[j]
    BY <1>9, <1>13
  <2> QED BY <1>6, <1>9, <2>1 DEF Distinct
<1>17. ASSUME NEW n \in DOMAIN pr, NEW m \in DOMAIN pr, pr[n].task = pr[m].task PROVE n = m
  <2>1. Distinct(pr) /\ pr[n] \in ToSet(pl) /\ pr[m] \in ToSet(pl)
    BY <1>11, <1>12, <1>16 DEF Filtered, ToSet
  <2>2. PICK i \in DOMAIN pl, j \in DOMAIN pl : pr[n] = pl[i] /\ pr[m] = pl[j]
    BY <2>1 DEF ToSet
  <2>3. ts[i] = ts[j]
    BY <1>9, <1>13, <1>17, <2>2
  <2>4. pr[n] = pr[m]
    BY <1>9, <2>2, <2>3
  <2> QED BY <2>1, <2>4 DEF Distinct
<1> QED BY <1>11, <1>14, <1>15, <1>17 DEF ArePreferences

LEMMA PreferencesAreWidest == TypeInv => PreferenceIsWidest
<1> SUFFICES ASSUME TypeInv, NEW s \in Suites, NEW margin \in Cutoffs
    PROVE LET records == ToSet(Preference(s, margin))
              usable == {r \in ToSet(stored) : r.suite = s /\ r.status = "success" /\ r.score # None}
          IN /\ \A p \in records : {p.chosen, p.rejected} \subseteq usable /\ p.chosen.id # p.rejected.id
             /\ Cardinality({p.task : p \in records}) = Len(Preference(s, margin))
             /\ \A r, q \in usable : (r.id # q.id /\ r.task = q.task /\ r.score - q.score >= margin) =>
                  \E p \in records :
                    p.task = r.task /\ p.chosen.score >= r.score /\ p.rejected.score <= q.score
  BY DEF PreferenceIsWidest
<1> DEFINE records == ToSet(Preference(s, margin))
           usable == {r \in ToSet(stored) : r.suite = s /\ r.status = "success" /\ r.score # None}
<1>1. PICK u : u = Usable(s)
  OBVIOUS
<1>2. ToSet(u) = usable /\ \A r \in ToSet(u) : r.score \in Nat
  BY <1>1, UsableAre, UsableScores
<1>3. PICK pr : pr = Preference(s, margin)
  OBVIOUS
<1>4. ArePreferences(pr, u, margin) /\ \E S : pr \in Seq(S)
  BY <1>1, <1>3, PreferencesAre
<1>5. /\ \A n \in DOMAIN pr : \E t : Len(ByScore(u, t)) >= 2 /\ pr[n] = Widest(u, t)
      /\ \A r \in ToSet(u) :
           Len(ByScore(u, r.task)) >= 2 /\ Wide(Widest(u, r.task), margin) =>
             \E n \in DOMAIN pr : pr[n] = Widest(u, r.task)
      /\ \A n, m \in DOMAIN pr : pr[n].task = pr[m].task => n = m
  BY <1>4 DEF ArePreferences
<1> HIDE DEF usable
<1>6. ASSUME NEW p \in records
      PROVE  {p.chosen, p.rejected} \subseteq usable /\ p.chosen.id # p.rejected.id
  <2>1. PICK n \in DOMAIN pr : p = pr[n]
    BY <1>3 DEF ToSet
  <2>2. PICK t : Len(ByScore(u, t)) >= 2 /\ p = Widest(u, t)
    BY <1>5, <2>1
  <2>3. IsWidest(p, u, t)
    BY <1>1, <2>2, WidestOf
  <2> QED BY <1>2, <2>3 DEF IsWidest
<1>7. Cardinality({p.task : p \in records}) = Len(pr)
  <2>1. Len(pr) \in Nat /\ DOMAIN pr = 1..Len(pr) /\ IsFiniteSet(DOMAIN pr)
        /\ Cardinality(DOMAIN pr) = Len(pr)
    BY <1>4, Positions
  <2> DEFINE T == {p.task : p \in records}
             f == [n \in DOMAIN pr |-> pr[n].task]
  <2>2. \A t \in T : \E n \in DOMAIN pr : pr[n].task = t
    BY <1>3 DEF ToSet
  <2>3. \A n \in DOMAIN pr : pr[n].task \in T
    BY <1>3 DEF ToSet
  <2> HIDE DEF T, records
  <2>4. f \in [DOMAIN pr -> T] /\ \A n \in DOMAIN pr : f[n] = pr[n].task
    BY <2>3
  <2>5. \A n, m \in DOMAIN pr : f[n] = f[m] => n = m
    BY <1>5, <2>4
  <2>6. \A t \in T : \E n \in DOMAIN pr : f[n] = t
    BY <2>2, <2>4
  <2> HIDE DEF f
  <2>7. f \in Bijection(DOMAIN pr, T)
    BY <2>4, <2>5, <2>6 DEF Bijection, Injection, Surjection, IsInjective
  <2>8. ExistsBijection(DOMAIN pr, T)
    BY <2>7 DEF ExistsBijection
  <2>9. Cardinality(T) = Cardinality(DOMAIN pr)
    BY <2>1, <2>8, FS_Bijection
  <2> QED BY <2>1, <2>9 DEF T
<1>8. ASSUME NEW r \in usable, NEW q \in usable,
             r.id # q.id, r.task = q.task, r.score - q.score >= margin
      PROVE  \E p \in records :
               p.task = r.task /\ p.chosen.score >= r.score /\ p.rejected.score <= q.score
  <2>1. r # q /\ r \in ToSet(u) /\ q \in ToSet(u)
    BY <1>2, <1>8
  <2>2. Len(ByScore(u, r.task)) >= 2
    BY <1>1, <1>8, <2>1, TwoOfTask
  <2>3. PICK p : p = Widest(u, r.task)
    OBVIOUS
  <2>4. IsWidest(p, u, r.task)
    BY <1>1, <2>2, <2>3, WidestOf
  <2>5. /\ p.task = r.task /\ r.score <= p.chosen.score /\ p.rejected.score <= q.score
        /\ p.chosen \in ToSet(u) /\ p.rejected \in ToSet(u)
    BY <1>8, <2>1, <2>4 DEF IsWidest
  <2>6. /\ p.chosen.score \in Nat /\ p.rejected.score \in Nat
        /\ r.score \in Nat /\ q.score \in Nat /\ margin \in Nat
    BY <1>2, <2>1, <2>5, ShapeAssumption
  <2>7. Wide(p, margin)
    BY <1>8, <2>5, <2>6 DEF Wide
  <2>8. PICK n \in DOMAIN pr : pr[n] = p
    BY <1>5, <2>1, <2>2, <2>3, <2>7
  <2>9. p \in records
    BY <1>3, <2>8 DEF ToSet
  <2> QED BY <2>5, <2>6, <2>9
<1> HIDE DEF records
<1> QED BY <1>3, <1>6, <1>7, <1>8 DEF records, usable

-----------------------------------------------------------------------------
(* What is tested as a failure, and what of it is taught.                  *)
TestedFailures(s) == {r \in ToSet(RunsOf(s)) : Failed(r) /\ (r.text \/ r.error)}

LEMMA TestedFailuresAre ==
  ASSUME TypeInv, NEW s
  PROVE  UNION {ToSet(t.failures) : t \in Regression(s)} = TestedFailures(s)
<1> DEFINE runs == RunsOf(s)
           Telling == {x \in RunTable : Failed(x) /\ (x.text \/ x.error)}
<1>1. runs \in Seq(RunTable)
  BY RunsAre
<1>2. PICK kept : kept = Having(runs, Telling)
  OBVIOUS
<1>3. kept \in Seq(RunTable) /\ ToSet(kept) = ToSet(runs) \cap Telling
  BY <1>1, <1>2, HavingFilters DEF Filtered
<1>4. Kept(runs, LAMBDA x : Failed(x) /\ (x.text \/ x.error)) = kept
  <2>1. {i \in DOMAIN runs : Failed(runs[i]) /\ (runs[i].text \/ runs[i].error)}
          = {i \in DOMAIN runs : runs[i] \in Telling}
    BY <1>1
  <2> HIDE DEF Telling, runs
  <2> QED BY <1>2, <2>1 DEF Kept, Having
<1>5. \A k : ToSet(Group(kept, Task, k)) = ToSet(kept) \cap OfTask(k)
  BY <1>3, GroupsAre DEF Filtered
<1>6. PICK ks : ks = ToSet(Keys(kept, Task))
  OBVIOUS
<1>7. ks = {r.task : r \in ToSet(kept)}
  BY <1>3, <1>6, KeysAre
<1>8. Regression(s) = {[task |-> k, failures |-> Group(kept, Task, k)] : k \in ks}
  BY <1>4, <1>6 DEF Regression
<1>9. ToSet(kept) = TestedFailures(s)
  <2>1. ToSet(runs) \subseteq RunTable
    BY <1>1 DEF ToSet
  <2> QED BY <1>3, <2>1 DEF TestedFailures
<1> HIDE DEF runs, Telling
<1>10. ASSUME NEW t \in Regression(s), NEW r \in ToSet(t.failures) PROVE r \in ToSet(kept)
  BY <1>5, <1>8
<1>11. ASSUME NEW r \in ToSet(kept)
       PROVE  \E t \in Regression(s) : r \in ToSet(t.failures)
  <2>1. PICK k : k = r.task
    OBVIOUS
  <2>2. k \in ks /\ r \in RunTable
    BY <1>3, <1>7, <2>1 DEF ToSet
  <2>3. r \in ToSet(Group(kept, Task, k))
    BY <1>5, <2>1, <2>2 DEF OfTask
  <2>4. [task |-> k, failures |-> Group(kept, Task, k)] \in Regression(s)
    BY <1>8, <2>2
  <2> QED BY <2>3, <2>4
<1> QED BY <1>9, <1>10, <1>11

LEMMA TaughtAre ==
  ASSUME TypeInv, NEW s, NEW min
  PROVE  ToSet(Sft(s, min)) = {r \in ToSet(RunsOf(s)) : /\ r.status = "success" /\ r.score # None
                                                        /\ r.score >= min /\ r.text}
<1> DEFINE runs == RunsOf(s)
           Good == {x \in RunTable : x.status = "success" /\ x.score # None
                                     /\ x.score >= min /\ x.text}
<1>1. runs \in Seq(RunTable)
  BY RunsAre
<1>2. {i \in DOMAIN runs : /\ runs[i].status = "success" /\ runs[i].score # None
                           /\ runs[i].score >= min /\ runs[i].text}
        = {i \in DOMAIN runs : runs[i] \in Good}
  BY <1>1
<1> HIDE DEF Good
<1>3. Sft(s, min) = Having(runs, Good)
  BY <1>2 DEF Sft, Kept, Having
<1>4. ToSet(Sft(s, min)) = ToSet(runs) \cap Good
  BY <1>1, <1>3, HavingFilters DEF Filtered
<1>5. ToSet(runs) \subseteq RunTable
  BY <1>1 DEF ToSet
<1> QED BY <1>4, <1>5 DEF Good

LEMMA TaughtScoredZero == TypeInv => TaughtFailuresScoreZero
<1> SUFFICES ASSUME TypeInv, NEW s \in Suites, NEW min \in Cutoffs
    PROVE LET failures == UNION {ToSet(t.failures) : t \in Regression(s)}
          IN /\ failures \cap ToSet(Sft(s, min)) =
                  {r \in ToSet(stored) : /\ r.suite = s /\ r.status = "success" /\ r.text
                                         /\ r.score = 0 /\ min = 0}
             /\ \A p \in ToSet(Preference(s, min)) :
                  p.chosen \in failures => min = 0 /\ p.chosen.score = 0 /\ p.rejected.score = 0
  BY DEF TaughtFailuresScoreZero
<1>1. min \in Nat
  BY ShapeAssumption
<1>2. PICK fs : fs = TestedFailures(s)
  OBVIOUS
<1>3. UNION {ToSet(t.failures) : t \in Regression(s)} = fs
  BY <1>2, TestedFailuresAre
<1>4. fs \cap ToSet(Sft(s, min)) = {r \in ToSet(stored) : /\ r.suite = s /\ r.status = "success"
                                                         /\ r.text /\ r.score = 0 /\ min = 0}
  <2>1. ToSet(RunsOf(s)) = {r \in ToSet(stored) : r.suite = s} /\ ToSet(stored) \subseteq RunTable
    <3>1. ToSet(RunsOf(s)) = ToSet(stored) \cap InSuite(s)
      BY RunsAre DEF Filtered
    <3>2. ToSet(stored) \subseteq RunTable
      BY NumberedRows DEF ToSet
    <3> QED BY <3>1, <3>2 DEF InSuite
  <2>2. ASSUME NEW r \in ToSet(stored)
        PROVE  /\ Failed(r) /\ (r.text \/ r.error) /\ r.status = "success" /\ r.score # None
                 /\ r.score >= min /\ r.text
               <=> r.status = "success" /\ r.text /\ r.score = 0 /\ min = 0
    <3>1. r.score # None => r.score \in Nat
      BY <2>1, RowFields
    <3>2. r.score = 0 => r.score # None
      BY ShapeAssumption
    <3> QED BY <1>1, <3>1, <3>2 DEF Failed
  <2>3. ToSet(Sft(s, min)) = {r \in ToSet(RunsOf(s)) : /\ r.status = "success" /\ r.score # None
                                                       /\ r.score >= min /\ r.text}
    BY TaughtAre
  <2> QED BY <1>2, <2>1, <2>2, <2>3 DEF TestedFailures
<1>5. ASSUME NEW p \in ToSet(Preference(s, min)), p.chosen \in fs
      PROVE  min = 0 /\ p.chosen.score = 0 /\ p.rejected.score = 0
  <2>1. PICK u : u = Usable(s)
    OBVIOUS
  <2>2. PICK pr : pr = Preference(s, min)
    OBVIOUS
  <2>3. \A n \in DOMAIN pr : \E t :
          Len(ByScore(u, t)) >= 2 /\ pr[n] = Widest(u, t) /\ Wide(pr[n], min)
    BY <2>1, <2>2, PreferencesAre DEF ArePreferences
  <2>4. PICK t : Len(ByScore(u, t)) >= 2 /\ p = Widest(u, t) /\ Wide(p, min)
    BY <2>2, <2>3 DEF ToSet
  <2>5. p.chosen \in ToSet(u) /\ p.rejected \in ToSet(u)
    BY <2>1, <2>4, WidestOf DEF IsWidest
  <2>6. p.chosen.score \in Nat /\ p.rejected.score \in Nat /\ p.chosen.status = "success"
    BY <2>1, <2>5, UsableAre, UsableScores
  <2>7. p.chosen.score = 0
    BY <1>2, <1>5, <2>6 DEF TestedFailures, Failed
  <2> QED BY <1>1, <2>4, <2>6, <2>7 DEF Wide
<1> QED BY <1>3, <1>4, <1>5

-----------------------------------------------------------------------------
(* The judge's tables, and how often a join repeats a row.                 *)
EvalTable == [id : Nat, run : Nat]
RunIn(s) == {e \in EvalTable : \E r \in ToSet(RunsOf(s)) : r.id = e.run}

LEMMA EvalsAre ==
  ASSUME TypeInv, NEW s
  PROVE  /\ evals \in Seq(EvalTable) /\ EvalsOf(s) \in Seq(EvalTable)
         /\ EvalsOf(s) = Having(evals, RunIn(s))
<1>1. evals \in Seq(EvalTable)
  BY DEF TypeInv, TableInv, EvalTable
<1>2. {i \in DOMAIN evals : \E r \in ToSet(RunsOf(s)) : r.id = evals[i].run}
        = {i \in DOMAIN evals : evals[i] \in RunIn(s)}
  BY <1>1 DEF RunIn
<1>3. EvalsOf(s) = Having(evals, RunIn(s))
  BY <1>2 DEF EvalsOf, Kept, Having
<1> QED BY <1>1, <1>3, HavingFilters

LEMMA EvaluationOnce ==
  ASSUME TypeInv, NEW e \in ToSet(evals)
  PROVE  \E s \in Suites : \A u \in Suites :
           HowOften(EvalsOf(u), {e}) = IF u = s THEN 1 ELSE 0
<1>1. evals \in Seq(EvalTable)
  BY EvalsAre
<1>2. PICK k \in DOMAIN evals : evals[k] = e
  BY DEF ToSet
<1>3. PICK r \in ToSet(stored) : r.id = e.run
  BY <1>2 DEF TypeInv, TypeOK
<1>4. r \in RunTable /\ r.suite \in Suites
  <2>1. r \in RunTable
    BY NumberedRows DEF ToSet
  <2> QED BY <2>1, RowFields
<1>5. \A i \in DOMAIN evals : evals[i] = e => i = k
  <2>1. DOMAIN evals = 1..Len(evals) /\ Len(evals) \in Nat
    BY <1>1
  <2>2. \A i \in DOMAIN evals : evals[i].id = Len(evals) - i + 1
    BY DEF TypeInv, TypeOK
  <2> QED BY <1>2, <2>1, <2>2
<1>6. ASSUME NEW u \in Suites
      PROVE  HowOften(EvalsOf(u), {e}) = IF u = r.suite THEN 1 ELSE 0
  <2>1. HowOften(EvalsOf(u), {e}) = HowOften(evals, RunIn(u) \cap {e})
    BY <1>1, EvalsAre, HavingTimes
  <2>2. ToSet(RunsOf(u)) = ToSet(stored) \cap InSuite(u)
    BY RunsAre DEF Filtered
  <2>3. CASE u = r.suite
    <3>1. r \in ToSet(RunsOf(u))
      BY <1>4, <2>2, <2>3 DEF InSuite
    <3>2. e \in RunIn(u)
      BY <1>1, <1>2, <1>3, <3>1 DEF RunIn
    <3>3. \A i \in DOMAIN evals : evals[i] \in RunIn(u) \cap {e} <=> i = k
      BY <1>2, <1>5, <3>2
    <3> QED BY <2>1, <2>3, <3>3, TimesOne
  <2>4. CASE u # r.suite
    <3>1. e \notin RunIn(u)
      <4>1. ASSUME NEW q \in ToSet(RunsOf(u)), q.id = e.run PROVE FALSE
        <5>1. q \in ToSet(stored) /\ q.suite = u
          BY <2>2 DEF InSuite
        <5>2. q = r
          BY <1>3, <4>1, <5>1, NumberedRows
        <5> QED BY <2>4, <5>1, <5>2
      <4> QED BY <4>1 DEF RunIn
    <3>2. \A i \in DOMAIN evals : evals[i] \notin RunIn(u) \cap {e}
      BY <3>1
    <3> QED BY <2>1, <2>4, <3>2, TimesNone
  <2> QED BY <2>3, <2>4
<1> QED BY <1>4, <1>6

(* The runs a comparison is joined with.                                   *)
Joined(s, c) == Len(Part(RunsOf(s), {i \in DOMAIN RunsOf(s) : RunsOf(s)[i].task = c.task}))

LEMMA JoinedIsNat == ASSUME TypeInv, NEW s, NEW c PROVE Joined(s, c) \in Nat
<1> DEFINE runs == RunsOf(s)
<1>1. runs \in Seq(RunTable)
  BY RunsAre
<1>2. {i \in DOMAIN runs : runs[i].task = c.task} = {i \in DOMAIN runs : runs[i] \in OfTask(c.task)}
  BY <1>1 DEF OfTask
<1>3. Part(runs, {i \in DOMAIN runs : runs[i].task = c.task}) = Having(runs, OfTask(c.task))
  BY <1>2 DEF Having
<1>4. Having(runs, OfTask(c.task)) \in Seq(RunTable)
  BY <1>1, HavingFilters
<1> QED BY <1>3, <1>4 DEF Joined

LEMMA NumberedPairs ==
  ASSUME TypeInv
  PROVE  /\ pairs \in Seq(PairTable) /\ pairs \in Seq(ToSet(pairs))
         /\ \A c, d \in ToSet(pairs) : c.id = d.id => c = d
         /\ \A i, j \in DOMAIN pairs : pairs[i] = pairs[j] => i = j
<1>1. pairs \in Seq(PairTable)
  BY DEF TypeInv, TableInv, PairTable
<1>2. DOMAIN pairs = 1..Len(pairs) /\ Len(pairs) \in Nat
  BY <1>1
<1>3. \A i, j \in DOMAIN pairs : pairs[i].id = pairs[j].id => i = j
  BY <1>2 DEF TypeInv, TypeOK
<1>4. \A i \in DOMAIN pairs : pairs[i] \in ToSet(pairs)
  BY DEF ToSet
<1>5. pairs \in Seq(ToSet(pairs))
  BY <1>1, <1>4
<1> QED BY <1>1, <1>3, <1>5 DEF ToSet

LEMMA PairsAre ==
  ASSUME TypeInv, NEW s, NEW c \in ToSet(pairs)
  PROVE  PairsOf(s) \in Seq(ToSet(pairs)) /\ HowOften(PairsOf(s), {c}) = Joined(s, c)
<1> DEFINE P == ToSet(pairs)
           copies(d) == [n \in 1..Joined(s, d) |-> d]
           q == [i \in DOMAIN pairs |-> copies(pairs[i])]
           count == [i \in 1..Len(q) |-> HowOften(q[i], {c})]
<1>1. pairs \in Seq(P) /\ DOMAIN pairs = 1..Len(pairs) /\ Len(pairs) \in Nat
  BY NumberedPairs
<1>2. PairsOf(s) = FlattenSeq(q)
  BY DEF PairsOf, Kept, Joined
<1>3. \A d : Joined(s, d) \in Nat
  BY JoinedIsNat
<1>4. ASSUME NEW d \in P PROVE copies(d) \in Seq(P)
  BY <1>3
<1>5. \A i \in DOMAIN pairs : pairs[i] \in P
  BY <1>1
<1>6. q \in Seq(Seq(P)) /\ Len(q) = Len(pairs) /\ \A i \in DOMAIN pairs : q[i] = copies(pairs[i])
  <2> HIDE DEF copies, P
  <2>1. \A i \in DOMAIN pairs : copies(pairs[i]) \in Seq(P)
    BY <1>4, <1>5
  <2> QED BY <1>1, <2>1
<1>7. /\ FlattenSeq(q) \in Seq(P)
      /\ HowOften(FlattenSeq(q), {c}) = SumFunctionOnSet(count, 1..Len(q))
  <2> HIDE DEF q, P
  <2> QED BY <1>6, FlattenCounts
<1>8. ASSUME NEW d \in P PROVE HowOften(copies(d), {c}) = IF d = c THEN Joined(s, d) ELSE 0
  <2>1. DOMAIN copies(d) = 1..Joined(s, d) /\ \A n \in 1..Joined(s, d) : copies(d)[n] = d
    OBVIOUS
  <2>2. CASE d = c
    <3>1. {n \in DOMAIN copies(d) : copies(d)[n] \in {c}} = 1..Joined(s, d)
      BY <2>1, <2>2
    <3>2. Cardinality(1..Joined(s, d)) = IF 1 > Joined(s, d) THEN 0 ELSE Joined(s, d) - 1 + 1
      BY <1>3, FS_Interval
    <3>3. Cardinality(1..Joined(s, d)) = Joined(s, d)
      BY <1>3, <3>2
    <3> QED BY <2>2, <3>1, <3>3 DEF HowOften, HowOftenAt
  <2>3. CASE d # c
    <3>1. \A n \in DOMAIN copies(d) : copies(d)[n] \notin {c}
      BY <2>1, <2>3
    <3> QED BY <2>3, <3>1, TimesNone
  <2> QED BY <2>2, <2>3
<1>9. PICK k \in DOMAIN pairs : pairs[k] = c
  BY DEF ToSet
<1>10. \A i \in 1..Len(q) : count[i] = IF i = k THEN Joined(s, c) ELSE 0
  <2> SUFFICES ASSUME NEW i \in 1..Len(q) PROVE count[i] = IF i = k THEN Joined(s, c) ELSE 0
    OBVIOUS
  <2>1. i \in DOMAIN pairs /\ pairs[i] \in P
    BY <1>1, <1>5, <1>6
  <2>2. count[i] = HowOften(copies(pairs[i]), {c})
    BY <1>6, <2>1
  <2>3. pairs[i] = c <=> i = k
    BY <1>9, <2>1, NumberedPairs
  <2> HIDE DEF count, copies, P, q
  <2> QED BY <1>8, <1>9, <2>1, <2>2, <2>3
<1>11. SumFunctionOnSet(count, 1..Len(q)) = Joined(s, c)
  <2>1. IsFiniteSet(1..Len(q)) /\ k \in 1..Len(q)
    BY <1>1, <1>6, FS_Interval
  <2>2. IsFiniteSet((1..Len(q)) \ {k})
    BY <2>1, FS_RemoveElement
  <2> HIDE DEF count, q
  <2>3. \A i \in 1..Len(q) : count[i] \in Int
    BY <1>3, <1>10
  <2>4. \A i \in (1..Len(q)) \ {k} : count[i] = 0
    BY <1>10
  <2>5. SumFunctionOnSet(count, 1..Len(q)) = count[k] + SumFunctionOnSet(count, (1..Len(q)) \ {k})
    BY <2>1, <2>3, SumRemove
  <2>6. SumFunctionOnSet(count, (1..Len(q)) \ {k}) = 0
    BY <2>2, <2>4, SumZero
  <2>7. count[k] = Joined(s, c) /\ Joined(s, c) \in Nat
    BY <1>3, <1>10, <2>1
  <2> QED BY <2>5, <2>6, <2>7
<1> QED BY <1>2, <1>7, <1>11

(* The preferences that choose a comparison's winner.                      *)
WinnerOf(c) == IF c.winner = "A" THEN c.a ELSE c.b
Choosing(s, c) ==
  {i \in DOMAIN PairPreference(s) :
     PairPreference(s)[i].of = c.id /\ PairPreference(s)[i].chosen = WinnerOf(c)}
Chosen(s, c) == Len(Part(PairPreference(s), Choosing(s, c)))

LEMMA TurnedTo ==
  ASSUME TypeInv, NEW c \in ToSet(pairs), NEW d \in ToSet(pairs), d.winner # "tie"
  PROVE  Turned(d).of = c.id /\ Turned(d).chosen = WinnerOf(c) <=> d = c
<1>1. Turned(d).of = d.id /\ Turned(d).chosen = WinnerOf(d)
  BY DEF Turned, WinnerOf
<1>2. d.id = c.id => d = c
  BY NumberedPairs
<1> QED BY <1>1, <1>2

LEMMA PreferencesOfPairs ==
  ASSUME TypeInv, NEW s, NEW c \in ToSet(pairs)
  PROVE  Chosen(s, c) = IF c.winner = "tie" THEN 0 ELSE Joined(s, c)
<1>1. PICK P : P = ToSet(pairs)
  OBVIOUS
<1>2. PICK q : q = PairsOf(s)
  OBVIOUS
<1>3. q \in Seq(P) /\ HowOften(q, {c}) = Joined(s, c) /\ c \in P
  BY <1>1, <1>2, PairsAre
<1> DEFINE Settled == {p \in P : p.winner # "tie"}
<1>4. PICK decided : decided = Having(q, Settled)
  OBVIOUS
<1>5. Kept(q, LAMBDA p : p.winner # "tie") = decided
  <2>1. {i \in DOMAIN q : q[i].winner # "tie"} = {i \in DOMAIN q : q[i] \in Settled}
    BY <1>3
  <2> HIDE DEF Settled
  <2> QED BY <1>4, <2>1 DEF Kept, Having
<1>6. PICK L : L = PairPreference(s)
  OBVIOUS
<1>7. L = [i \in DOMAIN decided |-> Turned(decided[i])]
  BY <1>2, <1>5, <1>6 DEF PairPreference
<1>8. decided \in Seq(P \cap Settled) /\ decided \in Seq(P)
  BY <1>3, <1>4, HavingIsList, HavingFilters
<1>9. DOMAIN L = DOMAIN decided
  BY <1>7
<1>10. Choosing(s, c) = {i \in DOMAIN decided : decided[i] \in {c}}
  <2>1. ASSUME NEW i \in DOMAIN decided
        PROVE  L[i].of = c.id /\ L[i].chosen = WinnerOf(c) <=> decided[i] \in {c}
    <3>1. decided[i] \in P \cap Settled
      BY <1>8
    <3>2. decided[i] \in ToSet(pairs) /\ decided[i].winner # "tie"
      BY <1>1, <3>1
    <3>3. L[i] = Turned(decided[i])
      BY <1>7
    <3> QED BY <3>2, <3>3, TurnedTo
  <2> QED BY <1>6, <1>9, <2>1 DEF Choosing
<1>11. PICK I : I = Choosing(s, c)
  OBVIOUS
<1>12. IsFiniteSet(I) /\ I \subseteq Int
  BY <1>8, <1>10, <1>11, PositionsHaving
<1>13. PICK T : T = {L[i] : i \in I}
  OBVIOUS
<1>14. Len(Part(L, I)) = Cardinality(I)
  <2>1. \A i \in I : L[i] \in T
    BY <1>13
  <2> QED BY <1>12, <2>1, PartIsList
<1>15. Cardinality(I) = HowOften(decided, {c})
  BY <1>10, <1>11 DEF HowOften, HowOftenAt
<1>16. HowOften(decided, {c}) = HowOften(q, Settled \cap {c})
  <2> HIDE DEF Settled
  <2> QED BY <1>3, <1>4, HavingTimes
<1>17. CASE c.winner = "tie"
  <2>1. \A i \in DOMAIN q : q[i] \notin Settled \cap {c}
    BY <1>17
  <2>2. HowOften(q, Settled \cap {c}) = 0
    BY <2>1, TimesNone
  <2> QED BY <1>6, <1>11, <1>14, <1>15, <1>16, <1>17, <2>2 DEF Chosen
<1>18. CASE c.winner # "tie"
  <2>1. Settled \cap {c} = {c}
    BY <1>3, <1>18
  <2> QED BY <1>3, <1>6, <1>11, <1>14, <1>15, <1>16, <1>18, <2>1 DEF Chosen
<1> QED BY <1>17, <1>18

LEMMA RecordsAreCounted == TypeInv => JudgeRecordsCount
<1> SUFFICES ASSUME TypeInv PROVE JudgeRecordsCount
  OBVIOUS
<1>1. ASSUME NEW e \in ToSet(evals)
      PROVE \E s \in Suites : \A u \in Suites :
              Len(Kept(EvalsOf(u), LAMBDA x : x = e)) = IF u = s THEN 1 ELSE 0
  <2>1. PICK s \in Suites : \A u \in Suites :
          HowOften(EvalsOf(u), {e}) = IF u = s THEN 1 ELSE 0
    BY EvaluationOnce
  <2>2. ASSUME NEW u \in Suites
        PROVE  Len(Kept(EvalsOf(u), LAMBDA x : x = e)) = HowOften(EvalsOf(u), {e})
    <3>1. PICK q : q = EvalsOf(u)
      OBVIOUS
    <3>2. q \in Seq(EvalTable)
      BY <3>1, EvalsAre
    <3>3. Len(Part(q, {i \in DOMAIN q : q[i] = e})) = HowOften(q, {e})
      BY <3>2, OccursHowOften
    <3> QED BY <3>1, <3>3 DEF Kept
  <2> QED BY <2>1, <2>2
<1>2. ASSUME NEW s \in Suites, NEW c \in ToSet(pairs)
      PROVE /\ Len(Kept(RunsOf(s), LAMBDA r : r.task = c.task)) = Joined(s, c)
            /\ Len(Kept(PairsOf(s), LAMBDA x : x = c)) = Joined(s, c)
            /\ Len(Kept(PairPreference(s), LAMBDA x : x.of = c.id /\ x.chosen = WinnerOf(c)))
                 = IF c.winner = "tie" THEN 0 ELSE Joined(s, c)
  <2>1. Len(Kept(RunsOf(s), LAMBDA r : r.task = c.task)) = Joined(s, c)
    BY DEF Kept, Joined
  <2>2. Len(Kept(PairsOf(s), LAMBDA x : x = c)) = Joined(s, c)
    <3>1. PICK q : q = PairsOf(s)
      OBVIOUS
    <3>2. q \in Seq(ToSet(pairs)) /\ HowOften(q, {c}) = Joined(s, c)
      BY <3>1, PairsAre
    <3>3. Len(Part(q, {i \in DOMAIN q : q[i] = c})) = HowOften(q, {c})
      BY <3>2, OccursHowOften
    <3> QED BY <3>1, <3>2, <3>3 DEF Kept
  <2>3. Len(Kept(PairPreference(s), LAMBDA x : x.of = c.id /\ x.chosen = WinnerOf(c)))
          = Chosen(s, c)
    BY DEF Kept, Chosen, Choosing
  <2> QED BY <2>1, <2>2, <2>3, PreferencesOfPairs
<1> QED BY <1>1, <1>2 DEF JudgeRecordsCount, WinnerOf

(* Whatever is stored while exports run: a preference is the widest of its *)
(* task, what is taught though it is tested as a failure scored zero and   *)
(* met a cutoff of zero, and a join repeats a comparison as often as its   *)
(* task was run, no more and no less.                                      *)
THEOREM RecordsFollow == ExportSpec => []RecordsFollowTheStore
<1>1. TypeInv => RecordsFollowTheStore
  BY PreferencesAreWidest, TaughtScoredZero, RecordsAreCounted DEF RecordsFollowTheStore
<1> QED BY InitTypeInv, StepTypeInv, <1>1, PTL DEF ExportSpec

-----------------------------------------------------------------------------
(* Rows model by model are rows.                                           *)
LEMMA RegroupedIs ==
  ASSUME NEW S, NEW rs \in Seq(S)
  PROVE  /\ Regrouped(rs) \in Seq(S) /\ ToSet(Regrouped(rs)) = ToSet(rs)
         /\ \A m : Group(Regrouped(rs), Model, m) = Group(rs, Model, m)
<1>1. PICK ms : ms = Keys(rs, Model)
  OBVIOUS
<1>2. ms \in Seq({r.model : r \in S}) /\ Distinct(ms) /\ ToSet(ms) = {r.model : r \in ToSet(rs)}
  BY <1>1, ModelKeys
<1>3. PICK q : q = [i \in DOMAIN ms |-> Group(rs, Model, ms[i])]
  OBVIOUS
<1>4. DOMAIN ms = 1..Len(ms) /\ Len(ms) \in Nat
  BY <1>2
<1>5. \A i \in 1..Len(ms) : q[i] = Group(rs, Model, ms[i]) /\ q[i] \in Seq(S)
  BY <1>3, <1>4, ModelGroups
<1>6. q \in Seq(Seq(S)) /\ Len(q) = Len(ms)
  <2>1. q \in [1..Len(ms) -> Seq(S)]
    BY <1>3, <1>4, <1>5
  <2> QED BY <1>4, <2>1
<1>7. PICK all : all = Regrouped(rs)
  OBVIOUS
<1>8. all = FlattenSeq(q)
  BY <1>1, <1>3, <1>7 DEF Regrouped
<1>9. all \in Seq(S)
  BY <1>6, <1>8, FlattenCounts
<1>10. ToSet(all) = ToSet(rs)
  <2>1. ToSet(all) = UNION {ToSet(q[i]) : i \in 1..Len(q)}
    BY <1>6, <1>8, FlattenMembers
  <2>2. \A i \in 1..Len(ms) : ToSet(q[i]) = {r \in ToSet(rs) : r.model = ms[i]}
    BY <1>5, ModelGroups
  <2>3. \A r \in ToSet(rs) : \E i \in 1..Len(ms) : r.model = ms[i]
    BY <1>2, <1>4 DEF ToSet
  <2>4. \A r \in ToSet(all) : r \in ToSet(rs)
    BY <1>6, <2>1, <2>2
  <2>5. ASSUME NEW r \in ToSet(rs) PROVE r \in ToSet(all)
    <3>1. PICK i \in 1..Len(ms) : r.model = ms[i]
      BY <2>3
    <3>2. r \in ToSet(q[i])
      BY <2>2, <3>1
    <3> QED BY <1>6, <2>1, <3>2
  <2> QED BY <2>4, <2>5
<1>11. ASSUME NEW m PROVE Group(all, Model, m) = Group(rs, Model, m)
  <2>1. PICK C : C = OfModel(S, m)
    OBVIOUS
  <2>2. Group(all, Model, m) = Having(all, C) /\ Group(rs, Model, m) = Having(rs, C)
    BY <1>9, <2>1, ModelGroups
  <2>3. CASE m \in ToSet(ms)
    <3>1. PICK k \in 1..Len(ms) : ms[k] = m
      BY <1>4, <2>3 DEF ToSet
    <3>2. ASSUME NEW i \in 1..Len(q), i # k PROVE Having(q[i], C) = <<>>
      <4>1. ms[i] # m
        BY <1>2, <1>4, <1>6, <3>1, <3>2 DEF Distinct
      <4>2. PICK g \in Seq(S) : g = q[i] /\ g = Group(rs, Model, ms[i])
        BY <1>5, <1>6
      <4>3. \A j \in DOMAIN g : g[j] \in OfModel(S, ms[i])
        BY <4>2, ModelGroups
      <4>4. \A j \in DOMAIN g : g[j] \notin C
        BY <2>1, <4>1, <4>3 DEF OfModel
      <4> QED BY <4>2, <4>4, HavingNone
    <3>3. k \in 1..Len(q)
      BY <1>6
    <3>4. Having(FlattenSeq(q), C) = Having(q[k], C)
      BY <1>6, <3>2, <3>3, FlattenHasOne
    <3>5. PICK g \in Seq(S) : g = q[k] /\ g = Group(rs, Model, m)
      BY <1>5, <3>1
    <3>6. \A j \in DOMAIN g : g[j] \in C
      BY <2>1, <3>5, ModelGroups
    <3>7. Having(g, C) = g
      BY <3>6, HavingAll
    <3> QED BY <1>8, <2>2, <3>4, <3>5, <3>7
  <2>4. CASE m \notin ToSet(ms)
    <3>1. \A r \in ToSet(rs) : r \notin C
      BY <1>2, <2>1, <2>4 DEF OfModel
    <3>2. /\ \A i \in DOMAIN all : all[i] \notin C
          /\ \A i \in DOMAIN rs : rs[i] \notin C
      BY <1>10, <3>1 DEF ToSet
    <3>3. Having(all, C) = <<>> /\ Having(rs, C) = <<>>
      BY <1>9, <3>2, HavingNone
    <3> QED BY <2>2, <3>3
  <2> QED BY <2>3, <2>4
<1> QED BY <1>7, <1>9, <1>10, <1>11

-----------------------------------------------------------------------------
(* The candidates of the frontier depend on what ran, not on the order.    *)
Contender(rs, m) ==
  [who |-> m, score |-> AvgScore(Group(rs, Model, m)), tps |-> AvgSpeed(Group(rs, Model, m))]
Contenders(rs) ==
  {Contender(rs, m) : m \in {m \in {r.model : r \in ToSet(rs)} : Scored(Group(rs, Model, m)) # <<>>}}
Entries(S) == [who : {r.model : r \in S}, score : Fraction, tps : Fraction]

LEMMA CandidatesAre ==
  ASSUME NEW S, GoodRows(S), NEW rs \in Seq(S)
  PROVE  /\ Candidates(rs, Model) \in Seq(Entries(S))
         /\ ToSet(Candidates(rs, Model)) = Contenders(rs)
<1>1. PICK ms : ms = Keys(rs, Model)
  OBVIOUS
<1>2. ms \in Seq({r.model : r \in S}) /\ ToSet(ms) = {r.model : r \in ToSet(rs)}
  BY <1>1, ModelKeys
<1>3. PICK C : C = {m \in {r.model : r \in S} : Scored(Group(rs, Model, m)) # <<>>}
  OBVIOUS
<1>4. PICK ks : ks = Having(ms, C)
  OBVIOUS
<1>5. ks \in Seq({r.model : r \in S} \cap C) /\ ToSet(ks) = ToSet(ms) \cap C
  BY <1>2, <1>4, HavingIsList, HavingMembers
<1>6. \A i \in DOMAIN ms : ms[i] \in {r.model : r \in S}
  BY <1>2
<1>7. {i \in DOMAIN ms : Scored(Group(rs, Model, ms[i])) # <<>>} = {i \in DOMAIN ms : ms[i] \in C}
  BY <1>3, <1>6
<1>8. Kept(ms, LAMBDA k : Scored(Group(rs, Model, k)) # <<>>) = ks
  BY <1>4, <1>7 DEF Kept, Having
<1>9. PICK f : f = [m \in {r.model : r \in S} |-> Contender(rs, m)]
  OBVIOUS
<1>10. \A i \in DOMAIN ks : ks[i] \in {r.model : r \in S}
  BY <1>5
<1>11. Candidates(rs, Model) = [i \in DOMAIN ks |-> Contender(rs, ks[i])]
  BY <1>1, <1>8 DEF Candidates, ScoreIn, Contender
<1>12. Candidates(rs, Model) = [i \in DOMAIN ks |-> f[ks[i]]]
  BY <1>9, <1>10, <1>11
<1>13. PICK cs : cs = Candidates(rs, Model)
  OBVIOUS
<1>14. ToSet(cs) = {f[m] : m \in ToSet(ks)} /\ cs \in Seq({f[m] : m \in ToSet(ks)})
  <2>1. PICK M : ks \in Seq(M)
    BY <1>5
  <2>2. AreMapped(cs, ks, f)
    BY <1>12, <1>13, <2>1, MappedMembers
  <2> QED BY <2>2 DEF AreMapped
<1>15. \A m \in ToSet(ks) : m \in {r.model : r \in S} /\ f[m] = Contender(rs, m)
  BY <1>5, <1>9, <1>10 DEF ToSet
<1>16. ToSet(ks) = {m \in {r.model : r \in ToSet(rs)} : Scored(Group(rs, Model, m)) # <<>>}
  <2>1. \A r \in ToSet(rs) : r \in S
    BY DEF ToSet
  <2> QED BY <1>2, <1>3, <1>5, <2>1
<1>17. {f[m] : m \in ToSet(ks)} = Contenders(rs)
  BY <1>15, <1>16 DEF Contenders
<1>18. ASSUME NEW m \in ToSet(ks) PROVE f[m] \in Entries(S)
  <2>1. Group(rs, Model, m) \in Seq(S)
    BY ModelGroups
  <2>2. AvgScore(Group(rs, Model, m)) \in Fraction /\ AvgSpeed(Group(rs, Model, m)) \in Fraction
    BY <2>1, AvgScoreIs, AvgSpeedIs DEF Average
  <2>3. m \in {r.model : r \in S} /\ f[m] = Contender(rs, m)
    BY <1>15
  <2>4. PICK M : M = {r.model : r \in S}
    OBVIOUS
  <2>5. Entries(S) = [who : M, score : Fraction, tps : Fraction]
    BY <2>4 DEF Entries
  <2>6. PICK c : c = Contender(rs, m)
    OBVIOUS
  <2>7. c \in [who : M, score : Fraction, tps : Fraction]
    BY <2>2, <2>3, <2>4, <2>6 DEF Contender
  <2> QED BY <2>3, <2>5, <2>6, <2>7
<1>19. \A i \in DOMAIN cs : cs[i] \in Entries(S)
  BY <1>14, <1>18
<1>20. cs \in Seq(Entries(S))
  <2>1. cs \in [1..Len(cs) -> Entries(S)] /\ Len(cs) \in Nat
    BY <1>14, <1>19
  <2> QED BY <2>1
<1> QED BY <1>13, <1>14, <1>17, <1>20

(* No worse and no slower; and what is better or faster besides.           *)
AtMostAs(a, b) == Le(a.score, b.score) /\ Le(a.tps, b.tps)

LEMMA BeatsIs ==
  ASSUME NEW a, NEW b, a.score \in Fraction, a.tps \in Fraction, b.score \in Fraction, b.tps \in Fraction
  PROVE  (Beats(b, a) <=> AtMostAs(a, b) /\ ~AtMostAs(b, a)) /\ AtMostAs(a, a)
<1>1. Lt(a.score, b.score) <=> ~Le(b.score, a.score)
  BY LeTotal
<1>2. Lt(a.tps, b.tps) <=> ~Le(b.tps, a.tps)
  BY LeTotal
<1>3. Le(a.score, a.score) /\ Le(a.tps, a.tps)
  BY LeTotal
<1> QED BY <1>1, <1>2, <1>3 DEF Beats, AtMostAs

(* In a finite field everyone is at most as good and fast as someone whom  *)
(* nobody beats: whoever beats a contender has fewer who beat it.          *)
LEMMA UnbeatenCover ==
  ASSUME NEW A, IsFiniteSet(A), \A a \in A : a.score \in Fraction /\ a.tps \in Fraction
  PROVE  \A a \in A : \E c \in A : AtMostAs(a, c) /\ \A b \in A : ~Beats(b, c)
<1>1. \A a, b \in A : (Beats(b, a) <=> AtMostAs(a, b) /\ ~AtMostAs(b, a)) /\ AtMostAs(a, a)
  BY BeatsIs
<1>2. ASSUME NEW a \in A, NEW b \in A, NEW c \in A, AtMostAs(a, b), AtMostAs(b, c)
      PROVE  AtMostAs(a, c)
  <2>1. Le(a.score, b.score) /\ Le(b.score, c.score) /\ Le(a.tps, b.tps) /\ Le(b.tps, c.tps)
    BY <1>2 DEF AtMostAs
  <2>2. Le(a.score, c.score) /\ Le(a.tps, c.tps)
    BY <2>1, LeTransitive
  <2> QED BY <2>2 DEF AtMostAs
<1> DEFINE Covered == {a \in A : \E c \in A : AtMostAs(a, c) /\ \A b \in A : ~Beats(b, c)}
           Good == {T \in SUBSET A : \A a \in A : {b \in A : Beats(b, a)} \subseteq T => a \in Covered}
<1>3. ASSUME NEW T \in SUBSET A, \A x \in T : T \ {x} \in Good
      PROVE  T \in Good
  <2> SUFFICES ASSUME NEW a \in A, {b \in A : Beats(b, a)} \subseteq T PROVE a \in Covered
    OBVIOUS
  <2>1. CASE \A b \in A : ~Beats(b, a)
    BY <1>1, <2>1
  <2>2. ASSUME NEW x \in A, Beats(x, a) PROVE a \in Covered
    <3>1. x \in T /\ T \ {x} \in Good
      BY <1>3, <2>2
    <3>2. ASSUME NEW y \in A, Beats(y, x) PROVE y \in T \ {x}
      <4>1. Beats(y, a)
        BY <1>1, <1>2, <2>2, <3>2
      <4>2. y # x
        BY <1>1, <3>2
      <4> QED BY <4>1, <4>2
    <3>3. x \in Covered
      BY <3>1, <3>2
    <3>4. PICK c \in A : AtMostAs(x, c) /\ \A b \in A : ~Beats(b, c)
      BY <3>3
    <3>5. AtMostAs(a, c)
      BY <1>1, <1>2, <2>2, <3>4
    <3> QED BY <3>4, <3>5
  <2> QED BY <2>1, <2>2
<1>4. SUBSET A \subseteq Good
  <2> HIDE DEF Good
  <2> QED BY <1>3, SubsetInduction
<1>5. A \in Good
  BY <1>4
<1>6. \A a \in A : {b \in A : Beats(b, a)} \subseteq A
  OBVIOUS
<1> QED BY <1>5, <1>6

ScoresFall(r) == \A i, j \in DOMAIN r : i <= j => Le(r[j].score, r[i].score)

LEMMA FrontierIs ==
  ASSUME NEW S, GoodRows(S), NEW rs \in Seq(S)
  PROVE  /\ Frontier(rs) \in Seq(Entries(S)) /\ ScoresFall(Frontier(rs))
         /\ ToSet(Frontier(rs)) = {a \in Contenders(rs) : \A b \in Contenders(rs) : ~Beats(b, a)}
<1>1. PICK all \in Seq(S) : /\ all = Regrouped(rs) /\ ToSet(all) = ToSet(rs)
                            /\ \A m : Group(all, Model, m) = Group(rs, Model, m)
  BY RegroupedIs
<1>2. Contenders(all) = Contenders(rs)
  BY <1>1 DEF Contenders, Contender
<1>3. PICK cs \in Seq(Entries(S)) : cs = Candidates(all, Model) /\ ToSet(cs) = Contenders(rs)
  BY <1>2, CandidatesAre
<1>4. PICK U : U = {a \in Entries(S) : \A b \in ToSet(cs) : ~Beats(b, a)}
  OBVIOUS
<1>5. PICK best : best = Having(cs, U)
  OBVIOUS
<1>6. \A i \in DOMAIN cs : cs[i] \in Entries(S)
  OBVIOUS
<1>7. {i \in DOMAIN cs : \A b \in ToSet(cs) : ~Beats(b, cs[i])} = {i \in DOMAIN cs : cs[i] \in U}
  BY <1>4, <1>6
<1>8. Kept(cs, LAMBDA a : \A b \in ToSet(cs) : ~Beats(b, a)) = best
  BY <1>5, <1>7 DEF Kept, Having
<1>9. best \in Seq(Entries(S) \cap U) /\ ToSet(best) = ToSet(cs) \cap U
  BY <1>5, HavingIsList, HavingMembers
<1>10. Frontier(rs) = Descending(best, LAMBDA a : a.score)
  BY <1>1, <1>3, <1>8 DEF Frontier
<1>11. PICK v : v = [i \in DOMAIN best |-> best[i].score]
  OBVIOUS
<1>12. best \in Seq(Entries(S)) /\ \A i \in DOMAIN best : best[i] \in Entries(S)
  BY <1>9
<1>13. v \in [DOMAIN best -> Fraction]
  BY <1>11, <1>12 DEF Entries
<1>14. Frontier(rs) = RankOrder(best, Standing(v))
  BY <1>10, <1>11 DEF Descending, Standing
<1>15. PICK r : r = Frontier(rs)
  OBVIOUS
<1>16. r \in Seq(Entries(S)) /\ Len(r) = Len(best) /\ \E at : Arranges(at, r, best, Falling(v))
  BY <1>12, <1>13, <1>14, <1>15, StandingArranges
<1>17. ToSet(r) = ToSet(best)
  BY <1>12, <1>16, ArrangesMembers
<1>18. ToSet(cs) \subseteq Entries(S)
  BY <1>6 DEF ToSet
<1>19. ScoresFall(r)
  <2>1. PICK at : Arranges(at, r, best, Falling(v))
    BY <1>16
  <2>2. DOMAIN r = DOMAIN best
    BY <1>12, <1>16
  <2>3. \A i \in DOMAIN best : at[i] \in DOMAIN best /\ r[i].score = v[at[i]]
    BY <1>11, <2>1 DEF Arranges
  <2>4. \A i, j \in DOMAIN best : i <= j => Le(v[at[j]], v[at[i]])
    BY <1>12, <1>13, <2>1, ArrangesFall
  <2> QED BY <2>2, <2>3, <2>4 DEF ScoresFall
<1> QED BY <1>3, <1>4, <1>9, <1>15, <1>16, <1>17, <1>18, <1>19

-----------------------------------------------------------------------------
(* The databases: rows of the fill, which are fit to be averaged.          *)
FillRows == UNION {Fills[f].prior \cup Fills[f].rows : f \in DOMAIN Fills}
FillInv == fill \in DOMAIN Fills /\ prior \in Seq(FillRows) /\ rows \in Seq(FillRows)

LEMMA FillRowsAre == GoodRows(FillRows)
BY FillsAssumption DEF FillRows, GoodRows

LEMMA FillInvHolds == Spec => []FillInv
<1>1. Init => FillInv
  BY DEF Init, FillInv
<1>2. FillInv /\ [Next]_vars => FillInv'
  <2> SUFFICES ASSUME FillInv, [Next]_vars PROVE FillInv'
    OBVIOUS
  <2>1. ASSUME NEW S, NEW s \in Seq(S), NEW r \in S PROVE <<r>> \o s \in Seq(S)
    OBVIOUS
  <2>2. CASE RecordPrior
    <3>1. PICK r \in Fills[fill].prior : prior' = <<r>> \o prior
      BY <2>2 DEF RecordPrior
    <3>2. r \in FillRows
      BY DEF FillInv, FillRows
    <3>3. prior' \in Seq(FillRows)
      BY <2>1, <3>1, <3>2 DEF FillInv
    <3> QED BY <2>2, <3>3 DEF RecordPrior, FillInv, FillRows
  <2>3. CASE Record
    <3>1. PICK r \in Fills[fill].rows : rows' = <<r>> \o rows
      BY <2>3 DEF Record
    <3>2. r \in FillRows
      BY DEF FillInv, FillRows
    <3>3. rows' \in Seq(FillRows)
      BY <2>1, <3>1, <3>2 DEF FillInv
    <3> QED BY <2>3, <3>3 DEF Record, FillInv, FillRows
  <2>4. CASE UNCHANGED vars
    BY <2>4 DEF vars, FillInv, FillRows
  <2> QED BY <2>2, <2>3, <2>4 DEF Next
<1> QED BY <1>1, <1>2, PTL DEF Spec

LEMMA FrontierHolds == ASSUME FillInv PROVE FrontierCovers
<1>1. rows \in Seq(FillRows) /\ GoodRows(FillRows)
  BY FillRowsAre DEF FillInv
<1>2. PICK A : A = Contenders(rows)
  OBVIOUS
<1>3. PICK cs \in Seq(Entries(FillRows)) : cs = Candidates(rows, Model) /\ ToSet(cs) = A
  BY <1>1, <1>2, CandidatesAre
<1>4. \A a \in A : a.score \in Fraction /\ a.tps \in Fraction
  <2>1. \A i \in DOMAIN cs : cs[i] \in Entries(FillRows)
    OBVIOUS
  <2> QED BY <1>3, <2>1 DEF ToSet, Entries
<1>5. IsFiniteSet(A)
  BY <1>3, MembersAreFinite
<1>6. PICK front : front = ToSet(Frontier(rows))
  OBVIOUS
<1>7. front = {a \in A : \A b \in A : ~Beats(b, a)}
  BY <1>1, <1>2, <1>6, FrontierIs
<1>8. \A a \in A : \E c \in front : AtMostAs(a, c)
  BY <1>4, <1>5, <1>7, UnbeatenCover
<1>9. \A a, b \in front : AtMostAs(a, b) => AtMostAs(b, a)
  BY <1>4, <1>7, BeatsIs
<1> QED BY <1>3, <1>6, <1>8, <1>9 DEF FrontierCovers, AtMostAs

(* Whatever is stored, the frontier that a report prints covers the field: *)
(* a scored model that is not on it is no better and no faster than one    *)
(* that is, and none on it is worse than another without being its equal.  *)
THEOREM FrontierIsFound == Spec => []FrontierCovers
<1>1. FillInv => FrontierCovers
  BY FrontierHolds
<1> QED BY <1>1, FillInvHolds, PTL

-----------------------------------------------------------------------------
(* What detect_regressions finds.                                          *)
FarKeys(new, old, tolerance) ==
  {k \in ScoredKeys(new) \cap ScoredKeys(old) : Far(Delta(new, old, k), tolerance)}
IsSection(d, new, old, tolerance) ==
  /\ ToSet(d) = {ChangeOf(new, old, k) : k \in FarKeys(new, old, tolerance)}
  /\ \A i, j \in DOMAIN d : i < j => d[i].key # d[j].key /\ Le(d[i].delta, d[j].delta)

LEMMA DetectIs ==
  ASSUME NEW S, GoodRows(S), NEW new \in Seq(S), NEW old \in Seq(S), NEW tolerance,
         NEW d, d = DetectRegressions(new, old, tolerance)
  PROVE  IsSection(d, new, old, tolerance)
<1>1. PICK all : all = Keys(Scored(new), InTask)
  OBVIOUS
<1>2. all \in Seq(KeysOf(S)) /\ Distinct(all) /\ ToSet(all) = ScoredKeys(new)
  <2>1. Scored(new) \in Seq(HasScore(S)) /\ KeysOf(HasScore(S)) \subseteq KeysOf(S)
    BY ScoredAre DEF KeysOf, HasScore
  <2>2. Keys(Scored(new), InTask) \in Seq(KeysOf(HasScore(S))) /\ Distinct(Keys(Scored(new), InTask))
    BY <2>1, KeysAreTasks
  <2>3. all \in Seq(KeysOf(S))
    BY <1>1, <2>1, <2>2
  <2> QED BY <1>1, <2>2, <2>3, ScoredKeysAre
<1>3. PICK ks : ks = Having(all, ScoredKeys(old))
  OBVIOUS
<1>4. /\ ks \in Seq(KeysOf(S)) /\ Distinct(ks)
      /\ ToSet(ks) = ScoredKeys(new) \cap ScoredKeys(old)
  <2>1. ks \in Seq(KeysOf(S) \cap ScoredKeys(old)) /\ ToSet(ks) = ToSet(all) \cap ScoredKeys(old)
    BY <1>2, <1>3, HavingIsList, HavingMembers
  <2>2. Distinct(ks)
    BY <1>2, <1>3, HavingDistinct
  <2>3. ks \in Seq(KeysOf(S))
    BY <2>1
  <2> QED BY <1>2, <2>1, <2>2, <2>3
<1>5. Kept(all, LAMBDA k : Scored(Group(old, InTask, k)) # <<>>) = ks
  <2>1. {i \in DOMAIN all : Scored(Group(old, InTask, all[i])) # <<>>}
          = {i \in DOMAIN all : all[i] \in ScoredKeys(old)}
    BY ScoredKeysAre
  <2> QED BY <1>3, <2>1 DEF Kept, Having
<1>6. PICK cs : cs = [i \in DOMAIN ks |-> ChangeOf(new, old, ks[i])]
  OBVIOUS
<1>7. \A i \in DOMAIN ks : ks[i] \in KeysOf(S)
  BY <1>4
<1>8. DOMAIN cs = DOMAIN ks /\ \A i \in DOMAIN cs : cs[i] \in Changes(S) /\ cs[i].key = ks[i]
  <2>1. \A i \in DOMAIN ks : ChangeOf(new, old, ks[i]) \in Changes(S)
    BY <1>7, ChangeIs
  <2>2. \A i \in DOMAIN ks : ChangeOf(new, old, ks[i]).key = ks[i]
    BY DEF ChangeOf
  <2> QED BY <1>6, <2>1, <2>2
<1>9. cs \in Seq(Changes(S)) /\ Distinct(cs)
  <2>1. DOMAIN cs = 1..Len(ks) /\ Len(ks) \in Nat
    BY <1>4, <1>8
  <2>2. cs \in [1..Len(ks) -> Changes(S)]
    BY <1>6, <1>8, <2>1
  <2>3. cs \in Seq(Changes(S))
    BY <2>1, <2>2
  <2>4. \A i, j \in DOMAIN cs : cs[i] = cs[j] => i = j
    BY <1>4, <1>8 DEF Distinct
  <2> QED BY <2>3, <2>4 DEF Distinct
<1>10. PICK F : F = {c \in Changes(S) : Far(c.delta, tolerance)}
  OBVIOUS
<1>11. PICK far : far = Having(cs, F)
  OBVIOUS
<1>12. far \in Seq(Changes(S)) /\ Distinct(far) /\ ToSet(far) = ToSet(cs) \cap F
  <2>1. far \in Seq(Changes(S) \cap F) /\ ToSet(far) = ToSet(cs) \cap F
    BY <1>9, <1>11, HavingIsList, HavingMembers
  <2>2. Distinct(far)
    BY <1>9, <1>11, HavingDistinct
  <2>3. far \in Seq(Changes(S))
    BY <2>1
  <2> QED BY <2>1, <2>2, <2>3
<1>13. Kept(cs, LAMBDA c : Far(c.delta, tolerance)) = far
  <2>1. {i \in DOMAIN cs : Far(cs[i].delta, tolerance)} = {i \in DOMAIN cs : cs[i] \in F}
    BY <1>8, <1>10
  <2> QED BY <1>11, <2>1 DEF Kept, Having
<1>14. d = Descending(far, LAMBDA c : Minus(Zero, c.delta))
  BY <1>1, <1>5, <1>6, <1>13 DEF DetectRegressions, ScoreIn, ChangeOf, Delta, Mean
<1>15. PICK v : v = [i \in DOMAIN far |-> Minus(Zero, far[i].delta)]
  OBVIOUS
<1>16. \A i \in DOMAIN far : far[i] \in Changes(S) /\ far[i].delta \in Fraction
  <2>1. \A i \in DOMAIN far : far[i] \in Changes(S)
    BY <1>12
  <2> QED BY <2>1 DEF Changes
<1>17. v \in [DOMAIN far -> Fraction]
  BY <1>15, <1>16, FallenIs
<1>18. d = RankOrder(far, Standing(v))
  BY <1>14, <1>15 DEF Descending, Standing
<1>19. d \in Seq(Changes(S)) /\ Len(d) = Len(far) /\ \E at : Arranges(at, d, far, Falling(v))
  BY <1>12, <1>17, <1>18, StandingArranges
<1>20. PICK at : Arranges(at, d, far, Falling(v))
  BY <1>19
<1>21. ToSet(d) = ToSet(far)
  BY <1>12, <1>19, ArrangesMembers
<1>22. ToSet(d) = {ChangeOf(new, old, k) : k \in FarKeys(new, old, tolerance)}
  <2>1. ASSUME NEW c \in ToSet(d)
        PROVE  \E k \in FarKeys(new, old, tolerance) : c = ChangeOf(new, old, k)
    <3>1. c \in ToSet(cs) /\ c \in F
      BY <1>12, <1>21
    <3>2. PICK i \in DOMAIN cs : c = cs[i]
      BY <3>1 DEF ToSet
    <3>3. ks[i] \in ToSet(ks) /\ c = ChangeOf(new, old, ks[i])
      BY <1>6, <1>8, <3>2 DEF ToSet
    <3>4. Far(c.delta, tolerance) /\ c.delta = Delta(new, old, ks[i])
      BY <1>10, <3>1, <3>3 DEF ChangeOf
    <3> QED BY <1>4, <3>3, <3>4 DEF FarKeys
  <2>2. ASSUME NEW k \in FarKeys(new, old, tolerance) PROVE ChangeOf(new, old, k) \in ToSet(d)
    <3>1. k \in ToSet(ks) /\ Far(Delta(new, old, k), tolerance)
      BY <1>4 DEF FarKeys
    <3>2. PICK i \in DOMAIN ks : ks[i] = k
      BY <3>1 DEF ToSet
    <3>3. cs[i] = ChangeOf(new, old, k) /\ cs[i] \in Changes(S)
      BY <1>6, <1>8, <3>2
    <3>4. cs[i] \in ToSet(cs)
      BY <1>8 DEF ToSet
    <3>5. cs[i] \in F
      BY <1>10, <3>1, <3>3 DEF ChangeOf
    <3> QED BY <1>12, <1>21, <3>3, <3>4, <3>5
  <2> QED BY <2>1, <2>2
<1>23. ASSUME NEW i \in DOMAIN d, NEW j \in DOMAIN d, i < j
       PROVE  d[i].key # d[j].key /\ Le(d[i].delta, d[j].delta)
  <2>1. DOMAIN d = DOMAIN far /\ DOMAIN far = 1..Len(far)
    BY <1>12, <1>19
  <2>2. PICK p \in DOMAIN far, q \in DOMAIN far : p = at[i] /\ q = at[j]
    BY <1>20, <2>1 DEF Arranges
  <2>3. d[i] = far[p] /\ d[j] = far[q] /\ p # q /\ <<p, q>> \in Falling(v)
    BY <1>20, <1>23, <2>1, <2>2 DEF Arranges
  <2>4. far[p] # far[q]
    BY <1>12, <2>3 DEF Distinct
  <2>5. far[p] \in ToSet(cs) /\ far[q] \in ToSet(cs)
    BY <1>12 DEF ToSet
  <2>6. PICK x \in DOMAIN cs, y \in DOMAIN cs : far[p] = cs[x] /\ far[q] = cs[y]
    BY <2>5 DEF ToSet
  <2>7. d[i].key # d[j].key
    BY <1>4, <1>8, <2>3, <2>4, <2>6 DEF Distinct
  <2>8. Lt(v[q], v[p]) \/ Same(v[q], v[p])
    BY <2>3 DEF Falling
  <2>9. v[p] = Minus(Zero, far[p].delta) /\ v[q] = Minus(Zero, far[q].delta)
    BY <1>15
  <2>10. Le(far[p].delta, far[q].delta)
    BY <1>16, <2>8, <2>9, FallenIs
  <2> QED BY <2>3, <2>7, <2>10
<1> QED BY <1>22, <1>23 DEF IsSection

-----------------------------------------------------------------------------
(* What is far up one way is as far down the other.                        *)
LEMMA FarIs ==
  ASSUME NEW d \in Fraction, NEW t \in Fraction
  PROVE  Far(d, t) <=> d.num * t.den <= 0 - t.num * d.den \/ t.num * d.den <= d.num * t.den
<1>1. Minus(Zero, t).num = 0 - t.num /\ Minus(Zero, t).den = t.den
  BY DEF Fraction, Minus, Zero
<1>2. (0 - t.num) * d.den = 0 - t.num * d.den
  BY DEF Fraction
<1> QED BY <1>1, <1>2 DEF Far, Le

LEMMA MinusSwaps ==
  ASSUME NEW a \in Fraction, NEW b \in Fraction, NEW t \in Fraction, Lt(Zero, t)
  PROVE  /\ Far(Minus(a, b), t) <=> Far(Minus(b, a), t)
         /\ Far(Minus(a, b), t) => (Lt(Minus(a, b), Zero) <=> ~Lt(Minus(b, a), Zero))
         /\ ~Far(Minus(a, a), t)
<1>1. PICK d \in Fraction : d = Minus(a, b)
  BY MinusFraction
<1>2. PICK e \in Fraction : e = Minus(b, a)
  BY MinusFraction
<1>3. PICK z \in Fraction : z = Minus(a, a)
  BY MinusFraction
<1>4. e.num = 0 - d.num /\ e.den = d.den /\ z.num = 0
  <2>1. a.num \in Int /\ b.num \in Int /\ a.den \in Int /\ b.den \in Int
    BY DEF Fraction
  <2>2. a.den * b.den = b.den * a.den
    BY <2>1
  <2> QED BY <1>1, <1>2, <1>3, <2>1, <2>2 DEF Minus
<1>5. PICK x \in Int : x = d.num * t.den
  BY DEF Fraction
<1>6. e.num * t.den = 0 - x /\ z.num * t.den = 0
  BY <1>4, <1>5 DEF Fraction
<1>7. 0 < t.num
  BY DEF Lt, Zero, Fraction
<1>8. PICK y \in Int : y = t.num * d.den
  BY DEF Fraction
<1>9. 0 < y /\ 0 < t.num * z.den
  BY <1>7, <1>8 DEF Fraction
<1>10. PICK w \in Int : w = t.num * z.den
  BY DEF Fraction
<1>11. Far(d, t) <=> x <= 0 - y \/ y <= x
  BY <1>5, <1>8, FarIs
<1>12. Far(e, t) <=> 0 - x <= 0 - y \/ y <= 0 - x
  BY <1>4, <1>6, <1>8, FarIs
<1>13. ~Far(z, t)
  BY <1>6, <1>9, <1>10, FarIs
<1>14. (Lt(d, Zero) <=> d.num < 0) /\ (Lt(e, Zero) <=> 0 - d.num < 0)
  BY <1>4 DEF Lt, Zero, Fraction
<1>15. Far(d, t) => d.num # 0
  BY <1>5, <1>9, <1>11 DEF Fraction
<1>16. d.num \in Int
  BY DEF Fraction
<1> QED BY <1>1, <1>2, <1>3, <1>9, <1>11, <1>12, <1>13, <1>14, <1>15, <1>16

-----------------------------------------------------------------------------
(* Wall times and speeds, which compare_runs averages.                     *)
LEMMA TimesAndSpeeds ==
  ASSUME NEW S, GoodRows(S), NEW rs \in Seq(S), NEW k
  PROVE  Average(Avg(Walls(rs, k))) /\ Average(Avg(Speeds(rs, k)))
<1>1. \A i \in DOMAIN rs : rs[i] \in S
  OBVIOUS
<1>2. Average(Avg(Walls(rs, k)))
  <2>1. PICK C : C = {r \in S : InTask(r) = k /\ r.wall > 0}
    OBVIOUS
  <2>2. {i \in DOMAIN rs : InTask(rs[i]) = k /\ rs[i].wall > 0} = {i \in DOMAIN rs : rs[i] \in C}
    BY <1>1, <2>1
  <2>3. PICK s \in Seq(S \cap C) : s = Having(rs, C)
    BY HavingIsList
  <2>4. Walls(rs, k) = [i \in DOMAIN s |-> s[i].wall]
    BY <2>2, <2>3 DEF Walls, Kept, Having
  <2>5. \A i \in DOMAIN s : s[i].wall \in Nat
    BY DEF GoodRows
  <2>6. [i \in DOMAIN s |-> s[i].wall] \in [1..Len(s) -> Nat]
    BY <2>5
  <2>7. Walls(rs, k) \in Seq(Nat)
    BY <2>4, <2>6
  <2> QED BY <2>7, AvgIs
<1>3. Average(Avg(Speeds(rs, k)))
  <2>1. PICK C : C = {r \in S : InTask(r) = k /\ r.tps > 0}
    OBVIOUS
  <2>2. {i \in DOMAIN rs : InTask(rs[i]) = k /\ rs[i].tps > 0} = {i \in DOMAIN rs : rs[i] \in C}
    BY <1>1, <2>1
  <2>3. PICK s \in Seq(S \cap C) : s = Having(rs, C)
    BY HavingIsList
  <2>4. Speeds(rs, k) = [i \in DOMAIN s |-> s[i].tps]
    BY <2>2, <2>3 DEF Speeds, Kept, Having
  <2>5. \A i \in DOMAIN s : s[i].tps \in Nat
    BY DEF GoodRows
  <2>6. [i \in DOMAIN s |-> s[i].tps] \in [1..Len(s) -> Nat]
    BY <2>5
  <2>7. Speeds(rs, k) \in Seq(Nat)
    BY <2>4, <2>6
  <2> QED BY <2>7, AvgIs
<1> QED BY <1>2, <1>3

LEMMA RoseIs ==
  ASSUME NEW s, NEW t, Average(Avg(s)), Average(Avg(t))
  PROVE  ~(Rose(s, t) /\ Rose(t, s)) /\ ~(Fell(s, t) /\ Fell(t, s)) /\ ~(Rose(s, t) /\ Fell(s, t))
<1>1. TpsThreshold \in Fraction /\ Le(Zero, TpsThreshold)
  BY ThresholdAssumption DEF Fraction
<1>2. (Rose(s, t) => Lt(Avg(s), Avg(t))) /\ (Rose(t, s) => Lt(Avg(t), Avg(s)))
  BY <1>1, RelativeChange DEF Rose
<1>3. ASSUME NEW a, NEW b, Average(a), Average(b), Lt(Times(a, TpsThreshold), Minus(a, b))
      PROVE  Lt(b, a)
  <2>1. a \in Fraction /\ b \in Fraction /\ 0 <= a.num /\ TpsThreshold.num >= 0
    BY <1>1, <1>3 DEF Average, Fraction, Le, Zero
  <2>2. PICK d \in Int : d = a.num * b.den - b.num * a.den
    BY <2>1 DEF Fraction
  <2>3. PICK p \in Nat \ {0}, q \in Nat \ {0} : p = a.den * b.den /\ q = a.den * TpsThreshold.den
    BY <1>1, <2>1 DEF Fraction
  <2>4. PICK n \in Nat : n = a.num * TpsThreshold.num
    BY <1>1, <2>1 DEF Fraction
  <2>5. n * p < d * q
    BY <1>3, <2>2, <2>3, <2>4 DEF Lt, Times, Minus
  <2>6. 0 <= n * p /\ n * p \in Int /\ d * q \in Int
    OBVIOUS
  <2>7. 0 < d * q
    BY <2>5, <2>6
  <2>8. 0 < d
    BY <2>7
  <2> QED BY <2>1, <2>2, <2>8 DEF Lt, Fraction
<1>4. (Fell(s, t) => Lt(Avg(t), Avg(s))) /\ (Fell(t, s) => Lt(Avg(s), Avg(t)))
  BY <1>3 DEF Fell
<1>5. ~(Lt(Avg(s), Avg(t)) /\ Lt(Avg(t), Avg(s)))
  BY LeTotal DEF Average
<1> QED BY <1>2, <1>4, <1>5

-----------------------------------------------------------------------------
(* The verdicts of compare_runs, of all keys at once.                      *)
Dropped(new, old) ==
  {ChangeOf(new, old, k) : k \in {k \in FarKeys(new, old, ScoreThreshold) : Lt(Delta(new, old, k), Zero)}}
Risen(new, old) ==
  {ChangeOf(new, old, k) : k \in {k \in FarKeys(new, old, ScoreThreshold) : ~Lt(Delta(new, old, k), Zero)}}

LEMMA QualityIs ==
  ASSUME NEW S, GoodRows(S), NEW new \in Seq(S), NEW old \in Seq(S), NEW k
  PROVE  ToSet(QualityOf(new, old, k)) =
           {ChangeOf(new, old, j) : j \in FarKeys(new, old, ScoreThreshold) \cap {k}}
<1>1. PICK g : g = Group(new, InTask, k)
  OBVIOUS
<1>2. PICK h : h = Group(old, InTask, k)
  OBVIOUS
<1>3. g \in Seq(S) /\ Group(g, InTask, k) = g /\ h \in Seq(S) /\ Group(h, InTask, k) = h
  BY <1>1, <1>2, KeyGroups
<1>4. IsSection(QualityOf(new, old, k), g, h, ScoreThreshold)
  BY <1>1, <1>2, <1>3, DetectIs DEF QualityOf
<1>5. ScoredKeys(g) = ScoredKeys(new) \cap {k} /\ ScoredKeys(h) = ScoredKeys(old) \cap {k}
  BY <1>1, <1>2, ScoredKeysAre
<1>6. Mean(g, k) = Mean(new, k) /\ Mean(h, k) = Mean(old, k)
  BY <1>1, <1>2, <1>3 DEF Mean
<1>7. Delta(g, h, k) = Delta(new, old, k) /\ ChangeOf(g, h, k) = ChangeOf(new, old, k)
  BY <1>6 DEF Delta, ChangeOf
<1>8. FarKeys(g, h, ScoreThreshold) = FarKeys(new, old, ScoreThreshold) \cap {k}
  BY <1>5, <1>7 DEF FarKeys
<1>9. ToSet(QualityOf(new, old, k)) = {ChangeOf(g, h, j) : j \in FarKeys(g, h, ScoreThreshold)}
  BY <1>4 DEF IsSection
<1>10. \A j \in FarKeys(g, h, ScoreThreshold) : ChangeOf(g, h, j) = ChangeOf(new, old, j)
  BY <1>7, <1>8
<1> QED BY <1>8, <1>9, <1>10

LEMMA VerdictsAre ==
  ASSUME NEW S, GoodRows(S), NEW new \in Seq(S), NEW old \in Seq(S)
  PROVE  /\ CompareRuns(old, new).regressions = Dropped(new, old)
         /\ CompareRuns(old, new).improvements = Risen(new, old)
<1>1. PICK F : F = FarKeys(new, old, ScoreThreshold)
  OBVIOUS
<1>2. F \subseteq Both(new, old)
  BY <1>1, ScoredKeysAre DEF FarKeys, Both
<1>3. \A k : ToSet(QualityOf(new, old, k)) = {ChangeOf(new, old, j) : j \in F \cap {k}}
  BY <1>1, QualityIs
<1>4. \A k : ChangeOf(new, old, k).delta = Delta(new, old, k)
  BY DEF ChangeOf
<1>5. ASSUME NEW k
      PROVE  /\ \A c : c \in Regressed(QualityOf(new, old, k)) <=>
                  k \in F /\ c = ChangeOf(new, old, k) /\ Lt(Delta(new, old, k), Zero)
             /\ \A c : c \in Improved(QualityOf(new, old, k)) <=>
                  k \in F /\ c = ChangeOf(new, old, k) /\ ~Lt(Delta(new, old, k), Zero)
  <2>1. \A c : c \in ToSet(QualityOf(new, old, k)) <=> k \in F /\ c = ChangeOf(new, old, k)
    BY <1>3
  <2> QED BY <1>4, <2>1 DEF Regressed, Improved
<1>6. CompareRuns(old, new).regressions = Dropped(new, old)
  <2>1. CompareRuns(old, new).regressions =
          UNION {Regressed(QualityOf(new, old, k)) : k \in Both(new, old)}
    BY DEF CompareRuns
  <2> QED BY <1>1, <1>2, <1>5, <2>1 DEF Dropped
<1>7. CompareRuns(old, new).improvements = Risen(new, old)
  <2>1. CompareRuns(old, new).improvements =
          UNION {Improved(QualityOf(new, old, k)) : k \in Both(new, old)}
    BY DEF CompareRuns
  <2> QED BY <1>1, <1>2, <1>5, <2>1 DEF Risen
<1> QED BY <1>6, <1>7

(* The change of a key seen from the other side.                           *)
LEMMA ChangesSwap ==
  ASSUME NEW S, GoodRows(S), NEW new \in Seq(S), NEW old \in Seq(S)
  PROVE  /\ FarKeys(new, old, ScoreThreshold) = FarKeys(old, new, ScoreThreshold)
         /\ \A k \in FarKeys(new, old, ScoreThreshold) :
              /\ Lt(Delta(new, old, k), Zero) <=> ~Lt(Delta(old, new, k), Zero)
              /\ ChangeOf(old, new, k).key = ChangeOf(new, old, k).key
              /\ Same(ChangeOf(old, new, k).old, ChangeOf(new, old, k).new)
              /\ Same(ChangeOf(old, new, k).new, ChangeOf(new, old, k).old)
         /\ FarKeys(new, new, ScoreThreshold) = {}
<1>1. ScoreThreshold \in Fraction /\ Lt(Zero, ScoreThreshold)
  BY ThresholdAssumption DEF Fraction
<1>2. ASSUME NEW k
      PROVE  /\ Far(Delta(new, old, k), ScoreThreshold) <=> Far(Delta(old, new, k), ScoreThreshold)
             /\ Far(Delta(new, old, k), ScoreThreshold) =>
                  (Lt(Delta(new, old, k), Zero) <=> ~Lt(Delta(old, new, k), Zero))
             /\ ~Far(Delta(new, new, k), ScoreThreshold)
  <2>1. Mean(new, k) \in Fraction /\ Mean(old, k) \in Fraction
    BY MeanIs
  <2> QED BY <1>1, <2>1, MinusSwaps DEF Delta
<1>3. ASSUME NEW k
      PROVE  /\ ChangeOf(old, new, k).key = ChangeOf(new, old, k).key
             /\ Same(ChangeOf(old, new, k).old, ChangeOf(new, old, k).new)
             /\ Same(ChangeOf(old, new, k).new, ChangeOf(new, old, k).old)
  BY DEF ChangeOf, Same
<1> QED BY <1>2, <1>3 DEF FarKeys

-----------------------------------------------------------------------------
(* The comparison the other way around.                                    *)
LEMMA Swapped ==
  ASSUME NEW S, GoodRows(S), NEW new \in Seq(S), NEW old \in Seq(S), NEW c \in Dropped(new, old) \cup Risen(new, old)
  PROVE  \E d \in Dropped(old, new) \cup Risen(old, new) :
           /\ d.key = c.key /\ Same(d.old, c.new) /\ Same(d.new, c.old)
           /\ c \in Dropped(new, old) => d \in Risen(old, new)
           /\ c \in Risen(new, old) => d \in Dropped(old, new)
<1>1. PICK k \in FarKeys(new, old, ScoreThreshold) :
        /\ c = ChangeOf(new, old, k)
        /\ (c \in Dropped(new, old) /\ Lt(Delta(new, old, k), Zero))
             \/ (c \in Risen(new, old) /\ ~Lt(Delta(new, old, k), Zero))
  BY DEF Dropped, Risen
<1>2. c.delta = Delta(new, old, k)
  BY <1>1 DEF ChangeOf
<1>3. /\ c \in Dropped(new, old) => Lt(c.delta, Zero)
      /\ c \in Risen(new, old) => ~Lt(c.delta, Zero)
  BY DEF Dropped, Risen, ChangeOf
<1>4. PICK d : d = ChangeOf(old, new, k)
  OBVIOUS
<1>5. /\ k \in FarKeys(old, new, ScoreThreshold)
      /\ Lt(Delta(new, old, k), Zero) <=> ~Lt(Delta(old, new, k), Zero)
      /\ d.key = c.key /\ Same(d.old, c.new) /\ Same(d.new, c.old)
  BY <1>1, <1>4, ChangesSwap
<1>6. /\ c \in Dropped(new, old) => d \in Risen(old, new)
      /\ c \in Risen(new, old) => d \in Dropped(old, new)
  BY <1>2, <1>3, <1>4, <1>5 DEF Dropped, Risen
<1> QED BY <1>5, <1>6

LEMMA MirrorHolds == ASSUME FillInv PROVE SwapMirrors
<1>1. rows \in Seq(FillRows) /\ prior \in Seq(FillRows) /\ GoodRows(FillRows)
  BY FillRowsAre DEF FillInv
<1>2. PICK there : there = CompareRuns(prior, rows)
  OBVIOUS
<1>3. PICK back : back = CompareRuns(rows, prior)
  OBVIOUS
<1>4. /\ there.regressions = Dropped(rows, prior) /\ there.improvements = Risen(rows, prior)
      /\ back.regressions = Dropped(prior, rows) /\ back.improvements = Risen(prior, rows)
  BY <1>1, <1>2, <1>3, VerdictsAre
<1>5. \A c \in there.regressions : \E d \in back.improvements :
        d.key = c.key /\ Same(d.old, c.new) /\ Same(d.new, c.old)
  BY <1>1, <1>4, Swapped
<1>6. \A c \in back.improvements : \E d \in there.regressions :
        d.key = c.key /\ Same(d.old, c.new) /\ Same(d.new, c.old)
  BY <1>1, <1>4, Swapped
<1>7. there.lost = back.gained /\ there.gained = back.lost
  BY <1>2, <1>3 DEF CompareRuns
<1>8. ASSUME NEW k
      PROVE  /\ Average(Avg(Walls(rows, k))) /\ Average(Avg(Walls(prior, k)))
             /\ Average(Avg(Speeds(rows, k))) /\ Average(Avg(Speeds(prior, k)))
  BY <1>1, TimesAndSpeeds
<1>9. there.slower \cap back.slower = {}
  <2>1. there.slower = Slower(rows, prior) /\ back.slower = Slower(prior, rows)
    BY <1>2, <1>3 DEF CompareRuns
  <2>2. \A k : ~(Rose(Walls(prior, k), Walls(rows, k)) /\ Rose(Walls(rows, k), Walls(prior, k)))
    BY <1>8, RoseIs
  <2>3. \A k : ~(Fell(Speeds(prior, k), Speeds(rows, k)) /\ Fell(Speeds(rows, k), Speeds(prior, k)))
    BY <1>8, RoseIs
  <2> QED BY <2>1, <2>2, <2>3 DEF Slower
<1>10. there.faster \cap back.faster = {}
  <2>1. there.faster = Faster(rows, prior) /\ back.faster = Faster(prior, rows)
    BY <1>2, <1>3 DEF CompareRuns
  <2>2. \A k : ~(Fell(Walls(prior, k), Walls(rows, k)) /\ Fell(Walls(rows, k), Walls(prior, k)))
    BY <1>8, RoseIs
  <2>3. \A k : ~(Rose(Speeds(prior, k), Speeds(rows, k)) /\ Rose(Speeds(rows, k), Speeds(prior, k)))
    BY <1>8, RoseIs
  <2> QED BY <2>1, <2>2, <2>3 DEF Faster
<1> QED BY <1>2, <1>3, <1>5, <1>6, <1>7, <1>9, <1>10 DEF SwapMirrors

LEMMA ConsistencyHolds == ASSUME FillInv PROVE VerdictsAreConsistent
<1>1. rows \in Seq(FillRows) /\ prior \in Seq(FillRows) /\ GoodRows(FillRows)
  BY FillRowsAre DEF FillInv
<1>2. PICK c : c = CompareRuns(prior, rows)
  OBVIOUS
<1>3. PICK self : self = CompareRuns(rows, rows)
  OBVIOUS
<1>4. ASSUME NEW k
      PROVE  /\ Average(Avg(Walls(rows, k))) /\ Average(Avg(Walls(prior, k)))
             /\ Average(Avg(Speeds(rows, k))) /\ Average(Avg(Speeds(prior, k)))
  BY <1>1, TimesAndSpeeds
<1>5. c.slower \cap c.faster = {}
  <2>1. c.slower = Slower(rows, prior) /\ c.faster = Faster(rows, prior)
    BY <1>2 DEF CompareRuns
  <2>2. \A k : ~(Rose(Walls(prior, k), Walls(rows, k)) /\ Fell(Walls(prior, k), Walls(rows, k)))
    BY <1>4, RoseIs
  <2>3. \A k : ~(Fell(Speeds(prior, k), Speeds(rows, k)) /\ Rose(Speeds(prior, k), Speeds(rows, k)))
    BY <1>4, RoseIs
  <2> QED BY <2>1, <2>2, <2>3 DEF Slower, Faster
<1>6. \A r \in c.regressions, i \in c.improvements : r.key # i.key
  <2>1. c.regressions = Dropped(rows, prior) /\ c.improvements = Risen(rows, prior)
    BY <1>1, <1>2, VerdictsAre
  <2>2. \A r \in Dropped(rows, prior) : Lt(Delta(rows, prior, r.key), Zero)
    BY DEF Dropped, ChangeOf
  <2>3. \A i \in Risen(rows, prior) : ~Lt(Delta(rows, prior, i.key), Zero)
    BY DEF Risen, ChangeOf
  <2> QED BY <2>1, <2>2, <2>3
<1>7. self.regressions = {} /\ self.improvements = {}
  <2>1. self.regressions = Dropped(rows, rows) /\ self.improvements = Risen(rows, rows)
    BY <1>1, <1>3, VerdictsAre
  <2>2. FarKeys(rows, rows, ScoreThreshold) = {}
    BY <1>1, ChangesSwap
  <2> QED BY <2>1, <2>2 DEF Dropped, Risen
<1>8. self.slower = {} /\ self.faster = {}
  <2>1. self.slower = Slower(rows, rows) /\ self.faster = Faster(rows, rows)
    BY <1>3 DEF CompareRuns
  <2>2. \A k : ~Rose(Walls(rows, k), Walls(rows, k)) /\ ~Fell(Walls(rows, k), Walls(rows, k))
    BY <1>4, RoseIs
  <2>3. \A k : ~Rose(Speeds(rows, k), Speeds(rows, k)) /\ ~Fell(Speeds(rows, k), Speeds(rows, k))
    BY <1>4, RoseIs
  <2> QED BY <2>1, <2>2, <2>3 DEF Slower, Faster
<1>9. self.lost = {} /\ self.gained = {}
  BY <1>3 DEF CompareRuns, OnlyIn
<1>10. DOMAIN self = {"regressions", "improvements", "slower", "faster", "lost", "gained"}
  BY <1>3 DEF CompareRuns
<1>11. \A x \in DOMAIN self : self[x] = {}
  BY <1>7, <1>8, <1>9, <1>10
<1> QED BY <1>2, <1>3, <1>5, <1>6, <1>11 DEF VerdictsAreConsistent

LEMMA SectionHolds == ASSUME FillInv PROVE SectionIsTheComparison
<1>1. rows \in Seq(FillRows) /\ prior \in Seq(FillRows) /\ GoodRows(FillRows)
  BY FillRowsAre DEF FillInv
<1>2. PICK section : section = Section(rows, prior)
  OBVIOUS
<1>3. PICK c : c = CompareRuns(prior, rows)
  OBVIOUS
<1>4. c.regressions = Dropped(rows, prior) /\ c.improvements = Risen(rows, prior)
  BY <1>1, <1>3, VerdictsAre
<1>5. IsSection(section, rows, prior, ScoreThreshold)
  <2>1. CASE prior = <<>>
    <3>1. section = <<>>
      BY <1>2, <2>1 DEF Section
    <3>2. ScoredKeys(prior) = {}
      BY <2>1 DEF ScoredKeys, ToSet
    <3>3. FarKeys(rows, prior, ScoreThreshold) = {}
      BY <3>2 DEF FarKeys
    <3> QED BY <3>1, <3>3 DEF IsSection, ToSet
  <2>2. CASE prior # <<>>
    <3>1. section = DetectRegressions(rows, prior, ScoreThreshold)
      BY <1>2, <2>2 DEF Section
    <3> QED BY <1>1, <3>1, DetectIs
  <2> QED BY <2>1, <2>2
<1>6. ToSet(section) = {ChangeOf(rows, prior, k) : k \in FarKeys(rows, prior, ScoreThreshold)}
  BY <1>5 DEF IsSection
<1>7. \A k : ChangeOf(rows, prior, k).delta = Delta(rows, prior, k)
  BY DEF ChangeOf
<1>8. Regressed(section) = Dropped(rows, prior) /\ Improved(section) = Risen(rows, prior)
  BY <1>6, <1>7 DEF Regressed, Improved, Dropped, Risen
<1>9. \A i, j \in DOMAIN section : i < j =>
        section[i].key # section[j].key /\ Le(section[i].delta, section[j].delta)
  BY <1>5 DEF IsSection
<1> QED BY <1>2, <1>3, <1>4, <1>8, <1>9 DEF SectionIsTheComparison

(* Whatever two databases hold, a comparison of them is one verdict: it is *)
(* mirrored when they are swapped, contradicts itself nowhere, finds       *)
(* nothing between a database and itself, and is the section a report      *)
(* prints.                                                                 *)
THEOREM ComparisonIsOneVerdict == Spec => []VerdictsAgree
<1>1. FillInv => VerdictsAgree
  BY MirrorHolds, ConsistencyHolds, SectionHolds DEF VerdictsAgree
<1> QED BY <1>1, FillInvHolds, PTL

-----------------------------------------------------------------------------
(* A variance is that of numbers that differ, or zero.                     *)
Differ(s) == \E i, j \in DOMAIN s : s[i] # s[j]

LEMMA VarianceIs ==
  ASSUME NEW s \in Seq(Nat), s # <<>>
  PROVE  Average(Variance(s)) /\ (Lt(Zero, Variance(s)) <=> Differ(s))
<1>1. PICK n : n = Len(s)
  OBVIOUS
<1>2. n \in Nat \ {0} /\ DOMAIN s = 1..n /\ IsFiniteSet(1..n) /\ \A i \in 1..n : s[i] \in Nat
  <2>1. n \in Nat \ {0} /\ DOMAIN s = 1..n /\ \A i \in 1..n : s[i] \in Nat
    BY <1>1
  <2> QED BY <2>1, FS_Interval
<1>3. PICK squares : squares = [i \in 1..n |-> s[i] * s[i]]
  OBVIOUS
<1>4. PICK a : a = SumFunctionOnSet(s, 1..n)
  OBVIOUS
<1>5. PICK q : q = SumFunctionOnSet(squares, 1..n)
  OBVIOUS
<1>6. a \in Int /\ q \in Int
  <2>1. \A i \in 1..n : s[i] \in Int /\ squares[i] \in Int
    BY <1>2, <1>3
  <2> QED BY <1>2, <1>4, <1>5, <2>1, SumInt
<1>7. PICK v \in Int : v = n * q - a * a
  BY <1>2, <1>6
<1>8. Variance(s) = [num |-> v, den |-> n * n]
  <2>1. DOMAIN squares = 1..n
    BY <1>3
  <2> QED BY <1>1, <1>2, <1>3, <1>4, <1>5, <1>7, <2>1 DEF Variance, Total, SumFunction
<1>9. PICK d : d = [i \in 1..n |-> (n * s[i] - a) * (n * s[i] - a)]
  OBVIOUS
<1>10. SumFunctionOnSet(d, 1..n) = n * v
  <2>1. PICK c1 \in Int, c2 \in Int, c3 \in Int : c1 = n * n /\ c2 = 0 - 2 * n * a /\ c3 = a * a
    BY <1>2, <1>6
  <2>2. PICK h : h = [i \in 1..n |-> c1 * squares[i] + c2 * s[i]]
    OBVIOUS
  <2>3. \A i \in 1..n : squares[i] \in Int /\ s[i] \in Int /\ h[i] = c1 * squares[i] + c2 * s[i]
    <3>1. \A i \in 1..n : squares[i] \in Int /\ s[i] \in Int
      BY <1>2, <1>3
    <3>2. \A i \in 1..n : h[i] = c1 * squares[i] + c2 * s[i]
      BY <2>2
    <3> QED BY <3>1, <3>2
  <2>4. SumFunctionOnSet(h, 1..n) = c1 * q + c2 * a
    <3>1. PICK I : I = 1..n
      OBVIOUS
    <3>2. IsFiniteSet(I) /\ c1 \in Int /\ c2 \in Int
      BY <1>2, <3>1
    <3>3. \A i \in I : squares[i] \in Int /\ s[i] \in Int /\ h[i] = c1 * squares[i] + c2 * s[i]
      BY <2>3, <3>1
    <3>4. SumFunctionOnSet(h, I) = c1 * SumFunctionOnSet(squares, I) + c2 * SumFunctionOnSet(s, I)
      BY <3>2, <3>3, SumLinear, SMTT(30)
    <3> QED BY <1>4, <1>5, <3>1, <3>4
  <2>5. PICK one : one = [i \in 1..n |-> 1]
    OBVIOUS
  <2>6. SumFunctionOnSet(one, 1..n) = n
    <3>1. \A k \in 1..n : one[k] = 1
      BY <2>5
    <3>2. SumFunctionOnSet(one, 1..n) = n * 1
      BY <1>2, <3>1, SumConstant
    <3> QED BY <1>2, <3>2
  <2>7. ASSUME NEW i \in 1..n PROVE h[i] \in Int /\ one[i] \in Int /\ d[i] = 1 * h[i] + c3 * one[i]
    <3>1. s[i] \in Int /\ n \in Int /\ a \in Int
      BY <1>2, <1>6
    <3>2. d[i] = (n * n) * (s[i] * s[i]) + (0 - 2 * n * a) * s[i] + a * a
      BY <1>9, <3>1, SquareOf, SMTT(30)
    <3>3. squares[i] = s[i] * s[i]
      BY <1>3
    <3>4. PICK x \in Int, y \in Int : x = c1 * squares[i] /\ y = c2 * s[i]
      BY <2>3
    <3>5. d[i] = x + y + c3
      BY <2>1, <3>2, <3>3, <3>4
    <3>6. h[i] = x + y /\ one[i] = 1
      BY <2>2, <2>5, <3>4
    <3> QED BY <3>5, <3>6
  <2>8. SumFunctionOnSet(d, 1..n) = 1 * SumFunctionOnSet(h, 1..n) + c3 * SumFunctionOnSet(one, 1..n)
    BY <1>2, <2>7, SumLinear, SMTT(30)
  <2>9. SumFunctionOnSet(d, 1..n) = c1 * q + c2 * a + c3 * n
    BY <1>6, <2>4, <2>6, <2>8
  <2>10. c1 * q + c2 * a + c3 * n = n * v
    <3>1. n \in Int
      BY <1>2
    <3> QED BY <1>6, <1>7, <2>1, <3>1
  <2> QED BY <2>9, <2>10
<1>11. \A i \in 1..n : d[i] \in Nat /\ (n * s[i] # a => d[i] > 0)
  <2> SUFFICES ASSUME NEW i \in 1..n PROVE d[i] \in Nat /\ (n * s[i] # a => d[i] > 0)
    OBVIOUS
  <2>1. PICK x \in Int : x = n * s[i] - a
    BY <1>2, <1>6
  <2>2. d[i] = x * x
    BY <1>9, <2>1
  <2>3. n * s[i] \in Int
    BY <1>2
  <2> QED BY <1>6, <2>1, <2>2, <2>3, SquareIsPositive, SMTT(30)
<1>12. SumFunctionOnSet(d, 1..n) >= 0
  <2>1. PICK z : z = [i \in 1..n |-> 0]
    OBVIOUS
  <2>2. SumFunctionOnSet(z, 1..n) = 0
    BY <1>2, <2>1, SumZero
  <2>3. \A i \in 1..n : z[i] \in Int /\ d[i] \in Int /\ z[i] <= d[i]
    BY <1>11, <2>1
  <2>4. SumFunctionOnSet(z, 1..n) <= SumFunctionOnSet(d, 1..n)
    BY <1>2, <2>3, SumMonotone
  <2>5. SumFunctionOnSet(d, 1..n) \in Int
    BY <1>2, <2>3, SumInt
  <2> QED BY <2>2, <2>4, <2>5
<1>13. v >= 0
  BY <1>2, <1>10, <1>12
<1>14. ASSUME Differ(s) PROVE v > 0
  <2>1. PICK i \in 1..n, j \in 1..n : s[i] # s[j]
    BY <1>2, <1>14 DEF Differ
  <2>2. n * s[i] # n * s[j]
    BY <1>2, <2>1
  <2>3. PICK k \in 1..n : n * s[k] # a
    BY <2>2
  <2>4. d[k] > 0 /\ \A m \in 1..n : d[m] \in Int
    BY <1>11, <2>3
  <2>5. PICK rest : rest = (1..n) \ {k}
    OBVIOUS
  <2>6. SumFunctionOnSet(d, 1..n) = d[k] + SumFunctionOnSet(d, rest)
    <3>1. PICK I : I = 1..n
      OBVIOUS
    <3>2. IsFiniteSet(I) /\ k \in I /\ \A m \in I : d[m] \in Int
      BY <1>2, <2>4, <3>1
    <3>3. SumFunctionOnSet(d, I) = d[k] + SumFunctionOnSet(d, I \ {k})
      BY <3>2, SumRemove, ZenonT(40)
    <3> QED BY <2>5, <3>1, <3>3
  <2>7. SumFunctionOnSet(d, rest) \in Int /\ SumFunctionOnSet(d, rest) >= 0
    <3>1. PICK z : z = [m \in 1..n |-> 0]
      OBVIOUS
    <3>2. IsFiniteSet(rest) /\ rest \subseteq 1..n
      BY <1>2, <2>5, FS_RemoveElement
    <3>3. SumFunctionOnSet(z, rest) = 0
      BY <3>1, <3>2, SumZero
    <3>4. \A m \in rest : z[m] \in Int /\ d[m] \in Int /\ z[m] <= d[m]
      BY <1>11, <3>1, <3>2
    <3>5. SumFunctionOnSet(z, rest) <= SumFunctionOnSet(d, rest)
      BY <3>2, <3>4, SumMonotone
    <3>6. SumFunctionOnSet(d, rest) \in Int
      BY <3>2, <3>4, SumInt
    <3> QED BY <3>3, <3>5, <3>6
  <2>8. n * v > 0
    BY <1>10, <2>4, <2>6, <2>7
  <2> QED BY <1>2, <1>13, <2>8
<1>15. ASSUME ~Differ(s) PROVE v = 0
  <2>1. 1 \in 1..n
    BY <1>2
  <2>2. PICK c \in Nat : c = s[1]
    BY <1>2, <2>1
  <2>3. \A k \in 1..n : s[k] = c
    BY <1>2, <1>15, <2>1, <2>2 DEF Differ
  <2>4. a = n * c
    BY <1>2, <1>4, <2>3, SumConstant
  <2>5. \A k \in 1..n : squares[k] = c * c
    BY <1>3, <2>3
  <2>6. q = n * (c * c)
    BY <1>2, <1>5, <2>5, SumConstant
  <2>7. n * (n * (c * c)) = (n * c) * (n * c)
    BY <1>2
  <2> QED BY <1>7, <2>4, <2>6, <2>7
<1>16. n * n \in Nat \ {0}
  BY <1>2
<1>17. Average(Variance(s))
  BY <1>8, <1>13, <1>16 DEF Average, Fraction, Le, Zero
<1>18. Lt(Zero, Variance(s)) <=> v > 0
  BY <1>8, <1>16 DEF Lt, Zero
<1> QED BY <1>14, <1>15, <1>17, <1>18

-----------------------------------------------------------------------------
(* What a task's scored runs spread over.                                  *)
LEMMA SpreadIs ==
  ASSUME NEW S, GoodRows(S), NEW rs \in Seq(S), NEW t, ScoredOf(rs, t) # <<>>
  PROVE  IsSpread(TaskSpread(rs, t), rs, t)
<1>1. PICK g : g = ScoredOf(rs, t)
  OBVIOUS
<1>2. g \in Seq(HasScore(S)) /\ Scored(g) = g /\ g # <<>>
  BY <1>1, ScoredOfIs
<1>3. PICK s : s = Scores(g)
  OBVIOUS
<1>4. DOMAIN s = DOMAIN g /\ DOMAIN g = 1..Len(g) /\ \A i \in DOMAIN g : s[i] = g[i].score /\ s[i] \in Nat
  <2>1. s = [i \in DOMAIN g |-> g[i].score]
    BY <1>2, <1>3 DEF Scores
  <2>2. \A i \in DOMAIN g : g[i] \in HasScore(S)
    BY <1>2
  <2> QED BY <1>2, <2>1, <2>2 DEF GoodRows, HasScore
<1>5. s \in Seq(Nat) /\ s # <<>>
  <2>1. s \in [1..Len(g) -> Nat] /\ Len(g) \in Nat /\ Len(g) # 0
    <3>1. s = [i \in DOMAIN g |-> g[i].score]
      BY <1>2, <1>3 DEF Scores
    <3> QED BY <1>2, <1>4, <3>1
  <2>2. s \in Seq(Nat) /\ Len(s) = Len(g)
    BY <2>1
  <2> QED BY <2>1, <2>2
<1>6. PICK hi \in ToSet(s), lo \in ToSet(s) :
        hi = Max(ToSet(s)) /\ lo = Min(ToSet(s)) /\ \A x \in ToSet(s) : lo <= x /\ x <= hi
  BY <1>5, Extremes
<1>7. (\E i \in DOMAIN g : g[i].score = hi) /\ (\E i \in DOMAIN g : g[i].score = lo)
  BY <1>4 DEF ToSet
<1>8. PICK a \in DOMAIN g : a = SelectInSeq(g, LAMBDA r : r.score = hi) /\ g[a].score = hi
  BY <1>2, <1>7, FirstWith
<1>9. PICK b \in DOMAIN g : b = SelectInSeq(g, LAMBDA r : r.score = lo) /\ g[b].score = lo
  BY <1>2, <1>7, FirstWith
<1>10. PICK sp : sp = TaskSpread(rs, t)
  OBVIOUS
<1>11. sp.task = t /\ sp.variance = Variance(s) /\ sp.best = g[a] /\ sp.worst = g[b]
  BY <1>1, <1>3, <1>6, <1>8, <1>9, <1>10 DEF TaskSpread, ScoredOf
<1>12. Splitting(rs, t) <=> Differ(s)
  <2>1. \A r : r \in ToSet(g) <=> \E i \in DOMAIN g : r = g[i]
    BY DEF ToSet
  <2> QED BY <1>1, <1>4, <2>1, SMTT(30) DEF Splitting, Differ
<1>13. hi # lo <=> Differ(s)
  <2>1. \A i \in DOMAIN s : s[i] \in ToSet(s) /\ s[i] \in Nat
    BY <1>4 DEF ToSet
  <2>2. \A x \in ToSet(s) : x \in Nat /\ \E i \in DOMAIN s : x = s[i]
    BY <1>4 DEF ToSet
  <2> QED BY <1>6, <2>1, <2>2 DEF Differ
<1>14. Average(Variance(s)) /\ (Lt(Zero, Variance(s)) <=> Differ(s))
  BY <1>5, VarianceIs
<1> QED BY <1>8, <1>9, <1>10, <1>11, <1>12, <1>13, <1>14 DEF IsSpread

-----------------------------------------------------------------------------
(* The list of tasks that discriminate.                                    *)
LEMMA DiscriminatingIs ==
  ASSUME NEW S, GoodRows(S), NEW rs \in Seq(S), NEW ds, ds = Discriminating(rs)
  PROVE  /\ AreDiscriminating(ds, rs) /\ \E T : ds \in Seq(T)
         /\ \A i \in DOMAIN ds : ds[i].variance = Spread(rs, ds[i].task)
<1>1. PICK T : T = {r.task : r \in S}
  OBVIOUS
<1>2. PICK all \in Seq(T) : /\ all = Keys(rs, Task) /\ Distinct(all)
                            /\ ToSet(all) = {r.task : r \in ToSet(rs)}
  <2>1. TaskOf(S) \in [S -> T]
    BY <1>1 DEF TaskOf
  <2>2. /\ KeysBy(rs, TaskOf(S)) \in Seq(T) /\ Distinct(KeysBy(rs, TaskOf(S)))
        /\ ToSet(KeysBy(rs, TaskOf(S))) = KeysMet(rs, TaskOf(S))
    BY <2>1, KeysByIs
  <2>3. Keys(rs, Task) = KeysBy(rs, TaskOf(S))
    BY TaskBy
  <2>4. \A r \in ToSet(rs) : TaskOf(S)[r] = r.task
    BY DEF ToSet, TaskOf
  <2>5. KeysMet(rs, TaskOf(S)) = {r.task : r \in ToSet(rs)}
    BY <2>4 DEF KeysMet
  <2> QED BY <2>2, <2>3, <2>5
<1>3. PICK C : C = {t \in T : Len(ScoredOf(rs, t)) >= 2}
  OBVIOUS
<1>4. PICK ts : ts = Having(all, C)
  OBVIOUS
<1>5. ts \in Seq(T \cap C) /\ ToSet(ts) = ToSet(all) \cap C /\ Distinct(ts)
  BY <1>2, <1>4, HavingIsList, HavingMembers, HavingDistinct
<1>6. \A i \in DOMAIN ts : ts[i] \in T /\ ts[i] \in C
  BY <1>5
<1>7. Kept(all, LAMBDA t : Len(Scored(Group(rs, Task, t))) >= 2) = ts
  <2>1. \A i \in DOMAIN all : all[i] \in T
    BY <1>2
  <2>2. {i \in DOMAIN all : Len(Scored(Group(rs, Task, all[i]))) >= 2} = {i \in DOMAIN all : all[i] \in C}
    BY <1>3, <2>1 DEF ScoredOf
  <2> QED BY <1>4, <2>2 DEF Kept, Having
<1>8. PICK f : f = [t \in T |-> TaskSpread(rs, t)]
  OBVIOUS
<1>9. PICK sp : sp = [i \in DOMAIN ts |-> f[ts[i]]]
  OBVIOUS
<1>10. PICK U : U = {f[t] : t \in ToSet(ts)}
  OBVIOUS
<1>11. ToSet(sp) = U /\ sp \in Seq(U) /\ Len(sp) = Len(ts)
  <2>1. ts \in Seq(T)
    BY <1>5
  <2>2. AreMapped(sp, ts, f)
    BY <1>9, <2>1, MappedMembers
  <2> QED BY <1>10, <2>2 DEF AreMapped
<1>12. ASSUME NEW i \in DOMAIN sp PROVE IsSpread(sp[i], rs, ts[i])
  <2>1. i \in DOMAIN ts
    BY <1>9
  <2>2. sp[i] = TaskSpread(rs, ts[i]) /\ Len(ScoredOf(rs, ts[i])) >= 2
    BY <1>3, <1>6, <1>8, <1>9, <2>1
  <2>3. ScoredOf(rs, ts[i]) # <<>>
    BY <2>2
  <2> QED BY <2>2, <2>3, SpreadIs
<1>13. PICK v : v = [i \in DOMAIN sp |-> sp[i].variance]
  OBVIOUS
<1>14. v \in [DOMAIN sp -> Fraction]
  BY <1>12, <1>13 DEF IsSpread, Average
<1>15. ds = RankOrder(sp, Standing(v))
  <2>1. sp = [i \in DOMAIN ts |-> TaskSpread(rs, ts[i])]
    BY <1>6, <1>8, <1>9
  <2>2. ds = Descending(sp, LAMBDA s : s.variance)
    BY <1>2, <1>7, <2>1 DEF Discriminating
  <2> QED BY <1>13, <2>2 DEF Descending, Standing
<1>16. ds \in Seq(U) /\ Len(ds) = Len(sp) /\ \E at : Arranges(at, ds, sp, Falling(v))
  BY <1>11, <1>14, <1>15, StandingArranges
<1>17. PICK at : Arranges(at, ds, sp, Falling(v))
  BY <1>16
<1>18. DOMAIN ds = DOMAIN sp /\ DOMAIN sp = DOMAIN ts
  BY <1>9, <1>11, <1>16
<1>19. ASSUME NEW i \in DOMAIN ds
       PROVE  at[i] \in DOMAIN sp /\ ds[i] = sp[at[i]] /\ ds[i].task = ts[at[i]] /\ IsSpread(ds[i], rs, ds[i].task)
  <2>1. at[i] \in DOMAIN sp /\ ds[i] = sp[at[i]]
    BY <1>17, <1>18 DEF Arranges
  <2>2. IsSpread(ds[i], rs, ts[at[i]])
    BY <1>12, <2>1
  <2>3. ds[i].task = ts[at[i]]
    BY <2>2 DEF IsSpread
  <2> QED BY <2>1, <2>2, <2>3
<1>20. {ds[i].task : i \in DOMAIN ds} = ScoredTwice(rs)
  <2>1. ToSet(ts) = ScoredTwice(rs)
    <3>1. \A r \in ToSet(rs) : r.task \in T
      BY <1>1 DEF ToSet
    <3> QED BY <1>2, <1>3, <1>5, <3>1 DEF ScoredTwice
  <2>2. \A i \in DOMAIN ds : ds[i].task \in ToSet(ts)
    BY <1>18, <1>19 DEF ToSet
  <2>3. ASSUME NEW t \in ToSet(ts) PROVE \E i \in DOMAIN ds : ds[i].task = t
    <3>1. PICK k \in DOMAIN ts : ts[k] = t
      BY DEF ToSet
    <3>2. PICK i \in DOMAIN sp : at[i] = k
      BY <1>17, <1>18 DEF Arranges
    <3> QED BY <1>18, <1>19, <3>1, <3>2
  <2> QED BY <2>1, <2>2, <2>3
<1>21. ASSUME NEW i \in DOMAIN ds, NEW j \in DOMAIN ds, i < j
       PROVE  ds[i].task # ds[j].task /\ Le(ds[j].variance, ds[i].variance)
  <2>1. PICK p \in DOMAIN sp, q \in DOMAIN sp :
          /\ p = at[i] /\ q = at[j] /\ ds[i] = sp[p] /\ ds[j] = sp[q]
          /\ ds[i].task = ts[p] /\ ds[j].task = ts[q]
    BY <1>19
  <2>2. p # q /\ <<p, q>> \in Falling(v)
    <3>1. i # j
      BY <1>16, <1>21
    <3> QED BY <1>17, <1>18, <1>21, <2>1, <3>1 DEF Arranges
  <2>3. ds[i].task # ds[j].task
    BY <1>5, <1>18, <2>1, <2>2 DEF Distinct
  <2>4. Lt(v[q], v[p]) \/ Same(v[q], v[p])
    BY <2>2 DEF Falling
  <2>5. v[p] \in Fraction /\ v[q] \in Fraction /\ v[p] = ds[i].variance /\ v[q] = ds[j].variance
    BY <1>13, <1>14, <2>1
  <2>6. Le(v[q], v[p])
    BY <2>4, <2>5, LeTotal
  <2> QED BY <2>3, <2>5, <2>6
<1>22. \A i \in DOMAIN ds : IsSpread(ds[i], rs, ds[i].task)
  BY <1>19
<1>23. ASSUME NEW i \in DOMAIN ds PROVE ds[i].variance = Spread(rs, ds[i].task)
  <2>1. PICK p \in DOMAIN sp : p = at[i] /\ ds[i] = sp[p] /\ ds[i].task = ts[p]
    BY <1>19
  <2>2. ts[p] \in T /\ sp[p] = f[ts[p]]
    BY <1>6, <1>9, <1>18, <2>1
  <2>3. sp[p] = TaskSpread(rs, ts[p])
    BY <1>8, <2>2
  <2>4. TaskSpread(rs, ts[p]).variance = Spread(rs, ts[p])
    BY DEF TaskSpread, Spread
  <2> QED BY <2>1, <2>3, <2>4
<1> QED BY <1>16, <1>20, <1>21, <1>22, <1>23 DEF AreDiscriminating

-----------------------------------------------------------------------------
(* Regrouped rows are the rows in another order.                           *)
LEMMA RegroupedCounts ==
  ASSUME NEW S, NEW rs \in Seq(S), NEW C
  PROVE  HowOften(Regrouped(rs), C) = HowOften(rs, C)
<1>1. PICK M : M = {r.model : r \in S}
  OBVIOUS
<1>2. PICK ms \in Seq(M) : ms = Keys(rs, Model) /\ Distinct(ms) /\ ToSet(ms) = {r.model : r \in ToSet(rs)}
  BY <1>1, ModelKeys
<1>3. PICK q : q = [i \in DOMAIN ms |-> Group(rs, Model, ms[i])]
  OBVIOUS
<1>4. DOMAIN ms = 1..Len(ms) /\ Len(ms) \in Nat
  OBVIOUS
<1>5. q \in Seq(Seq(S)) /\ Len(q) = Len(ms)
  <2>1. \A i \in 1..Len(ms) : Group(rs, Model, ms[i]) \in Seq(S)
    BY ModelGroups
  <2>2. q \in [1..Len(ms) -> Seq(S)]
    BY <1>3, <1>4, <2>1
  <2> QED BY <1>4, <2>2
<1>6. PICK f : f = ModelOf(S)
  OBVIOUS
<1>7. DOMAIN f = S /\ \A r \in S : f[r] = r.model
  BY <1>6 DEF ModelOf
<1>8. [i \in 1..Len(q) |-> HowOften(q[i], C)] = CountsBy(rs, f, ms, C)
  <2>1. \A i \in 1..Len(ms) : q[i] = GroupBy(rs, f, ms[i])
    BY <1>3, <1>4, <1>6, ModelBy
  <2> QED BY <1>5, <2>1 DEF CountsBy
<1>9. \A r \in ToSet(rs) : r \in C => f[r] \in ToSet(ms)
  <2>1. \A r \in ToSet(rs) : r \in S
    BY DEF ToSet
  <2> QED BY <1>2, <1>7, <2>1
<1>10. SumFunctionOnSet(CountsBy(rs, f, ms, C), 1..Len(ms)) = HowOften(rs, C)
  BY <1>2, <1>7, <1>9, GroupsCount
<1>11. HowOften(FlattenSeq(q), C) = SumFunctionOnSet([i \in 1..Len(q) |-> HowOften(q[i], C)], 1..Len(q))
  BY <1>5, FlattenCounts
<1>12. Regrouped(rs) = FlattenSeq(q)
  BY <1>2, <1>3 DEF Regrouped
<1> QED BY <1>5, <1>8, <1>10, <1>11, <1>12

LEMMA RegroupedTwice ==
  ASSUME NEW S, NEW rs \in Seq(S)
  PROVE  ScoredTwice(Regrouped(rs)) = ScoredTwice(rs)
<1>1. PICK all \in Seq(S) : all = Regrouped(rs) /\ ToSet(all) = ToSet(rs)
  BY RegroupedIs
<1>2. \A t : Len(ScoredOf(all, t)) = Len(ScoredOf(rs, t))
  BY <1>1, ScoredOfCounts, RegroupedCounts
<1> QED BY <1>1, <1>2 DEF ScoredTwice

LEMMA DiscriminatingHolds == ASSUME FillInv PROVE DiscriminatingFirst
<1>1. PICK S : S = FillRows
  OBVIOUS
<1>2. rows \in Seq(S) /\ GoodRows(S)
  BY <1>1, FillRowsAre DEF FillInv
<1>3. PICK all \in Seq(S) : all = Regrouped(rows)
  BY <1>2, RegroupedIs
<1>4. PICK ts : ts = Discriminating(all)
  OBVIOUS
<1>5. AreDiscriminating(ts, all)
  BY <1>2, <1>4, DiscriminatingIs
<1>6. \A i \in DOMAIN ts :
        /\ ts[i].best.score # ts[i].worst.score <=> Splitting(all, ts[i].task)
        /\ Lt(Zero, ts[i].variance) <=> Splitting(all, ts[i].task)
  BY <1>5 DEF AreDiscriminating, IsSpread
<1>7. \A i, j \in DOMAIN ts : i < j => ts[i].task # ts[j].task
  BY <1>5 DEF AreDiscriminating
<1>8. \A i, j \in DOMAIN ts : i < j /\ Splitting(all, ts[j].task) => Splitting(all, ts[i].task)
  BY <1>5, SplittingFirst
<1>9. {ts[i].task : i \in DOMAIN ts} = {r.task : r \in {q \in ToSet(rows) : Len(ScoredOf(rows, q.task)) >= 2}}
  <2>1. {ts[i].task : i \in DOMAIN ts} = ScoredTwice(rows)
    BY <1>2, <1>3, <1>5, RegroupedTwice DEF AreDiscriminating
  <2>2. ScoredTwice(rows) = {r.task : r \in {q \in ToSet(rows) : Len(ScoredOf(rows, q.task)) >= 2}}
    BY DEF ScoredTwice
  <2> QED BY <2>1, <2>2
<1> QED BY <1>3, <1>4, <1>6, <1>7, <1>8, <1>9, ZenonT(40) DEF DiscriminatingFirst, ScoredOf

-----------------------------------------------------------------------------
(* The regression suite: the candidates besides the failed tasks.          *)
LEMMA CutIs ==
  ASSUME NEW T, NEW s \in Seq(T), NEW n \in Nat
  PROVE  /\ Cut(s, n) \in Seq(T) /\ Len(Cut(s, n)) <= n /\ ToSet(Cut(s, n)) \subseteq ToSet(s)
         /\ \A i \in DOMAIN Cut(s, n) : i \in DOMAIN s /\ Cut(s, n)[i] = s[i]
         /\ \A i \in DOMAIN s \ DOMAIN Cut(s, n) : Len(Cut(s, n)) = n /\ n < i
<1>1. PICK m \in Nat : m = Len(s) /\ DOMAIN s = 1..m
  OBVIOUS
<1>2. PICK k \in Nat : k = IF n <= m THEN n ELSE m
  OBVIOUS
<1>3. Min({n, m}) = k
  <2>1. \E x \in {n, m} : \A y \in {n, m} : x <= y
    <3>1. k \in {n, m} /\ \A y \in {n, m} : k <= y
      BY <1>2
    <3> QED BY <3>1
  <2>2. Min({n, m}) \in {n, m} /\ \A y \in {n, m} : Min({n, m}) <= y
    BY <2>1 DEF Min
  <2> QED BY <1>2, <2>2
<1>4. PICK c : c = Cut(s, n)
  OBVIOUS
<1>5. c = SubSeq(s, 1, k)
  BY <1>1, <1>3, <1>4 DEF Cut
<1>6. c \in Seq(T) /\ Len(c) = k /\ \A i \in 1..k : c[i] = s[i]
  <2>1. \A i \in 1..k : s[i] \in T
    BY <1>1, <1>2
  <2> QED BY <1>1, <1>2, <1>5, <2>1
<1>7. ToSet(c) \subseteq ToSet(s)
  <2>1. DOMAIN c = 1..k /\ \A i \in 1..k : i \in DOMAIN s
    BY <1>1, <1>2, <1>6
  <2> QED BY <1>6, <2>1 DEF ToSet
<1>8. DOMAIN c = 1..k
  BY <1>6
<1>9. \A i \in DOMAIN c : i \in DOMAIN s /\ c[i] = s[i]
  BY <1>1, <1>2, <1>6, <1>8
<1>10. \A i \in DOMAIN s \ DOMAIN c : k = n /\ n < i
  BY <1>1, <1>2, <1>8
<1> QED BY <1>2, <1>4, <1>6, <1>7, <1>9, <1>10

-----------------------------------------------------------------------------
(* The tasks with the lowest average, and those with the highest variance. *)
LEMMA LowestAverageIs ==
  ASSUME NEW S, GoodRows(S), NEW rs \in Seq(S), MaxTasks \in Nat
  PROVE  /\ ToSet(LowestAverage(rs)) \subseteq TasksOf(rs) /\ Len(LowestAverage(rs)) <= MaxTasks
         /\ \E T : LowestAverage(rs) \in Seq(T)
<1>1. PICK C : C = HasScore(S)
  OBVIOUS
<1>2. PICK s \in Seq(C) : s = Scored(rs) /\ ToSet(s) = {r \in ToSet(rs) : r.score # None}
  BY <1>1, ScoredAre
<1>3. PICK T : T = {r.task : r \in C}
  OBVIOUS
<1>4. PICK ks \in Seq(T) : ks = Keys(s, Task) /\ ToSet(ks) = TasksOf(s)
  BY <1>3, TasksAre
<1>5. PICK v : v = [i \in DOMAIN ks |-> Minus(Zero, ScoreIn(rs, Task, ks[i]))]
  OBVIOUS
<1>6. v \in [DOMAIN ks -> Fraction]
  <2>1. ASSUME NEW t PROVE Minus(Zero, ScoreIn(rs, Task, t)) \in Fraction
    <3>1. PICK g \in Seq(S) : g = Group(rs, Task, t)
      <4>1. DOMAIN TaskOf(S) = S
        BY DEF TaskOf
      <4>2. GroupBy(rs, TaskOf(S), t) \in Seq(S)
        BY <4>1, GroupByIs
      <4> QED BY <4>2, TaskBy
    <3>2. AvgScore(g) \in Fraction /\ Zero \in Fraction
      BY AvgScoreIs, ZeroIs DEF Average
    <3> QED BY <3>1, <3>2, MinusFraction DEF ScoreIn
  <2> QED BY <1>5, <2>1
<1>7. PICK r : r = RankOrder(ks, Standing(v))
  OBVIOUS
<1>8. r \in Seq(T) /\ ToSet(r) = ToSet(ks)
  <2>1. r \in Seq(T) /\ Len(r) = Len(ks) /\ \E at : Arranges(at, r, ks, Falling(v))
    BY <1>6, <1>7, StandingArranges
  <2> QED BY <2>1, ArrangesMembers
<1>9. LowestAverage(rs) = Cut(r, MaxTasks)
  <2>1. Descending(ks, LAMBDA t : Minus(Zero, ScoreIn(rs, Task, t))) = r
    BY <1>5, <1>7 DEF Descending, Standing
  <2> QED BY <1>2, <1>4, <2>1 DEF LowestAverage
<1>10. TasksOf(s) \subseteq TasksOf(rs)
  BY <1>2 DEF TasksOf
<1>11. Cut(r, MaxTasks) \in Seq(T) /\ Len(Cut(r, MaxTasks)) <= MaxTasks /\ ToSet(Cut(r, MaxTasks)) \subseteq ToSet(r)
  BY <1>8, CutIs
<1> QED BY <1>4, <1>8, <1>9, <1>10, <1>11

(* A list of MaxTasks tasks that leaves out only what varies no more.      *)
KeepsSpread(h, rs) ==
  \A t \in Twice(rs) \ ToSet(h) :
    Len(h) = MaxTasks /\ Distinct(h) /\ ToSet(h) \subseteq AsSpread(rs, t)

LEMMA HighVarianceIs ==
  ASSUME NEW S, GoodRows(S), NEW rs \in Seq(S), MaxTasks \in Nat
  PROVE  /\ ToSet(HighVariance(rs)) \subseteq TasksOf(rs) /\ Len(HighVariance(rs)) <= MaxTasks
         /\ \E T : HighVariance(rs) \in Seq(T)
         /\ KeepsSpread(HighVariance(rs), rs)
<1>1. PICK ds : ds = Discriminating(rs)
  OBVIOUS
<1>2. /\ AreDiscriminating(ds, rs) /\ \E D : ds \in Seq(D)
      /\ \A i \in DOMAIN ds : ds[i].variance = Spread(rs, ds[i].task)
  BY <1>1, DiscriminatingIs
<1>3. PICK D : ds \in Seq(D)
  BY <1>2
<1>4. PICK n \in Nat : DOMAIN ds = 1..n /\ n = Len(ds)
  BY <1>3
<1>5. PICK T : T = {ds[i].task : i \in DOMAIN ds}
  OBVIOUS
<1>6. PICK ts : ts = [i \in DOMAIN ds |-> ds[i].task]
  OBVIOUS
<1>7. ts \in Seq(T) /\ DOMAIN ts = 1..n /\ ToSet(ts) = T
  <2>1. ts \in [1..n -> T]
    BY <1>4, <1>5, <1>6
  <2>2. ts \in Seq(T) /\ DOMAIN ts = 1..n
    BY <2>1
  <2>3. ToSet(ts) = T
    BY <1>4, <1>5, <1>6, <2>2 DEF ToSet
  <2> QED BY <2>2, <2>3
<1>8. PICK h : h = Cut(ts, MaxTasks)
  OBVIOUS
<1>9. /\ h \in Seq(T) /\ Len(h) <= MaxTasks /\ ToSet(h) \subseteq ToSet(ts)
      /\ \A i \in DOMAIN h : i \in DOMAIN ts /\ h[i] = ts[i]
      /\ \A i \in DOMAIN ts \ DOMAIN h : Len(h) = MaxTasks /\ MaxTasks < i
  BY <1>7, <1>8, CutIs
<1>10. HighVariance(rs) = h
  BY <1>1, <1>6, <1>8 DEF HighVariance
<1>11. T \subseteq TasksOf(rs)
  BY <1>2, <1>5 DEF AreDiscriminating, ScoredTwice, TasksOf
<1>12. Twice(rs) = ScoredTwice(rs)
  BY DEF Twice, ScoredTwice, ScoredOf
<1>13. \A i \in DOMAIN h : i \in 1..n /\ h[i] = ds[i].task
  BY <1>4, <1>6, <1>7, <1>9
<1>14. Distinct(h)
  <2>1. ASSUME NEW i \in DOMAIN h, NEW j \in DOMAIN h, h[i] = h[j] PROVE ~(i < j)
    BY <1>2, <1>4, <1>13, <2>1 DEF AreDiscriminating
  <2>2. \A i, j \in DOMAIN h : i \in Nat /\ j \in Nat /\ (i < j \/ j < i \/ i = j)
    BY <1>13
  <2> QED BY <2>1, <2>2 DEF Distinct
<1>15. ASSUME NEW t \in Twice(rs) \ ToSet(h)
       PROVE  Len(h) = MaxTasks /\ ToSet(h) \subseteq AsSpread(rs, t)
  <2>1. PICK j \in 1..n : ds[j].task = t
    BY <1>2, <1>4, <1>12, <1>15 DEF AreDiscriminating
  <2>2. j \notin DOMAIN h
    <3>1. h[j] # t \/ j \notin DOMAIN h
      BY <1>15 DEF ToSet
    <3> QED BY <1>13, <2>1, <3>1
  <2>3. Len(h) = MaxTasks /\ MaxTasks < j
    BY <1>7, <1>9, <2>1, <2>2
  <2>4. ASSUME NEW i \in DOMAIN h PROVE h[i] \in AsSpread(rs, t)
    <3>1. DOMAIN h = 1..Len(h)
      BY <1>9
    <3>2. i < j
      BY <2>1, <2>3, <3>1
    <3>3. i \in DOMAIN ds /\ j \in DOMAIN ds /\ h[i] = ds[i].task
      BY <1>4, <1>13, <2>1
    <3>4. Le(ds[j].variance, ds[i].variance)
      BY <1>2, <3>2, <3>3 DEF AreDiscriminating
    <3>5. ds[j].variance = Spread(rs, t) /\ ds[i].variance = Spread(rs, h[i])
      BY <1>2, <2>1, <3>3
    <3>6. h[i] \in Twice(rs)
      BY <1>2, <1>12, <3>3 DEF AreDiscriminating
    <3> QED BY <3>4, <3>5, <3>6 DEF AsSpread
  <2> QED BY <2>3, <2>4 DEF ToSet
<1>16. KeepsSpread(h, rs)
  BY <1>14, <1>15 DEF KeepsSpread
<1> QED BY <1>7, <1>9, <1>10, <1>11, <1>16

(* The names of a set, in alphabetical order.                              *)
Before(t, u) == \E k, l \in DOMAIN Alphabet : k < l /\ Alphabet[k] = t /\ Alphabet[l] = u
InAlphabet(s) == \A i, j \in DOMAIN s : i < j => Before(s[i], s[j])

LEMMA NamesAre ==
  ASSUME NEW C, C \subseteq ToSet(Alphabet)
  PROVE  /\ Having(Alphabet, C) \in Seq(C) /\ Distinct(Having(Alphabet, C))
         /\ ToSet(Having(Alphabet, C)) = C /\ InAlphabet(Having(Alphabet, C))
<1>1. PICK A : A = ToSet(Alphabet)
  OBVIOUS
<1>2. Alphabet \in Seq(A) /\ Distinct(Alphabet)
  BY <1>1, AlphabetAssumption DEF Distinct, IsInjective
<1>3. Having(Alphabet, C) \in Seq(A \cap C) /\ ToSet(Having(Alphabet, C)) = A \cap C
  BY <1>1, <1>2, HavingIsList, HavingMembers
<1>4. A \cap C = C
  BY <1>1
<1>5. PICK I : I = {i \in DOMAIN Alphabet : Alphabet[i] \in C}
  OBVIOUS
<1>6. PICK s : s = Having(Alphabet, C)
  OBVIOUS
<1>7. IsPart(s, Alphabet, I) /\ IsFiniteSet(I) /\ I \subseteq Int
  BY <1>2, <1>5, <1>6, HavingIsPart, PositionsHaving
<1>8. ASSUME NEW i \in DOMAIN s, NEW j \in DOMAIN s, i < j PROVE Before(s[i], s[j])
  <2>1. i \in 1..Cardinality(I) /\ j \in 1..Cardinality(I)
    BY <1>7 DEF IsPart
  <2>2. PICK k, l : k = Nth(I, i) /\ l = Nth(I, j)
    OBVIOUS
  <2>3. k < l
    BY <1>7, <1>8, <2>1, <2>2, NthGrows
  <2>4. k \in I /\ l \in I /\ s[i] = Alphabet[k] /\ s[j] = Alphabet[l]
    BY <1>7, <2>2 DEF IsPart
  <2> QED BY <1>5, <2>3, <2>4 DEF Before
<1>9. InAlphabet(s)
  BY <1>8 DEF InAlphabet
<1> QED BY <1>2, <1>3, <1>4, <1>6, <1>9, HavingDistinct

(* How often a task failed.                                                *)
FailuresOf(rs, t) == Len(Kept(rs, LAMBDA r : r.task = t /\ HasFailed(r)))

LEMMA FailuresAre ==
  ASSUME NEW S, NEW rs \in Seq(S), NEW t
  PROVE  FailuresOf(rs, t) > 0 <=> t \in FailedTasks(rs)
<1>1. PICK C : C = {r \in S : r.task = t /\ HasFailed(r)}
  OBVIOUS
<1>2. PICK k : k = Having(rs, C)
  OBVIOUS
<1>3. \A i \in DOMAIN rs : rs[i] \in S
  OBVIOUS
<1>4. {i \in DOMAIN rs : rs[i].task = t /\ HasFailed(rs[i])} = {i \in DOMAIN rs : rs[i] \in C}
  BY <1>1, <1>3
<1>5. FailuresOf(rs, t) = Len(k)
  BY <1>2, <1>4 DEF FailuresOf, Kept, Having
<1>6. k \in Seq(S \cap C) /\ ToSet(k) = ToSet(rs) \cap C
  BY <1>2, HavingIsList, HavingMembers
<1>7. Len(k) > 0 <=> \E r \in ToSet(rs) : r \in C
  <2>1. DOMAIN k = 1..Len(k) /\ Len(k) \in Nat
    BY <1>6
  <2>2. Len(k) > 0 <=> \E i \in DOMAIN k : TRUE
    <3>1. Len(k) > 0 => 1 \in DOMAIN k
      BY <2>1
    <3> QED BY <2>1, <3>1
  <2>3. ToSet(k) = {k[i] : i \in DOMAIN k}
    BY DEF ToSet
  <2> QED BY <1>6, <2>2, <2>3
<1>8. \A r \in ToSet(rs) : r \in S
  BY DEF ToSet
<1> QED BY <1>1, <1>5, <1>7, <1>8 DEF FailedTasks

(* The tasks taken besides the failed ones.                                *)
ChosenOf(rs) == IF HighVariance(rs) # <<>> THEN HighVariance(rs) ELSE LowestAverage(rs)

LEMMA ChosenAre ==
  ASSUME NEW S, GoodRows(S), NEW rs \in Seq(S)
  PROVE  /\ ToSet(ChosenOf(rs)) \subseteq TasksOf(rs) /\ Len(ChosenOf(rs)) <= MaxTasks
         /\ \E T : ChosenOf(rs) \in Seq(T)
         /\ KeepsSpread(ChosenOf(rs), rs)
<1>1. MaxTasks \in Nat
  BY ThresholdAssumption
<1>2. CASE HighVariance(rs) # <<>>
  BY <1>1, <1>2, HighVarianceIs DEF ChosenOf
<1>3. CASE HighVariance(rs) = <<>>
  <2>1. ChosenOf(rs) = LowestAverage(rs)
    BY <1>3 DEF ChosenOf
  <2>2. \A u : u \notin ToSet(HighVariance(rs))
    BY <1>3 DEF ToSet
  <2>3. Twice(rs) # {} => MaxTasks = 0
    <3>1. Len(HighVariance(rs)) = 0
      BY <1>3
    <3>2. KeepsSpread(HighVariance(rs), rs)
      BY <1>1, HighVarianceIs
    <3> QED BY <2>2, <3>1, <3>2 DEF KeepsSpread
  <2>4. PICK c : c = LowestAverage(rs)
    OBVIOUS
  <2>5. ToSet(c) \subseteq TasksOf(rs) /\ Len(c) <= MaxTasks /\ \E T : c \in Seq(T)
    BY <1>1, <2>4, LowestAverageIs
  <2>6. KeepsSpread(c, rs)
    <3> SUFFICES ASSUME MaxTasks = 0 PROVE KeepsSpread(c, rs)
      BY <2>3 DEF KeepsSpread
    <3>1. Len(c) = 0 /\ DOMAIN c = {}
      BY <2>5
    <3>2. Distinct(c) /\ ToSet(c) = {}
      BY <3>1 DEF Distinct, ToSet
    <3> QED BY <3>1, <3>2 DEF KeepsSpread
  <2> QED BY <2>1, <2>4, <2>5, <2>6
<1> QED BY <1>2, <1>3

AreEntries(suite, order, rs) ==
  /\ DOMAIN suite = DOMAIN order
  /\ \A i \in DOMAIN order : suite[i].id = order[i] /\ suite[i].failures = FailuresOf(rs, order[i])

LEMMA SuiteIs ==
  ASSUME NEW rs, rs # <<>>, NEW F, F = FailedTasks(rs), NEW X, X = Selected(rs),
         NEW suite, suite = RegressionSuite(rs)
  PROVE  AreEntries(suite, Having(Alphabet, X \cap F) \o Having(Alphabet, X \ F), rs)
<1>1. PICK order : order = Having(Alphabet, X \cap F) \o Having(Alphabet, X \ F)
  OBVIOUS
<1>2. suite = [i \in DOMAIN order |->
         [id |-> order[i], failures |-> Len(Kept(rs, LAMBDA r : r.task = order[i] /\ HasFailed(r)))]]
  BY <1>1 DEF RegressionSuite, Kept, Having
<1>3. DOMAIN suite = DOMAIN order
  BY <1>2
<1>4. \A i \in DOMAIN order : suite[i].id = order[i] /\ suite[i].failures = FailuresOf(rs, order[i])
  BY <1>2 DEF FailuresOf
<1>5. AreEntries(suite, order, rs)
  BY <1>3, <1>4 DEF AreEntries
<1> QED BY <1>1, <1>5

LEMMA SuiteHolds == ASSUME FillInv PROVE SuiteKeepsFailures /\ SuiteKeepsSpread
<1>1. PICK S : S = FillRows
  OBVIOUS
<1>2. rows \in Seq(S) /\ GoodRows(S)
  BY <1>1, FillRowsAre DEF FillInv
<1>3. TasksOf(rows) \subseteq ToSet(Alphabet)
  <2>1. ASSUME NEW r \in ToSet(rows) PROVE r.task \in ToSet(Alphabet)
    <3>1. r \in S
      BY <1>2 DEF ToSet
    <3>2. PICK f \in DOMAIN Fills : r \in Fills[f].prior \cup Fills[f].rows
      BY <1>1, <3>1 DEF FillRows
    <3> QED BY <3>2, FillsAssumption
  <2> QED BY <2>1 DEF TasksOf
<1>4. PICK suite : suite = RegressionSuite(rows)
  OBVIOUS
<1>5. PICK F : F = FailedTasks(rows)
  OBVIOUS
<1>6. PICK failed : failed = {i \in DOMAIN suite : suite[i].id \in F}
  OBVIOUS
<1> DEFINE Kept1 == F = {suite[i].id : i \in failed}
           Kept2 == \A i, j \in DOMAIN suite : i # j => suite[i].id # suite[j].id
           Kept3 == \A i \in failed, j \in DOMAIN suite \ failed : i < j
           Kept4 == \A i \in DOMAIN suite : suite[i].failures > 0 <=> i \in failed
           Kept5 == Len(suite) <= Cardinality(failed) + MaxTasks
           Kept6 == \A i, j \in DOMAIN suite : i < j /\ (i \in failed <=> j \in failed)
                      => Before(suite[i].id, suite[j].id)
<1>9. ASSUME Kept1, Kept2, Kept3, Kept4, Kept5, Kept6 PROVE SuiteKeepsFailures
  BY <1>4, <1>5, <1>6, <1>9 DEF SuiteKeepsFailures, Before
<1>7. CASE rows = <<>>
  <2>1. suite = <<>>
    BY <1>4, <1>7 DEF RegressionSuite
  <2>2. ToSet(rows) = {} /\ DOMAIN suite = {}
    BY <1>7, <2>1 DEF ToSet
  <2>3. F = {} /\ failed = {}
    BY <1>5, <1>6, <2>2 DEF FailedTasks
  <2>4. Kept5
    <3>1. Cardinality(failed) = 0 /\ Len(suite) = 0
      BY <2>1, <2>3, FS_EmptySet
    <3> QED BY <3>1, ThresholdAssumption
  <2>5. Kept1 /\ Kept2 /\ Kept3 /\ Kept4 /\ Kept6
    BY <2>2, <2>3
  <2>6. Twice(rows) = {}
    BY <2>2 DEF Twice
  <2>7. SuiteKeepsSpread
    BY <2>6 DEF SuiteKeepsSpread
  <2> QED BY <1>9, <2>4, <2>5, <2>7
<1>8. CASE rows # <<>>
  <2>1. PICK h : h = ChosenOf(rows)
    OBVIOUS
  <2>2. /\ ToSet(h) \subseteq TasksOf(rows) /\ Len(h) <= MaxTasks /\ \E T : h \in Seq(T)
        /\ KeepsSpread(h, rows)
    BY <1>2, <2>1, ChosenAre
  <2>3. PICK X : X = Selected(rows)
    OBVIOUS
  <2>4. X = ToSet(h) \cup F
    BY <1>5, <2>1, <2>3 DEF Selected, ChosenOf
  <2>5. F \subseteq TasksOf(rows)
    BY <1>5 DEF FailedTasks, TasksOf
  <2>6. X \subseteq ToSet(Alphabet) /\ X \cap F = F
    BY <1>3, <2>2, <2>4, <2>5
  <2>7. PICK a : a = Having(Alphabet, F)
    OBVIOUS
  <2>8. PICK b : b = Having(Alphabet, X \ F)
    OBVIOUS
  <2>9. a \in Seq(F) /\ Distinct(a) /\ ToSet(a) = F /\ InAlphabet(a)
    BY <1>3, <2>5, <2>7, NamesAre
  <2>10. b \in Seq(X \ F) /\ Distinct(b) /\ ToSet(b) = X \ F /\ InAlphabet(b)
    <3>1. X \ F \subseteq ToSet(Alphabet)
      BY <2>6
    <3> QED BY <2>8, <3>1, NamesAre
  <2>11. PICK m \in Nat, n \in Nat : m = Len(a) /\ DOMAIN a = 1..m /\ n = Len(b) /\ DOMAIN b = 1..n
    BY <2>9, <2>10
  <2>12. PICK order : order = a \o b
    OBVIOUS
  <2>13. /\ DOMAIN order = 1..m+n
         /\ \A i \in 1..m : order[i] = a[i]
         /\ \A i \in m+1..m+n : i - m \in 1..n /\ order[i] = b[i - m]
    <3>1. a \in Seq(X) /\ b \in Seq(X)
      BY <2>4, <2>9, <2>10
    <3>2. order \in Seq(X) /\ Len(order) = m + n
      BY <2>11, <2>12, <3>1
    <3> QED BY <2>11, <2>12, <3>1, <3>2
  <2>14. AreEntries(suite, order, rows)
    <3>1. AreEntries(suite, Having(Alphabet, X \cap F) \o Having(Alphabet, X \ F), rows)
      BY <1>4, <1>5, <1>8, <2>3, SuiteIs
    <3> QED BY <2>6, <2>7, <2>8, <2>12, <3>1
  <2>15. /\ DOMAIN suite = 1..m+n
         /\ \A i \in 1..m+n : suite[i].id = order[i] /\ suite[i].failures = FailuresOf(rows, order[i])
    BY <2>13, <2>14 DEF AreEntries
  <2>16. \A i \in 1..m : order[i] \in F
    BY <2>9, <2>11, <2>13
  <2>17. \A i \in m+1..m+n : order[i] \in X \ F
    BY <2>10, <2>11, <2>13
  <2>18. failed = 1..m
    <3>1. \A i \in 1..m+n : i \in 1..m \/ i \in m+1..m+n
      OBVIOUS
    <3>2. \A i \in 1..m : i \in 1..m+n
      OBVIOUS
    <3>3. \A i \in 1..m+n : order[i] \in F <=> i \in 1..m
      BY <2>16, <2>17, <3>1
    <3> QED BY <1>6, <2>15, <3>2, <3>3
  <2>19. Kept1
    <3>1. \A i \in 1..m : suite[i].id = a[i]
      BY <2>13, <2>15
    <3>2. F = {a[i] : i \in 1..m}
      BY <2>9, <2>11 DEF ToSet
    <3> QED BY <2>18, <3>1, <3>2
  <2>20. Kept2
    <3>1. ASSUME NEW i \in 1..m+n, NEW j \in 1..m+n, i # j PROVE order[i] # order[j]
      <4>1. CASE i \in 1..m /\ j \in 1..m
        BY <2>9, <2>11, <2>13, <3>1, <4>1 DEF Distinct
      <4>2. CASE i \in m+1..m+n /\ j \in m+1..m+n
        <5>1. i - m # j - m
          BY <3>1
        <5>2. i - m \in DOMAIN b /\ j - m \in DOMAIN b /\ order[i] = b[i - m] /\ order[j] = b[j - m]
          BY <2>11, <2>13, <4>2
        <5> QED BY <2>10, <5>1, <5>2 DEF Distinct
      <4>3. CASE i \in 1..m /\ j \in m+1..m+n
        BY <2>16, <2>17, <4>3
      <4>4. CASE j \in 1..m /\ i \in m+1..m+n
        BY <2>16, <2>17, <4>4
      <4>5. (i \in 1..m \/ i \in m+1..m+n) /\ (j \in 1..m \/ j \in m+1..m+n)
        OBVIOUS
      <4> QED BY <4>1, <4>2, <4>3, <4>4, <4>5
    <3> QED BY <2>15, <3>1
  <2>21. Kept3
    <3>1. \A i \in 1..m, j \in (1..m+n) \ (1..m) : i < j
      OBVIOUS
    <3> QED BY <2>15, <2>18, <3>1
  <2>22. Kept4
    <3>1. ASSUME NEW i \in 1..m+n PROVE suite[i].failures > 0 <=> order[i] \in F
      BY <1>2, <1>5, <2>15, FailuresAre
    <3> QED BY <1>6, <2>15, <3>1
  <2>23. Kept5
    <3>1. Cardinality(failed) = m
      <4>1. Cardinality(1..m) = IF 1 > m THEN 0 ELSE m - 1 + 1
        BY FS_Interval
      <4> QED BY <2>18, <4>1
    <3>2. Len(suite) = m + n
      <4>1. m + n \in Nat
        OBVIOUS
      <4> QED BY <2>15, <4>1
    <3>3. n <= MaxTasks
      <4>1. ToSet(b) \subseteq ToSet(h)
        BY <2>4, <2>10
      <4>2. PICK T : h \in Seq(T)
        BY <2>2
      <4>3. n <= Len(h) /\ Len(h) \in Nat
        BY <2>10, <2>11, <4>1, <4>2, DistinctFit
      <4> QED BY <2>2, <4>3, ThresholdAssumption
    <3> QED BY <3>1, <3>2, <3>3, ThresholdAssumption
  <2>24. Kept6
    <3> SUFFICES ASSUME NEW i \in 1..m+n, NEW j \in 1..m+n, i < j, i \in failed <=> j \in failed
                 PROVE  Before(order[i], order[j])
      BY <2>15
    <3>1. CASE i \in 1..m
      <4>1. j \in 1..m
        BY <2>18, <3>1
      <4>2. Before(a[i], a[j])
        BY <2>9, <2>11, <3>1, <4>1 DEF InAlphabet
      <4> QED BY <2>13, <3>1, <4>1, <4>2
    <3>2. CASE i \notin 1..m
      <4>1. i \in m+1..m+n /\ j \in m+1..m+n
        BY <2>18, <3>2
      <4>2. i - m \in DOMAIN b /\ j - m \in DOMAIN b /\ order[i] = b[i - m] /\ order[j] = b[j - m]
        BY <2>11, <2>13, <4>1
      <4>3. i - m < j - m
        OBVIOUS
      <4> QED BY <2>10, <4>2, <4>3 DEF InAlphabet
    <3> QED BY <3>1, <3>2
  <2>25. PICK names : names = {suite[i].id : i \in DOMAIN suite}
    OBVIOUS
  <2>26. names = X
    <3>1. \A i \in 1..m+n : suite[i].id \in X
      BY <2>4, <2>15, <2>16, <2>17
    <3>2. ASSUME NEW u \in X PROVE u \in names
      <4>1. CASE u \in F
        <5>1. PICK i \in failed : suite[i].id = u
          BY <2>19, <4>1
        <5> QED BY <1>6, <2>25, <5>1
      <4>2. CASE u \notin F
        <5>1. PICK k \in 1..n : b[k] = u
          BY <2>10, <2>11, <3>2, <4>2 DEF ToSet
        <5>2. PICK l : l = m + k
          OBVIOUS
        <5>3. l \in m+1..m+n /\ l \in 1..m+n /\ l - m = k
          BY <5>2
        <5>4. suite[l].id = u
          BY <2>13, <2>15, <5>1, <5>3
        <5> QED BY <2>15, <2>25, <5>3, <5>4
      <4> QED BY <4>1, <4>2
    <3> QED BY <2>15, <2>25, <3>1, <3>2
  <2>27. IsFiniteSet(X)
    <3>1. IsFiniteSet(ToSet(Alphabet))
      BY MembersAreFinite, AlphabetAssumption
    <3> QED BY <2>6, <3>1, FS_Subset
  <2>28. ASSUME NEW t \in Twice(rows) \ X
         PROVE  /\ Cardinality(X \cap AsSpread(rows, t)) >= MaxTasks
                /\ X \ F \subseteq AsSpread(rows, t)
    <3>1. Len(h) = MaxTasks /\ Distinct(h) /\ ToSet(h) \subseteq AsSpread(rows, t)
      BY <2>2, <2>4, <2>28 DEF KeepsSpread
    <3>2. X \ F \subseteq AsSpread(rows, t)
      BY <2>4, <3>1
    <3>3. PICK Q : Q = X \cap AsSpread(rows, t)
      OBVIOUS
    <3>4. IsFiniteSet(Q)
      BY <2>27, <3>3, FS_Subset
    <3>5. ToSet(h) \subseteq Q
      BY <2>4, <3>1, <3>3
    <3>6. DOMAIN h = 1..MaxTasks /\ h \in [1..MaxTasks -> Q]
      <4>1. PICK T : h \in Seq(T)
        BY <2>2
      <4>2. DOMAIN h = 1..MaxTasks /\ h = [i \in 1..MaxTasks |-> h[i]]
        BY <3>1, <4>1
      <4>3. \A i \in DOMAIN h : h[i] \in Q
        BY <3>5 DEF ToSet
      <4> QED BY <4>2, <4>3
    <3>7. h \in Injection(1..MaxTasks, Q)
      BY <3>1, <3>6 DEF Distinct, Injection, IsInjective
    <3>8. Cardinality(1..MaxTasks) <= Cardinality(Q)
      BY <3>4, <3>7, FS_Injection
    <3>9. Cardinality(1..MaxTasks) = MaxTasks
      <4>1. Cardinality(1..MaxTasks) = IF 1 > MaxTasks THEN 0 ELSE MaxTasks - 1 + 1
        BY FS_Interval, ThresholdAssumption
      <4> QED BY <4>1, ThresholdAssumption
    <3>10. Cardinality(Q) \in Nat
      BY <3>4, FS_CardinalityType
    <3> QED BY <3>2, <3>3, <3>8, <3>9, <3>10, ThresholdAssumption
  <2>29. SuiteKeepsSpread
    <3>1. \A t \in Twice(rows) \ names :
            /\ Cardinality(names \cap AsSpread(rows, t)) >= MaxTasks
            /\ names \ FailedTasks(rows) \subseteq AsSpread(rows, t)
      BY <1>5, <2>26, <2>28
    <3> QED BY <1>4, <2>25, <3>1 DEF SuiteKeepsSpread
  <2> QED BY <1>9, <2>19, <2>20, <2>21, <2>22, <2>23, <2>24, <2>29
<1> QED BY <1>7, <1>8

(* The suite made of a database for the next regression run keeps what the *)
(* database teaches, whatever rows were recorded and whatever the cap:     *)
(* every task that failed, first and with its failures, each part in the   *)
(* order of the identifiers; and a task scored twice is left out only for  *)
(* MaxTasks that vary as much, among them all of the suite that did not    *)
(* fail.                                                                   *)
THEOREM SuiteIsKept == Spec => []SuiteIsSelected
<1>1. FillInv => SuiteIsSelected
  BY SuiteHolds DEF SuiteIsSelected
<1> QED BY <1>1, FillInvHolds, PTL

-----------------------------------------------------------------------------
(* The best two of a list, in one pass.                                    *)
IsTopPass(g, rs, ms) ==
  g = [i \in 0..Len(ms) |->
        IF i = 0 THEN Unplayed ELSE Placed(g[i-1], ms[i], ScoreIn(rs, Model, ms[i]))]
ModelScores(rs, ms) == [i \in 1..Len(ms) |-> ScoreIn(rs, Model, ms[i])]

LEMMA BestTwoAre ==
  ASSUME NEW S, GoodRows(S), NEW rs \in Seq(S), NEW ms, ms = Keys(rs, Model), NEW n \in Nat, n = Len(ms),
         n # 0, NEW v, v = ModelScores(rs, ms), NEW b, b = BestTwo(rs)
  PROVE  v \in [1..n -> Fraction] /\ b \in Pairs(ms) /\ AreTopTwo(b, ms, v, n)
<1>1. ms \in Seq({r.model : r \in S}) /\ DOMAIN ms = 1..n
  BY ModelKeys
<1>2. \A i \in 1..n : v[i] \in Fraction /\ Le(Zero, v[i]) /\ v[i] = ScoreIn(rs, Model, ms[i])
  <2>1. ASSUME NEW i \in 1..n PROVE Average(ScoreIn(rs, Model, ms[i]))
    <3>1. Group(rs, Model, ms[i]) \in Seq(S)
      BY ModelGroups
    <3> QED BY <3>1, AvgScoreIs DEF ScoreIn
  <2> QED BY <2>1 DEF Average, ModelScores
<1>3. v \in [1..n -> Fraction]
  BY <1>2 DEF ModelScores
<1>4. \A i \in 1..n : ms[i] \in ToSet(ms)
  BY <1>1 DEF ToSet
<1>5. PICK X : X = Pairs(ms)
  OBVIOUS
<1>6. PICK a : a = Unplayed
  OBVIOUS
<1>7. a \in X
  <2>1. Whole(-1) \in Fraction
    BY DEF Fraction, Whole
  <2> QED BY <1>5, <1>6, <2>1 DEF Unplayed, Pairs
<1>8. PICK h : h = [i \in 1..n |-> [x \in X |-> Placed(x, ms[i], v[i])]]
  OBVIOUS
<1>9. h \in [1..n -> [X -> X]]
  <2>1. ASSUME NEW i \in 1..n, NEW x \in X PROVE Placed(x, ms[i], v[i]) \in X
    <3>1. [who |-> ms[i], best |-> v[i], second |-> x.best] \in X
      BY <1>2, <1>4, <1>5 DEF Pairs
    <3>2. [x EXCEPT !.second = v[i]] \in X
      BY <1>2, <1>5 DEF Pairs
    <3> QED BY <3>1, <3>2 DEF Placed
  <2> QED BY <1>8, <2>1
<1>10. PICK f \in [0..n -> X] : Passes(f, n, a, h)
  BY <1>7, <1>9, PassesExist
<1>11. IsTopPass(f, rs, ms)
  <2>1. f[0] = a /\ \A i \in 1..n : f[i] = h[i][f[i-1]]
    BY <1>10 DEF Passes
  <2>2. ASSUME NEW i \in 0..n, i # 0 PROVE f[i] = Placed(f[i-1], ms[i], ScoreIn(rs, Model, ms[i]))
    <3>1. i \in 1..n /\ i - 1 \in 0..n
      BY <2>2
    <3>2. f[i-1] \in X
      BY <3>1
    <3> QED BY <1>2, <1>8, <2>1, <3>1, <3>2
  <2>3. f = [i \in 0..n |-> f[i]]
    OBVIOUS
  <2>4. [i \in 0..n |-> f[i]] =
          [i \in 0..n |-> IF i = 0 THEN a ELSE Placed(f[i-1], ms[i], ScoreIn(rs, Model, ms[i]))]
    BY <2>1, <2>2
  <2> QED BY <1>6, <2>3, <2>4 DEF IsTopPass
<1>12. PICK g : IsTopPass(g, rs, ms) /\ b = g[n]
  <2>1. IsTopPass(CHOOSE g : IsTopPass(g, rs, ms), rs, ms)
    BY <1>11
  <2>2. b = (CHOOSE g : IsTopPass(g, rs, ms))[n]
    BY DEF BestTwo, IsTopPass, Placed, Unplayed
  <2> QED BY <2>1, <2>2
<1>13. DOMAIN g = 0..n /\ g[0] = a /\ \A i \in 1..n : g[i] = Placed(g[i-1], ms[i], v[i])
  <2>1. PICK step : step = [i \in 1..n |-> Placed(g[i-1], ms[i], v[i])]
    OBVIOUS
  <2>2. g = [i \in 0..n |-> IF i = 0 THEN a ELSE Placed(g[i-1], ms[i], ScoreIn(rs, Model, ms[i]))]
    BY <1>6, <1>12 DEF IsTopPass
  <2>3. g = [i \in 0..n |-> IF i = 0 THEN a ELSE step[i]]
    <3>1. \A i \in 0..n : i # 0 => i \in 1..n
      OBVIOUS
    <3> QED BY <1>2, <2>1, <2>2, <3>1, SMTT(30)
  <2>4. DOMAIN g = 0..n /\ g[0] = a /\ \A i \in 1..n : g[i] = step[i]
    BY <2>3
  <2> QED BY <2>1, <2>4
<1> DEFINE Good == {m \in Nat : m <= n => g[m] \in X /\ IF m = 0 THEN g[m] = Unplayed ELSE AreTopTwo(g[m], ms, v, m)}
<1>14. 0 \in Good
  BY <1>6, <1>7, <1>13
<1>15. ASSUME NEW m \in Nat, m \in Good PROVE m + 1 \in Good
  <2> SUFFICES ASSUME m + 1 <= n PROVE g[m + 1] \in X /\ AreTopTwo(g[m + 1], ms, v, m + 1)
    OBVIOUS
  <2>1. PICK i \in 1..n : i = m + 1 /\ i - 1 = m /\ (i = 1 <=> m = 0)
    OBVIOUS
  <2>2. PICK x : x = g[m]
    OBVIOUS
  <2>3. x \in X /\ IF i = 1 THEN x = Unplayed ELSE AreTopTwo(x, ms, v, i - 1)
    BY <1>15, <2>1, <2>2
  <2>4. PICK c : c = g[i]
    OBVIOUS
  <2>5. c = Placed(x, ms[i], v[i])
    BY <1>13, <2>1, <2>2, <2>4
  <2>6. c \in Pairs(ms) /\ AreTopTwo(c, ms, v, i)
    BY <1>2, <1>3, <1>4, <1>5, <2>3, <2>5, StepTopTwo
  <2> QED BY <1>5, <2>1, <2>4, <2>6
<1>16. n \in Good
  <2>1. Nat \subseteq Good
    <3> HIDE DEF Good
    <3> QED BY <1>14, <1>15, NumberInduction
  <2> QED BY <2>1
<1> QED BY <1>3, <1>5, <1>12, <1>16

-----------------------------------------------------------------------------
(* Regrouped rows weigh as much, and have the same averages.               *)
LEMMA RegroupedWeighs ==
  ASSUME NEW S, NEW rs \in Seq(S), NEW w \in [S -> Int], NEW C
  PROVE  Weighed(Regrouped(rs), w, C) = Weighed(rs, w, C)
<1>1. PICK M : M = {r.model : r \in S}
  OBVIOUS
<1>2. PICK ms \in Seq(M) : ms = Keys(rs, Model) /\ Distinct(ms) /\ ToSet(ms) = {r.model : r \in ToSet(rs)}
  BY <1>1, ModelKeys
<1>3. PICK q : q = [i \in DOMAIN ms |-> Group(rs, Model, ms[i])]
  OBVIOUS
<1>4. DOMAIN ms = 1..Len(ms) /\ Len(ms) \in Nat
  OBVIOUS
<1>5. q \in Seq(Seq(S)) /\ Len(q) = Len(ms)
  <2>1. \A i \in 1..Len(ms) : Group(rs, Model, ms[i]) \in Seq(S)
    BY ModelGroups
  <2>2. q \in [1..Len(ms) -> Seq(S)]
    BY <1>3, <1>4, <2>1
  <2> QED BY <1>4, <2>2
<1>6. PICK f : f = ModelOf(S)
  OBVIOUS
<1>7. DOMAIN f = S /\ \A r \in S : f[r] = r.model
  BY <1>6 DEF ModelOf
<1>8. [i \in 1..Len(q) |-> Weighed(q[i], w, C)] = WeighsBy(rs, f, ms, w, C)
  <2>1. \A i \in 1..Len(ms) : q[i] = GroupBy(rs, f, ms[i])
    BY <1>3, <1>4, <1>6, ModelBy
  <2> QED BY <1>5, <2>1 DEF WeighsBy
<1>9. \A r \in ToSet(rs) : r \in C => f[r] \in ToSet(ms)
  <2>1. \A r \in ToSet(rs) : r \in S
    BY DEF ToSet
  <2> QED BY <1>2, <1>7, <2>1
<1>10. SumFunctionOnSet(WeighsBy(rs, f, ms, w, C), 1..Len(ms)) = Weighed(rs, w, C)
  BY <1>2, <1>7, <1>9, GroupsWeigh, SMTT(30)
<1>11. Weighed(FlattenSeq(q), w, C) = SumFunctionOnSet([i \in 1..Len(q) |-> Weighed(q[i], w, C)], 1..Len(q))
  BY <1>5, FlattenWeighs
<1>12. Regrouped(rs) = FlattenSeq(q)
  BY <1>2, <1>3 DEF Regrouped
<1> QED BY <1>5, <1>8, <1>10, <1>11, <1>12

LEMMA RegroupedMeans ==
  ASSUME NEW S, GoodRows(S), NEW rs \in Seq(S), NEW C
  PROVE  AvgScore(Having(Regrouped(rs), C)) = AvgScore(Having(rs, C))
<1>1. PICK all \in Seq(S) : all = Regrouped(rs)
  BY RegroupedIs
<1>2. MeanOver(S, all, C) = MeanOver(S, rs, C)
  <2>1. PICK D : D = C \cap HasScore(S)
    OBVIOUS
  <2>2. PICK w \in [S -> Int] : w = ScoreOf(S)
    BY ScoreOfIs
  <2>3. HowOften(all, D) = HowOften(rs, D) /\ Weighed(all, w, D) = Weighed(rs, w, D)
    BY <1>1, RegroupedWeighs, RegroupedCounts
  <2> QED BY <2>1, <2>2, <2>3 DEF MeanOver
<1> QED BY <1>1, <1>2, AvgScoreIsMean

-----------------------------------------------------------------------------
(* Groups by family and by length of prompt.                               *)
FamilyIn(S) == [r \in S |-> FamilyOf[r.task]]
PromptIn(S) == [r \in S |-> r.prompt]

LEMMA FamilyBy ==
  ASSUME NEW S, NEW rs \in Seq(S)
  PROVE  /\ \A k : Group(rs, Family, k) = GroupBy(rs, FamilyIn(S), k)
         /\ Keys(rs, Family) = KeysBy(rs, FamilyIn(S))
<1>1. \A i \in DOMAIN rs : rs[i] \in S /\ FamilyIn(S)[rs[i]] = FamilyOf[rs[i].task]
  BY DEF FamilyIn
<1>2. ASSUME NEW k PROVE Group(rs, Family, k) = GroupBy(rs, FamilyIn(S), k)
  <2>1. {i \in DOMAIN rs : FamilyOf[rs[i].task] = k} = {i \in DOMAIN rs : rs[i] \in With(FamilyIn(S), k)}
    BY <1>1 DEF With, FamilyIn
  <2> QED BY <2>1 DEF Group, Kept, GroupBy, Having, Family
<1>3. PICK k : k = KeyList(rs, FamilyIn(S))
  OBVIOUS
<1>4. k = [i \in DOMAIN rs |-> FamilyOf[rs[i].task]]
  BY <1>1, <1>3 DEF KeyList
<1>5. {i \in DOMAIN rs : \A j \in 1..i-1 : k[j] # k[i]} = FirstOnes(k)
  BY <1>4 DEF FirstOnes
<1>6. Keys(rs, Family) = Part(k, FirstOnes(k))
  BY <1>4, <1>5 DEF Keys, Family
<1> QED BY <1>2, <1>3, <1>6 DEF KeysBy

LEMMA PromptBy ==
  ASSUME NEW S, NEW rs \in Seq(S)
  PROVE  /\ \A k : Group(rs, Prompt, k) = GroupBy(rs, PromptIn(S), k)
         /\ Keys(rs, Prompt) = KeysBy(rs, PromptIn(S))
<1>1. \A i \in DOMAIN rs : rs[i] \in S /\ PromptIn(S)[rs[i]] = rs[i].prompt
  BY DEF PromptIn
<1>2. ASSUME NEW k PROVE Group(rs, Prompt, k) = GroupBy(rs, PromptIn(S), k)
  <2>1. {i \in DOMAIN rs : rs[i].prompt = k} = {i \in DOMAIN rs : rs[i] \in With(PromptIn(S), k)}
    BY <1>1 DEF With, PromptIn
  <2> QED BY <2>1 DEF Group, Kept, GroupBy, Having, Prompt
<1>3. PICK k : k = KeyList(rs, PromptIn(S))
  OBVIOUS
<1>4. k = [i \in DOMAIN rs |-> rs[i].prompt]
  BY <1>1, <1>3 DEF KeyList
<1>5. {i \in DOMAIN rs : \A j \in 1..i-1 : k[j] # k[i]} = FirstOnes(k)
  BY <1>4 DEF FirstOnes
<1>6. Keys(rs, Prompt) = Part(k, FirstOnes(k))
  BY <1>4, <1>5 DEF Keys, Prompt
<1> QED BY <1>2, <1>3, <1>6 DEF KeysBy

-----------------------------------------------------------------------------
(* The groups of a family of the regrouped rows are those of the rows.     *)
LEMMA FamilyModels ==
  ASSUME NEW S, NEW rs \in Seq(S), NEW f, NEW one, one = Group(rs, Family, f),
         NEW two, two = Group(Regrouped(rs), Family, f)
  PROVE  /\ one \in Seq(S) /\ two \in Seq(S) /\ ToSet(two) = ToSet(one)
         /\ \A m : Group(two, Model, m) = Group(one, Model, m)
<1>1. PICK all \in Seq(S) : /\ all = Regrouped(rs) /\ ToSet(all) = ToSet(rs)
                            /\ \A m : Group(all, Model, m) = Group(rs, Model, m)
  BY RegroupedIs
<1>2. PICK F : F = FamilyIn(S)
  OBVIOUS
<1>3. PICK M : M = ModelOf(S)
  OBVIOUS
<1>4. DOMAIN F = S
  BY <1>2 DEF FamilyIn
<1>5. one = GroupBy(rs, F, f) /\ two = GroupBy(all, F, f)
  BY <1>1, <1>2, FamilyBy
<1>6. one \in Seq(S) /\ two \in Seq(S) /\ ToSet(two) = ToSet(one)
  <2>1. one \in Seq(S) /\ ToSet(one) = RowsWith(rs, F, f)
    BY <1>4, <1>5, GroupByIs
  <2>2. two \in Seq(S) /\ ToSet(two) = RowsWith(all, F, f)
    BY <1>4, <1>5, GroupByIs
  <2> QED BY <1>1, <2>1, <2>2 DEF RowsWith
<1>7. ASSUME NEW m PROVE Group(two, Model, m) = Group(one, Model, m)
  <2>1. Group(two, Model, m) = GroupBy(two, M, m) /\ Group(one, Model, m) = GroupBy(one, M, m)
    BY <1>3, <1>6, ModelBy
  <2>2. GroupBy(GroupBy(all, F, f), M, m) = GroupBy(GroupBy(all, M, m), F, f)
    BY GroupsCommute
  <2>3. GroupBy(GroupBy(rs, F, f), M, m) = GroupBy(GroupBy(rs, M, m), F, f)
    BY GroupsCommute
  <2>4. GroupBy(all, M, m) = GroupBy(rs, M, m)
    <3>1. Group(all, Model, m) = GroupBy(all, M, m) /\ Group(rs, Model, m) = GroupBy(rs, M, m)
      BY <1>3, ModelBy
    <3> QED BY <1>1, <3>1
  <2> QED BY <1>5, <2>1, <2>2, <2>3, <2>4
<1> QED BY <1>6, <1>7

LEMMA MarginHolds == ASSUME FillInv PROVE MarginIsToRunnerUp
<1>1. PICK S : S = FillRows
  OBVIOUS
<1>2. GoodRows(S) /\ rows \in Seq(S)
  BY <1>1, FillRowsAre DEF FillInv
<1>3. PICK rs \in Seq(S) : rs = rows
  BY <1>2
<1> SUFFICES ASSUME NEW b \in BestByFamily(rs)
             PROVE  LET of == Group(rs, Family, b.family)
                        rest == {ScoreIn(of, Model, m) : m \in ToSet(Keys(of, Model)) \ {b.who}}
                    IN /\ Same(b.best, ScoreIn(of, Model, b.who))
                       /\ \A s \in rest : Le(s, Minus(b.best, b.margin))
                       /\ \E s \in rest : Same(s, Minus(b.best, b.margin))
                       /\ Le(Zero, b.margin)
  BY <1>3 DEF MarginIsToRunnerUp
<1>4. PICK f : /\ Len(Keys(Group(Regrouped(rs), Family, f), Model)) >= 2
               /\ b = [family |-> f, who |-> BestTwo(Group(Regrouped(rs), Family, f)).who,
                       best |-> BestTwo(Group(Regrouped(rs), Family, f)).best,
                       margin |-> Minus(BestTwo(Group(Regrouped(rs), Family, f)).best,
                                        BestTwo(Group(Regrouped(rs), Family, f)).second)]
  BY DEF BestByFamily
<1>5. PICK one : one = Group(rs, Family, f)
  OBVIOUS
<1>6. PICK two : two = Group(Regrouped(rs), Family, f)
  OBVIOUS
<1>7. /\ one \in Seq(S) /\ two \in Seq(S) /\ ToSet(two) = ToSet(one)
      /\ \A m : Group(two, Model, m) = Group(one, Model, m)
  BY <1>5, <1>6, FamilyModels
<1>8. PICK ms : ms = Keys(two, Model)
  OBVIOUS
<1>9. Distinct(ms) /\ ToSet(ms) = {r.model : r \in ToSet(two)} /\ ms \in Seq({r.model : r \in S})
  BY <1>7, <1>8, ModelKeys
<1>10. PICK n \in Nat : n = Len(ms) /\ DOMAIN ms = 1..n /\ n >= 2
  BY <1>4, <1>6, <1>8, <1>9
<1>11. PICK v : v = ModelScores(two, ms)
  OBVIOUS
<1>12. PICK top : top = BestTwo(two)
  OBVIOUS
<1>13. v \in [1..n -> Fraction] /\ top \in Pairs(ms) /\ AreTopTwo(top, ms, v, n)
  <2>1. two \in Seq(S) /\ GoodRows(S) /\ n = Len(ms) /\ n # 0
    BY <1>2, <1>7, <1>10
  <2> QED BY <1>8, <1>11, <1>12, <2>1, BestTwoAre
<1>14. PICK j \in 1..n : IsAhead(top, ms, v, n, j)
  BY <1>13 DEF AreTopTwo
<1>15. b.family = f /\ b.who = top.who /\ b.best = top.best /\ b.margin = Minus(top.best, top.second)
  BY <1>4, <1>6, <1>12
<1>16. PICK c : c = Minus(b.best, b.margin)
  OBVIOUS
<1>17. /\ top.best \in Fraction /\ top.second \in Fraction /\ c \in Fraction /\ Same(top.second, c)
       /\ b.margin \in Fraction
  <2>1. top.best \in Fraction /\ top.second \in Fraction
    BY <1>13 DEF Pairs
  <2> QED BY <1>15, <1>16, <2>1, MinusMinus, MinusFraction
<1>18. ASSUME NEW i \in 1..n PROVE v[i] = ScoreIn(one, Model, ms[i])
  BY <1>7, <1>10, <1>11 DEF ModelScores, ScoreIn
<1>19. ToSet(Keys(one, Model)) = ToSet(ms)
  <2>1. ToSet(Keys(one, Model)) = {r.model : r \in ToSet(one)}
    BY <1>7, ModelKeys
  <2> QED BY <1>7, <1>9, <2>1
<1>20. Same(b.best, ScoreIn(one, Model, b.who))
  <2>1. b.who = ms[j] /\ b.best = v[j]
    BY <1>14, <1>15 DEF IsAhead
  <2>2. Same(v[j], v[j])
    BY <1>13, LeTotal
  <2> QED BY <1>18, <2>1, <2>2
<1>21. \A i \in 1..n : ms[i] # b.who <=> i # j
  BY <1>9, <1>10, <1>14, <1>15 DEF Distinct, IsAhead
<1>22. ASSUME NEW m \in ToSet(ms), m # b.who PROVE Le(ScoreIn(one, Model, m), c)
  <2>1. PICK i \in 1..n : m = ms[i]
    BY <1>10 DEF ToSet
  <2>2. i # j /\ Le(v[i], top.second) /\ v[i] \in Fraction
    BY <1>13, <1>14, <1>21, <1>22, <2>1 DEF IsAhead
  <2>3. Le(top.second, c)
    BY <1>17, LeTotal
  <2>4. Le(v[i], c)
    BY <1>17, <2>2, <2>3, LeTransitive
  <2> QED BY <1>18, <2>1, <2>4
<1>23. \E m \in ToSet(ms) : m # b.who /\ Same(ScoreIn(one, Model, m), c)
  <2>1. PICK i \in 1..n : i # j /\ top.second = v[i]
    BY <1>10, <1>14 DEF IsAhead
  <2>2. ms[i] \in ToSet(ms) /\ ms[i] # b.who
    BY <1>10, <1>21, <2>1 DEF ToSet
  <2> QED BY <1>17, <1>18, <2>1, <2>2
<1>24. Le(Zero, b.margin)
  <2>1. Le(top.second, top.best)
    BY <1>14 DEF IsAhead
  <2>2. PICK p \in Int, q \in Nat \ {0}, r \in Int, t \in Nat \ {0} :
          p = top.best.num /\ q = top.best.den /\ r = top.second.num /\ t = top.second.den
    BY <1>17 DEF Fraction
  <2>3. r * q <= p * t
    BY <2>1, <2>2 DEF Le
  <2>4. b.margin = [num |-> p * t - r * q, den |-> q * t]
    BY <1>15, <2>2 DEF Minus
  <2>5. 0 * (q * t) <= (p * t - r * q) * 1
    BY <2>3
  <2> QED BY <2>4, <2>5 DEF Le, Zero
<1>25. PICK rest : rest = {ScoreIn(one, Model, m) : m \in ToSet(ms) \ {b.who}}
  OBVIOUS
<1>26. \A s \in rest : Le(s, c)
  BY <1>22, <1>25
<1>27. \E s \in rest : Same(s, c)
  BY <1>23, <1>25
<1> QED BY <1>5, <1>15, <1>16, <1>19, <1>20, <1>24, <1>25, <1>26, <1>27

-----------------------------------------------------------------------------
(* The best of a family by any key: what BestOfFamily is by style and by   *)
(* quantization.                                                           *)
OfFamily(S, g, fam) == {r \in S : FamilyOf[r.task] = fam /\ g[r] # None}
NamesIn(of, g) ==
  Having(Having(Alphabet, KeysMet(of, g)), {k \in ToSet(Alphabet) : Scored(GroupBy(of, g, k)) # <<>>})
Means(of, g, ks) == [k \in ToSet(ks) |-> AvgScore(GroupBy(of, g, k))]
BestBy(S, rs, g, fam) ==
  Champion(NamesIn(Having(rs, OfFamily(S, g, fam)), g),
           Means(Having(rs, OfFamily(S, g, fam)), g, NamesIn(Having(rs, OfFamily(S, g, fam)), g)),
           Whole(-1))

LEMMA SortedIs == ASSUME NEW ks PROVE Sorted(ks) = Having(Alphabet, ToSet(ks))
<1>1. {i \in DOMAIN Alphabet : Contains(ks, Alphabet[i])} = {i \in DOMAIN Alphabet : Alphabet[i] \in ToSet(ks)}
  BY DEF Contains, ToSet
<1> QED BY <1>1 DEF Sorted, Kept, Having

BestStyleIn(of) ==
  LET ks == Kept(Sorted(Keys(of, Style)), LAMBDA k : Scored(Group(of, Style, k)) # <<>>)
  IN Champion(ks, [k \in ToSet(ks) |-> ScoreIn(of, Style, k)], Whole(-1))

LEMMA BestStyleIs ==
  ASSUME NEW S, NEW rs \in Seq(S), NEW fam
  PROVE  BestOfFamily(rs, Style, fam) = BestBy(S, rs, StyleIn(S), fam)
<1>1. PICK g : g = StyleIn(S)
  OBVIOUS
<1>2. PICK of : of = Having(rs, OfFamily(S, g, fam))
  OBVIOUS
<1>3. of = Kept(rs, LAMBDA r : Family(r) = fam /\ Style(r) # None)
  <2>1. \A i \in DOMAIN rs : rs[i] \in S
    OBVIOUS
  <2>2. {i \in DOMAIN rs : FamilyOf[rs[i].task] = fam /\ rs[i].style # None}
          = {i \in DOMAIN rs : rs[i] \in OfFamily(S, g, fam)}
    BY <1>1, <2>1 DEF OfFamily, StyleIn
  <2> QED BY <1>2, <2>2 DEF Kept, Having, Family, Style
<1>4. of \in Seq(S)
  <2>1. of \in Seq(S \cap OfFamily(S, g, fam))
    BY <1>2, HavingIsList
  <2>2. \A q : q \in Seq(S \cap OfFamily(S, g, fam)) => q \in Seq(S)
    OBVIOUS
  <2> QED BY <2>1, <2>2
<1>5. \A k : Group(of, Style, k) = GroupBy(of, g, k)
  BY <1>1, <1>4, StyleBy
<1>6. ToSet(Keys(of, Style)) = KeysMet(of, g)
  <2>1. Keys(of, Style) = KeysBy(of, g)
    BY <1>1, <1>4, StyleBy
  <2>2. PICK T : g \in [S -> T]
    <3>1. g \in [S -> {r.style : r \in S}]
      BY <1>1 DEF StyleIn
    <3> QED BY <3>1
  <2>3. ToSet(KeysBy(of, g)) = KeysMet(of, g)
    BY <1>4, <2>2, KeysByIs
  <2> QED BY <2>1, <2>3
<1>7. PICK nn : nn = Having(Alphabet, KeysMet(of, g))
  OBVIOUS
<1>8. Sorted(Keys(of, Style)) = nn
  BY <1>6, <1>7, SortedIs
<1>9. \A i \in DOMAIN nn : nn[i] \in ToSet(Alphabet)
  <2>1. PICK A : A = ToSet(Alphabet)
    OBVIOUS
  <2>2. Alphabet \in Seq(A)
    BY <2>1, AlphabetAssumption
  <2>3. nn \in Seq(A \cap KeysMet(of, g))
    BY <1>7, <2>2, HavingIsList
  <2> QED BY <2>1, <2>3
<1>10. PICK ks : ks = NamesIn(of, g)
  OBVIOUS
<1>11. ks = Kept(nn, LAMBDA k : Scored(Group(of, Style, k)) # <<>>)
  <2>1. {i \in DOMAIN nn : Scored(Group(of, Style, nn[i])) # <<>>}
          = {i \in DOMAIN nn : nn[i] \in {k \in ToSet(Alphabet) : Scored(GroupBy(of, g, k)) # <<>>}}
    BY <1>5, <1>9
  <2> QED BY <1>7, <1>10, <2>1 DEF NamesIn, Kept, Having
<1>12. [k \in ToSet(ks) |-> ScoreIn(of, Style, k)] = Means(of, g, ks)
  BY <1>5 DEF ScoreIn, Means
<1>13. BestOfFamily(rs, Style, fam) = Champion(ks, [k \in ToSet(ks) |-> ScoreIn(of, Style, k)], Whole(-1))
  <2>1. BestOfFamily(rs, Style, fam) = BestStyleIn(Kept(rs, LAMBDA r : Family(r) = fam /\ Style(r) # None))
    BY DEF BestOfFamily, BestStyleIn
  <2>2. BestOfFamily(rs, Style, fam) = BestStyleIn(of)
    BY <1>3, <2>1
  <2>3. BestStyleIn(of) = Champion(ks, [k \in ToSet(ks) |-> ScoreIn(of, Style, k)], Whole(-1))
    BY <1>8, <1>11 DEF BestStyleIn
  <2> QED BY <2>2, <2>3
<1> QED BY <1>1, <1>2, <1>10, <1>12, <1>13 DEF BestBy

BestQuantIn(of) ==
  LET ks == Kept(Sorted(Keys(of, Quant)), LAMBDA k : Scored(Group(of, Quant, k)) # <<>>)
  IN Champion(ks, [k \in ToSet(ks) |-> ScoreIn(of, Quant, k)], Whole(-1))

LEMMA BestQuantIs ==
  ASSUME NEW S, NEW rs \in Seq(S), NEW fam
  PROVE  BestOfFamily(rs, Quant, fam) = BestBy(S, rs, QuantIn(S), fam)
<1>1. PICK g : g = QuantIn(S)
  OBVIOUS
<1>2. PICK of : of = Having(rs, OfFamily(S, g, fam))
  OBVIOUS
<1>3. of = Kept(rs, LAMBDA r : Family(r) = fam /\ Quant(r) # None)
  <2>1. \A i \in DOMAIN rs : rs[i] \in S
    OBVIOUS
  <2>2. {i \in DOMAIN rs : FamilyOf[rs[i].task] = fam /\ rs[i].quant # None}
          = {i \in DOMAIN rs : rs[i] \in OfFamily(S, g, fam)}
    BY <1>1, <2>1 DEF OfFamily, QuantIn
  <2> QED BY <1>2, <2>2 DEF Kept, Having, Family, Quant
<1>4. of \in Seq(S)
  <2>1. of \in Seq(S \cap OfFamily(S, g, fam))
    BY <1>2, HavingIsList
  <2>2. \A q : q \in Seq(S \cap OfFamily(S, g, fam)) => q \in Seq(S)
    OBVIOUS
  <2> QED BY <2>1, <2>2
<1>5. \A k : Group(of, Quant, k) = GroupBy(of, g, k)
  BY <1>1, <1>4, QuantBy
<1>6. ToSet(Keys(of, Quant)) = KeysMet(of, g)
  <2>1. Keys(of, Quant) = KeysBy(of, g)
    BY <1>1, <1>4, QuantBy
  <2>2. PICK T : g \in [S -> T]
    <3>1. g \in [S -> {r.quant : r \in S}]
      BY <1>1 DEF QuantIn
    <3> QED BY <3>1
  <2>3. ToSet(KeysBy(of, g)) = KeysMet(of, g)
    BY <1>4, <2>2, KeysByIs
  <2> QED BY <2>1, <2>3
<1>7. PICK nn : nn = Having(Alphabet, KeysMet(of, g))
  OBVIOUS
<1>8. Sorted(Keys(of, Quant)) = nn
  BY <1>6, <1>7, SortedIs
<1>9. \A i \in DOMAIN nn : nn[i] \in ToSet(Alphabet)
  <2>1. PICK A : A = ToSet(Alphabet)
    OBVIOUS
  <2>2. Alphabet \in Seq(A)
    BY <2>1, AlphabetAssumption
  <2>3. nn \in Seq(A \cap KeysMet(of, g))
    BY <1>7, <2>2, HavingIsList
  <2> QED BY <2>1, <2>3
<1>10. PICK ks : ks = NamesIn(of, g)
  OBVIOUS
<1>11. ks = Kept(nn, LAMBDA k : Scored(Group(of, Quant, k)) # <<>>)
  <2>1. {i \in DOMAIN nn : Scored(Group(of, Quant, nn[i])) # <<>>}
          = {i \in DOMAIN nn : nn[i] \in {k \in ToSet(Alphabet) : Scored(GroupBy(of, g, k)) # <<>>}}
    BY <1>5, <1>9
  <2> QED BY <1>7, <1>10, <2>1 DEF NamesIn, Kept, Having
<1>12. [k \in ToSet(ks) |-> ScoreIn(of, Quant, k)] = Means(of, g, ks)
  BY <1>5 DEF ScoreIn, Means
<1>13. BestOfFamily(rs, Quant, fam) = Champion(ks, [k \in ToSet(ks) |-> ScoreIn(of, Quant, k)], Whole(-1))
  <2>1. BestOfFamily(rs, Quant, fam) = BestQuantIn(Kept(rs, LAMBDA r : Family(r) = fam /\ Quant(r) # None))
    BY DEF BestOfFamily, BestQuantIn
  <2>2. BestOfFamily(rs, Quant, fam) = BestQuantIn(of)
    BY <1>3, <2>1
  <2>3. BestQuantIn(of) = Champion(ks, [k \in ToSet(ks) |-> ScoreIn(of, Quant, k)], Whole(-1))
    BY <1>8, <1>11 DEF BestQuantIn
  <2> QED BY <2>2, <2>3
<1> QED BY <1>1, <1>2, <1>10, <1>12, <1>13 DEF BestBy

-----------------------------------------------------------------------------
LEMMA NamesInAre ==
  ASSUME NEW of, NEW g, NEW A, A = ToSet(Alphabet), NEW ns, ns = NamesIn(of, g)
  PROVE  ns \in Seq(A) /\ ToSet(ns) = {j \in A : j \in KeysMet(of, g) /\ Scored(GroupBy(of, g, j)) # <<>>}
<1>1. Alphabet \in Seq(A)
  BY AlphabetAssumption
<1>2. PICK B : B = {j \in A : Scored(GroupBy(of, g, j)) # <<>>}
  OBVIOUS
<1>3. PICK x : x = Having(Alphabet, KeysMet(of, g))
  OBVIOUS
<1>4. x \in Seq(A) /\ ToSet(x) = A \cap KeysMet(of, g)
  <2>1. x \in Seq(A \cap KeysMet(of, g)) /\ ToSet(x) = ToSet(Alphabet) \cap KeysMet(of, g)
    BY <1>1, <1>3, HavingIsList, HavingMembers
  <2>2. \A q : q \in Seq(A \cap KeysMet(of, g)) => q \in Seq(A)
    OBVIOUS
  <2> QED BY <2>1, <2>2
<1>5. ns = Having(x, B)
  BY <1>2, <1>3 DEF NamesIn
<1>6. ns \in Seq(A) /\ ToSet(ns) = ToSet(x) \cap B
  <2>1. ns \in Seq(A \cap B) /\ ToSet(ns) = ToSet(x) \cap B
    BY <1>4, <1>5, HavingIsList, HavingMembers
  <2>2. \A q : q \in Seq(A \cap B) => q \in Seq(A)
    OBVIOUS
  <2> QED BY <2>1, <2>2
<1> QED BY <1>2, <1>4, <1>6

(* Some family's best is at least the average over families.               *)
LEMMA SomeBestAbove ==
  ASSUME NEW S, GoodRows(S), NEW rs \in Seq(S), NEW g, DOMAIN g = S,
         NEW k, k \in ToSet(Alphabet), k # None, Scored(GroupBy(rs, g, k)) # <<>>
  PROVE  \E fam \in ToSet(Keys(rs, Family)) :
           LET b == BestBy(S, rs, g, fam)
           IN b.who # None /\ Le(AvgScore(GroupBy(rs, g, k)), b.value)
<1>1. PICK f : f = FamilyIn(S)
  OBVIOUS
<1>2. PICK T : f \in [S -> T]
  <2>1. f \in [S -> {FamilyOf[r.task] : r \in S}]
    BY <1>1 DEF FamilyIn
  <2> QED BY <2>1
<1>3. PICK ks \in Seq(T) : ks = Keys(rs, Family) /\ Distinct(ks) /\ ToSet(ks) = KeysMet(rs, f)
  <2>1. Keys(rs, Family) = KeysBy(rs, f)
    BY <1>1, FamilyBy
  <2> QED BY <1>2, <2>1, KeysByIs, ZenonT(40)
<1>4. PICK C : C = With(g, k)
  OBVIOUS
<1>5. HowOften(rs, C \cap HasScore(S)) # 0
  BY <1>4, NotScored DEF GroupBy
<1>6. \A r \in ToSet(rs) : r \in C => f[r] \in ToSet(ks)
  BY <1>3 DEF KeysMet
<1>7. DOMAIN f = S
  BY <1>1 DEF FamilyIn
<1>8. PICK fam \in ToSet(ks) : /\ HowOften(rs, (C \cap With(f, fam)) \cap HasScore(S)) # 0
                               /\ Le(MeanOver(S, rs, C), MeanOver(S, rs, C \cap With(f, fam)))
  BY <1>3, <1>5, <1>6, <1>7, SomeGroupAbove
<1>9. PICK of : of = Having(rs, OfFamily(S, g, fam))
  OBVIOUS
<1>10. of \in Seq(S) /\ ToSet(of) = ToSet(rs) \cap OfFamily(S, g, fam)
  <2>1. of \in Seq(S \cap OfFamily(S, g, fam)) /\ ToSet(of) = ToSet(rs) \cap OfFamily(S, g, fam)
    BY <1>9, HavingIsList, HavingMembers
  <2>2. \A q : q \in Seq(S \cap OfFamily(S, g, fam)) => q \in Seq(S)
    OBVIOUS
  <2> QED BY <2>1, <2>2
<1>11. PICK D : D = C \cap With(f, fam)
  OBVIOUS
<1>12. GroupBy(of, g, k) = Having(rs, D)
  <2>1. OfFamily(S, g, fam) \cap With(g, k) = D
    BY <1>1, <1>4, <1>11 DEF OfFamily, With, FamilyIn
  <2>2. Having(Having(rs, OfFamily(S, g, fam)), With(g, k)) = Having(rs, OfFamily(S, g, fam) \cap With(g, k))
    BY HavingTwice
  <2> QED BY <1>9, <2>1, <2>2 DEF GroupBy
<1>13. PICK ns : ns = NamesIn(of, g)
  OBVIOUS
<1>14. PICK A : A = ToSet(Alphabet)
  OBVIOUS
<1>15. ns \in Seq(A) /\ ToSet(ns) = {j \in A : j \in KeysMet(of, g) /\ Scored(GroupBy(of, g, j)) # <<>>}
  BY <1>13, <1>14, NamesInAre
<1>16. k \in ToSet(ns)
  <2>1. HowOften(rs, D \cap HasScore(S)) # 0
    BY <1>8, <1>11
  <2>2. Scored(GroupBy(of, g, k)) # <<>>
    BY <1>12, <2>1, NotScored
  <2>3. PICK r \in S : r \in D /\ r.score # None /\ r \in ToSet(rs)
    BY <2>1, SomeScored
  <2>4. g[r] = k /\ r \in ToSet(of)
    <3>1. r \in S /\ g[r] = k /\ FamilyOf[r.task] = fam
      BY <1>1, <1>4, <1>11, <2>3 DEF With, FamilyIn
    <3> QED BY <1>10, <2>3, <3>1 DEF OfFamily
  <2>5. k \in KeysMet(of, g)
    BY <2>4 DEF KeysMet
  <2> QED BY <1>14, <1>15, <2>2, <2>5
<1>17. PICK v : v = Means(of, g, ns)
  OBVIOUS
<1>18. \A j \in ToSet(ns) : v[j] = AvgScore(GroupBy(of, g, j)) /\ v[j] \in Fraction /\ Le(Zero, v[j])
  <2> SUFFICES ASSUME NEW j \in ToSet(ns) PROVE v[j] = AvgScore(GroupBy(of, g, j)) /\ v[j] \in Fraction /\ Le(Zero, v[j])
    OBVIOUS
  <2>1. GroupBy(of, g, j) \in Seq(S)
    BY <1>10, GroupByIs
  <2>2. Average(AvgScore(GroupBy(of, g, j)))
    BY <2>1, AvgScoreIs
  <2> QED BY <1>17, <2>2 DEF Means, Average
<1>19. PICK c : c = Champion(ns, v, Whole(-1))
  OBVIOUS
<1>20. Whole(-1) \in Fraction
  BY DEF Whole, Fraction
<1>21. c \in Titles(ns) /\ Leads(c, ns, v, Whole(-1), Len(ns))
  BY <1>15, <1>18, <1>19, <1>20, ChampionLeads
<1>22. PICK i \in 1..Len(ns) : ns[i] = k
  BY <1>15, <1>16 DEF ToSet
<1>23. Le(v[k], c.value) /\ v[k] = AvgScore(Having(rs, D)) /\ Le(Zero, v[k]) /\ v[k] \in Fraction
  BY <1>12, <1>16, <1>18, <1>21, <1>22 DEF Leads
<1>24. Le(AvgScore(Having(rs, C)), AvgScore(Having(rs, D)))
  BY <1>8, <1>11, AvgScoreIsMean
<1>25. c.value \in Fraction /\ Average(AvgScore(Having(rs, C)))
  <2>1. Having(rs, C) \in Seq(S)
    BY <1>4, GroupByIs DEF GroupBy
  <2> QED BY <1>21, <2>1, AvgScoreIs DEF Titles
<1>26. Le(AvgScore(Having(rs, C)), c.value)
  BY <1>23, <1>24, <1>25, LeTransitive DEF Average
<1>27. c.who # None
  <2>1. Lt(Whole(-1), v[k])
    BY <1>23, BelowZero
  <2>2. c # [who |-> None, value |-> Whole(-1)]
    BY <1>20, <1>23, <2>1, LeTotal
  <2>3. PICK j \in 1..Len(ns) : HasWonAt(c, ns, v, Whole(-1), j)
    BY <1>21, <2>2 DEF Leads
  <2>4. c.who = ns[j] /\ ns[j] \in ToSet(ns)
    BY <1>15, <2>3 DEF HasWonAt, ToSet
  <2>5. PICK r \in ToSet(of) : g[r] = ns[j]
    BY <1>15, <2>4 DEF KeysMet
  <2> QED BY <1>10, <2>4, <2>5 DEF OfFamily
<1>28. c = BestBy(S, rs, g, fam)
  BY <1>9, <1>13, <1>17, <1>19 DEF BestBy
<1>29. fam \in ToSet(Keys(rs, Family))
  BY <1>3
<1> QED BY <1>4, <1>26, <1>27, <1>28, <1>29 DEF GroupBy

-----------------------------------------------------------------------------
(* The rows that have a style or a quantization.                           *)
LEMMA StyledIs ==
  ASSUME NEW S, NEW rs \in Seq(S)
  PROVE  Styled(rs) = Having(rs, Named(S, StyleIn(S)))
<1>1. \A i \in DOMAIN rs : rs[i] \in S
  OBVIOUS
<1>2. {i \in DOMAIN rs : rs[i].style # None} = {i \in DOMAIN rs : rs[i] \in Named(S, StyleIn(S))}
  BY <1>1 DEF Named, StyleIn
<1> QED BY <1>2 DEF Styled, Kept, Having

LEMMA QuantizedIs ==
  ASSUME NEW S, NEW rs \in Seq(S)
  PROVE  Quantized(rs) = Having(rs, Named(S, QuantIn(S)))
<1>1. \A i \in DOMAIN rs : rs[i] \in S
  OBVIOUS
<1>2. {i \in DOMAIN rs : rs[i].quant # None} = {i \in DOMAIN rs : rs[i] \in Named(S, QuantIn(S))}
  BY <1>1 DEF Named, QuantIn
<1> QED BY <1>2 DEF Quantized, Kept, Having

LEMMA FamilyKeys ==
  ASSUME NEW S, NEW rs \in Seq(S)
  PROVE  /\ Keys(rs, Family) \in Seq({FamilyOf[r.task] : r \in S}) /\ Distinct(Keys(rs, Family))
         /\ ToSet(Keys(rs, Family)) = KeysMet(rs, FamilyIn(S))
<1>1. PICK T : T = {FamilyOf[r.task] : r \in S}
  OBVIOUS
<1>2. FamilyIn(S) \in [S -> T]
  BY <1>1 DEF FamilyIn
<1>3. Keys(rs, Family) = KeysBy(rs, FamilyIn(S))
  BY FamilyBy
<1>4. PICK g : g = FamilyIn(S)
  OBVIOUS
<1>5. KeysBy(rs, g) \in Seq(T) /\ Distinct(KeysBy(rs, g)) /\ ToSet(KeysBy(rs, g)) = KeysMet(rs, g)
  BY <1>2, <1>4, KeysByIs
<1> QED BY <1>1, <1>3, <1>4, <1>5

(* A row and its names.                                                    *)
NamedRows(S) ==
  \A r \in S : /\ r.prompt \in Nat /\ r.tokens \in Nat
               /\ r.style \in ToSet(Alphabet) \cup {None} /\ r.quant \in ToSet(Alphabet) \cup {None}

LEMMA FillRowsNamed == NamedRows(FillRows)
BY FillsAssumption DEF FillRows, NamedRows

-----------------------------------------------------------------------------
(* An average over families is not above the best of all of them.          *)
LEMMA FamilyBestsHold == ASSUME FillInv PROVE FamilyBestsBound
<1>1. PICK S : S = FillRows
  OBVIOUS
<1>2. GoodRows(S) /\ NamedRows(S) /\ rows \in Seq(S)
  BY <1>1, FillRowsAre, FillRowsNamed DEF FillInv
<1>3. PICK rs \in Seq(S) : rs = rows
  BY <1>2
<1> SUFFICES ASSUME \A r \in ToSet(rs) : Family(r) # None
             PROVE  /\ \A e \in StyleSummary(rs) :
                         Scored(Group(rs, Style, e.style)) # <<>> =>
                           \E b \in BestStyleByFamily(rs) : b.best.who # None /\ Le(e.score, b.best.value)
                    /\ \A e \in QuantSummary(rs) :
                         Scored(Group(rs, Quant, e.quant)) # <<>> =>
                           \E b \in BestQuantByFamily(rs) : b.best.who # None /\ Le(e.score, b.best.value)
  BY <1>3 DEF FamilyBestsBound
<1>4. \A r \in ToSet(rs) : r \in S
  BY DEF ToSet
<1>5. Families(rs) = ToSet(Keys(rs, Family))
  <2>1. ToSet(Keys(rs, Family)) = KeysMet(rs, FamilyIn(S))
    BY FamilyKeys
  <2>2. \A r \in ToSet(rs) : FamilyIn(S)[r] # None
    BY <1>4 DEF Family, FamilyIn
  <2> QED BY <2>1, <2>2 DEF Families, KeysMet
<1>6. ASSUME NEW e \in StyleSummary(rs), Scored(Group(rs, Style, e.style)) # <<>>
      PROVE  \E b \in BestStyleByFamily(rs) : b.best.who # None /\ Le(e.score, b.best.value)
  <2>1. PICK g : g = StyleIn(S)
    OBVIOUS
  <2>2. PICK k \in ToSet(Keys(Styled(rs), Style)) :
          e.style = k /\ e.score = ScoreIn(rs, Style, k)
    BY DEF StyleSummary
  <2>3. DOMAIN g = S
    BY <2>1 DEF StyleIn
  <2>4. PICK t \in Seq(S) : t = Styled(rs) /\ KeysMet(t, g) = KeysMet(rs, g) \ {None}
    BY <2>1, <2>3, StyledIs, NamedGroups
  <2>5. ToSet(Keys(t, Style)) = KeysMet(t, g)
    BY <2>1, <2>4, StyleKeys
  <2>6. k \in KeysMet(rs, g) /\ k # None
    BY <2>2, <2>4, <2>5
  <2>7. k \in ToSet(Alphabet)
    <3>1. PICK r \in ToSet(rs) : k = g[r]
      BY <2>6 DEF KeysMet
    <3> QED BY <1>2, <1>4, <2>1, <2>6, <3>1 DEF NamedRows, StyleIn
  <2>8. Group(rs, Style, k) = GroupBy(rs, g, k)
    BY <2>1, StyleBy
  <2>9. Scored(GroupBy(rs, g, k)) # <<>> /\ e.score = AvgScore(GroupBy(rs, g, k))
    BY <1>6, <2>2, <2>8 DEF ScoreIn
  <2>10. PICK fam \in ToSet(Keys(rs, Family)) :
           BestBy(S, rs, g, fam).who # None /\ Le(e.score, BestBy(S, rs, g, fam).value)
    BY <1>2, <2>3, <2>6, <2>7, <2>9, SomeBestAbove
  <2>11. BestOfFamily(rs, Style, fam) = BestBy(S, rs, g, fam)
    BY <2>1, BestStyleIs
  <2>12. PICK c : c = BestBy(S, rs, g, fam)
    OBVIOUS
  <2>13. [family |-> fam, best |-> c] \in BestStyleByFamily(rs)
    BY <1>5, <2>11, <2>12 DEF BestStyleByFamily
  <2> QED BY <2>10, <2>12, <2>13
<1>7. ASSUME NEW e \in QuantSummary(rs), Scored(Group(rs, Quant, e.quant)) # <<>>
      PROVE  \E b \in BestQuantByFamily(rs) : b.best.who # None /\ Le(e.score, b.best.value)
  <2>1. PICK g : g = QuantIn(S)
    OBVIOUS
  <2>2. PICK k \in ToSet(Keys(Quantized(rs), Quant)) :
          e.quant = k /\ e.score = AvgScore(Group(Quantized(rs), Quant, k))
    BY DEF QuantSummary
  <2>3. DOMAIN g = S
    BY <2>1 DEF QuantIn
  <2>4. PICK t \in Seq(S) : /\ t = Quantized(rs) /\ KeysMet(t, g) = KeysMet(rs, g) \ {None}
                            /\ \A j : j # None => GroupBy(t, g, j) = GroupBy(rs, g, j)
    BY <2>1, <2>3, QuantizedIs, NamedGroups
  <2>5. ToSet(Keys(t, Quant)) = KeysMet(t, g)
    BY <2>1, <2>4, QuantKeys
  <2>6. k \in KeysMet(rs, g) /\ k # None
    BY <2>2, <2>4, <2>5
  <2>7. k \in ToSet(Alphabet)
    <3>1. PICK r \in ToSet(rs) : k = g[r]
      BY <2>6 DEF KeysMet
    <3> QED BY <1>2, <1>4, <2>1, <2>6, <3>1 DEF NamedRows, QuantIn
  <2>8. Group(rs, Quant, k) = GroupBy(rs, g, k) /\ Group(t, Quant, k) = GroupBy(t, g, k)
    BY <2>1, QuantBy
  <2>9. Scored(GroupBy(rs, g, k)) # <<>> /\ e.score = AvgScore(GroupBy(rs, g, k))
    BY <1>7, <2>2, <2>4, <2>6, <2>8
  <2>10. PICK fam \in ToSet(Keys(rs, Family)) :
           BestBy(S, rs, g, fam).who # None /\ Le(e.score, BestBy(S, rs, g, fam).value)
    BY <1>2, <2>3, <2>6, <2>7, <2>9, SomeBestAbove
  <2>11. BestOfFamily(rs, Quant, fam) = BestBy(S, rs, g, fam)
    BY <2>1, BestQuantIs
  <2>12. PICK c : c = BestBy(S, rs, g, fam)
    OBVIOUS
  <2>13. [family |-> fam, best |-> c] \in BestQuantByFamily(rs)
    BY <1>5, <2>11, <2>12 DEF BestQuantByFamily
  <2> QED BY <2>10, <2>12, <2>13
<1> QED BY <1>6, <1>7

-----------------------------------------------------------------------------
(* What a recommendation is taken from: the score, the tokens and the      *)
(* number of the rows of a style.                                          *)
TokenList(rs) == Total([i \in DOMAIN rs |-> rs[i].prompt + rs[i].tokens])

LEMMA TokensAre ==
  ASSUME NEW S, NamedRows(S), NEW rs \in Seq(S) PROVE TokenList(rs) \in Nat
<1>1. PICK s : s = [i \in DOMAIN rs |-> rs[i].prompt + rs[i].tokens]
  OBVIOUS
<1>2. s \in Seq(Nat)
  <2>1. \A i \in DOMAIN rs : rs[i].prompt \in Nat /\ rs[i].tokens \in Nat
    BY DEF NamedRows
  <2>2. s \in [1..Len(rs) -> Nat]
    BY <1>1, <2>1
  <2> QED BY <2>2
<1> QED BY <1>1, <1>2, TotalIs DEF TokenList

IsEfficiency(e, rs) ==
  /\ e = [num |-> AvgScore(rs).num * Len(rs), den |-> AvgScore(rs).den * Max({TokenList(rs), Len(rs)})]
  /\ e \in Fraction

LEMMA EfficiencyIs ==
  ASSUME NEW S, GoodRows(S), NamedRows(S), NEW rs \in Seq(S), rs # <<>>
  PROVE  IsEfficiency(Efficiency(rs), rs)
<1>1. PICK s \in Fraction : s = AvgScore(rs)
  BY AvgScoreIs DEF Average
<1>2. PICK n \in Nat \ {0} : n = Len(rs)
  OBVIOUS
<1>3. PICK k \in Nat : k = TokenList(rs)
  BY TokensAre
<1>4. PICK m \in Nat \ {0} : m = Max({k, n})
  <2>1. Max({k, n}) \in {k, n} /\ n <= Max({k, n})
    BY MaxOfTwo
  <2> QED BY <2>1
<1>5. Efficiency(rs) = [num |-> s.num * n, den |-> s.den * m]
  BY <1>1, <1>2, <1>3, <1>4 DEF Efficiency, TokenList
<1>6. s.num * n \in Int /\ s.den * m \in Nat \ {0}
  BY DEF Fraction
<1>7. Efficiency(rs) \in Fraction
  BY <1>5, <1>6 DEF Fraction
<1> QED BY <1>1, <1>2, <1>3, <1>4, <1>5, <1>7 DEF IsEfficiency

StyleEntry(S, rs, k) ==
  [style |-> k, score |-> AvgScore(GroupBy(rs, StyleIn(S), k)), ratio |-> Efficiency(GroupBy(rs, StyleIn(S), k))]
IsRanked(ranked, S, rs) ==
  /\ \A i \in DOMAIN ranked : \E k :
       /\ ranked[i] = StyleEntry(S, rs, k) /\ Scored(GroupBy(rs, StyleIn(S), k)) # <<>>
       /\ Le(ranked[i].ratio, ranked[1].ratio)
  /\ \A i, j \in DOMAIN ranked : i # j => ranked[i].style # ranked[j].style

LEMMA RecommendedIs ==
  ASSUME NEW S, GoodRows(S), NamedRows(S), NEW rs \in Seq(S), NEW ranked, ranked = Recommended(rs)
  PROVE  IsRanked(ranked, S, rs) /\ \E T : ranked \in Seq(T)
<1>1. PICK g : g = StyleIn(S)
  OBVIOUS
<1>2. PICK T : T = {r.style : r \in S}
  OBVIOUS
<1>3. DOMAIN g = S
  BY <1>1 DEF StyleIn
<1>4. PICK t \in Seq(S) : t = Styled(rs)
  BY <1>1, <1>3, StyledIs, NamedGroups
<1>5. PICK all \in Seq(T) : all = Keys(t, Style) /\ Distinct(all)
  BY <1>2, StyleKeys
<1>6. PICK C : C = {k \in T : Scored(GroupBy(rs, g, k)) # <<>>}
  OBVIOUS
<1>7. PICK ss : ss = Having(all, C)
  OBVIOUS
<1>8. ss \in Seq(T \cap C) /\ Distinct(ss)
  BY <1>5, <1>7, HavingIsList, HavingDistinct
<1>9. \A i \in DOMAIN ss : ss[i] \in T /\ ss[i] \in C
  BY <1>8
<1>10. \A k : Group(rs, Style, k) = GroupBy(rs, g, k)
  BY <1>1, StyleBy
<1>11. Kept(all, LAMBDA s : Scored(Group(rs, Style, s)) # <<>>) = ss
  <2>1. \A i \in DOMAIN all : all[i] \in T
    BY <1>5
  <2>2. {i \in DOMAIN all : Scored(Group(rs, Style, all[i])) # <<>>} = {i \in DOMAIN all : all[i] \in C}
    BY <1>6, <1>10, <2>1
  <2> QED BY <1>7, <2>2 DEF Kept, Having
<1>12. PICK f : f = [k \in T |-> StyleEntry(S, rs, k)]
  OBVIOUS
<1>13. PICK es : es = [i \in DOMAIN ss |-> f[ss[i]]]
  OBVIOUS
<1>14. PICK U : U = {f[k] : k \in ToSet(ss)}
  OBVIOUS
<1>15. es \in Seq(U) /\ Len(es) = Len(ss)
  <2>1. ss \in Seq(T)
    BY <1>8
  <2>2. AreMapped(es, ss, f)
    BY <1>13, <2>1, MappedMembers
  <2> QED BY <1>14, <2>2 DEF AreMapped
<1>16. ASSUME NEW i \in DOMAIN es
       PROVE  /\ es[i] = StyleEntry(S, rs, ss[i]) /\ Scored(GroupBy(rs, g, ss[i])) # <<>>
              /\ es[i].ratio \in Fraction
  <2>1. i \in DOMAIN ss
    BY <1>13
  <2>2. es[i] = StyleEntry(S, rs, ss[i]) /\ Scored(GroupBy(rs, g, ss[i])) # <<>>
    BY <1>6, <1>9, <1>12, <1>13, <2>1
  <2>3. PICK x \in Seq(S) : x = GroupBy(rs, g, ss[i])
    BY <1>3, GroupByIs
  <2>4. x # <<>>
    BY <2>2, <2>3, ScoredIsSome
  <2>5. Efficiency(x) \in Fraction
    BY <2>4, EfficiencyIs DEF IsEfficiency
  <2> QED BY <1>1, <2>2, <2>3, <2>5 DEF StyleEntry
<1>17. PICK v : v = [i \in DOMAIN es |-> es[i].ratio]
  OBVIOUS
<1>18. v \in [DOMAIN es -> Fraction]
  BY <1>16, <1>17
<1>19. ranked = RankOrder(es, Standing(v))
  <2>1. es = [i \in DOMAIN ss |-> [style |-> ss[i], score |-> ScoreIn(rs, Style, ss[i]),
                                   ratio |-> Efficiency(Group(rs, Style, ss[i]))]]
    <3>1. \A i \in DOMAIN ss : f[ss[i]] = [style |-> ss[i], score |-> ScoreIn(rs, Style, ss[i]),
                                           ratio |-> Efficiency(Group(rs, Style, ss[i]))]
      BY <1>1, <1>9, <1>10, <1>12 DEF StyleEntry, ScoreIn
    <3> QED BY <1>13, <3>1
  <2>2. ranked = Descending(es, LAMBDA e : e.ratio)
    BY <1>4, <1>5, <1>11, <2>1 DEF Recommended
  <2> QED BY <1>17, <2>2 DEF Descending, Standing
<1>20. ranked \in Seq(U) /\ Len(ranked) = Len(es) /\ \E at : Arranges(at, ranked, es, Falling(v))
  BY <1>15, <1>18, <1>19, StandingArranges
<1>21. PICK at : Arranges(at, ranked, es, Falling(v))
  BY <1>20
<1>22. DOMAIN ranked = DOMAIN es /\ DOMAIN es = DOMAIN ss
  BY <1>13, <1>15, <1>20
<1>23. ASSUME NEW i \in DOMAIN ranked
       PROVE  /\ at[i] \in DOMAIN es /\ ranked[i] = es[at[i]]
              /\ ranked[i] = StyleEntry(S, rs, ss[at[i]]) /\ ranked[i].style = ss[at[i]]
              /\ Scored(GroupBy(rs, g, ss[at[i]])) # <<>>
              /\ ranked[i].ratio = v[at[i]]
  <2>1. at[i] \in DOMAIN es /\ ranked[i] = es[at[i]]
    BY <1>21, <1>22 DEF Arranges
  <2> QED BY <1>16, <1>17, <2>1 DEF StyleEntry
<1>24. ASSUME NEW i \in DOMAIN ranked PROVE Le(ranked[i].ratio, ranked[1].ratio)
  <2>1. 1 \in DOMAIN ranked /\ (i = 1 \/ 1 < i)
    BY <1>20
  <2>2. PICK p \in DOMAIN es, q \in DOMAIN es :
          p = at[1] /\ q = at[i] /\ ranked[1].ratio = v[p] /\ ranked[i].ratio = v[q]
    BY <1>23, <2>1
  <2>3. v[p] \in Fraction /\ v[q] \in Fraction
    BY <1>18
  <2>4. CASE i = 1
    BY <2>2, <2>3, <2>4, LeTotal
  <2>5. CASE 1 < i
    <3>1. <<p, q>> \in Falling(v)
      BY <1>21, <1>22, <2>1, <2>2, <2>5 DEF Arranges
    <3>2. Lt(v[q], v[p]) \/ Same(v[q], v[p])
      BY <3>1 DEF Falling
    <3>3. Le(v[q], v[p])
      BY <2>3, <3>2, LeTotal
    <3> QED BY <2>2, <3>3
  <2> QED BY <2>1, <2>4, <2>5
<1>25. ASSUME NEW i \in DOMAIN ranked, NEW j \in DOMAIN ranked, i # j
       PROVE  ranked[i].style # ranked[j].style
  <2>1. at[i] # at[j]
    BY <1>21, <1>22, <1>25 DEF Arranges
  <2>2. ss[at[i]] # ss[at[j]]
    BY <1>8, <1>22, <1>23, <2>1 DEF Distinct
  <2> QED BY <1>23, <2>2
<1>26. IsRanked(ranked, S, rs)
  <2>1. ASSUME NEW i \in DOMAIN ranked
        PROVE  \E k : /\ ranked[i] = StyleEntry(S, rs, k) /\ Scored(GroupBy(rs, StyleIn(S), k)) # <<>>
                      /\ Le(ranked[i].ratio, ranked[1].ratio)
    BY <1>1, <1>23, <1>24
  <2> QED BY <1>25, <2>1 DEF IsRanked
<1> QED BY <1>20, <1>26

LEMMA RecommendedHolds == ASSUME FillInv PROVE RecommendedIsUndominated
<1>1. PICK S : S = FillRows
  OBVIOUS
<1>2. GoodRows(S) /\ NamedRows(S) /\ rows \in Seq(S)
  BY <1>1, FillRowsAre, FillRowsNamed DEF FillInv
<1>3. PICK ranked : ranked = Recommended(rows)
  OBVIOUS
<1>4. IsRanked(ranked, S, rows)
  BY <1>2, <1>3, RecommendedIs
<1>5. PICK T : ranked \in Seq(T)
  BY <1>2, <1>3, RecommendedIs
<1>6. ASSUME NEW i \in DOMAIN ranked, Lt(ranked[1].score, ranked[i].score)
      PROVE  Lt(Tokens(ranked[1].style), Tokens(ranked[i].style))
  <2>1. 1 \in DOMAIN ranked
    BY <1>5
  <2>2. PICK a : ranked[1] = StyleEntry(S, rows, a) /\ Scored(GroupBy(rows, StyleIn(S), a)) # <<>>
    BY <1>4, <2>1 DEF IsRanked
  <2>3. PICK b : /\ ranked[i] = StyleEntry(S, rows, b) /\ Scored(GroupBy(rows, StyleIn(S), b)) # <<>>
                 /\ Le(ranked[i].ratio, ranked[1].ratio)
    BY <1>4 DEF IsRanked
  <2>4. DOMAIN StyleIn(S) = S
    BY DEF StyleIn
  <2>5. PICK x \in Seq(S) : x = GroupBy(rows, StyleIn(S), a) /\ x # <<>>
    BY <1>2, <2>2, <2>4, GroupByIs, ScoredIsSome
  <2>6. PICK y \in Seq(S) : y = GroupBy(rows, StyleIn(S), b) /\ y # <<>>
    BY <1>2, <2>3, <2>4, GroupByIs, ScoredIsSome
  <2>7. /\ ranked[1].style = a /\ ranked[1].score = AvgScore(x) /\ ranked[1].ratio = Efficiency(x)
        /\ ranked[i].style = b /\ ranked[i].score = AvgScore(y) /\ ranked[i].ratio = Efficiency(y)
    BY <2>2, <2>3, <2>5, <2>6 DEF StyleEntry
  <2>8. Group(rows, Style, a) = x /\ Group(rows, Style, b) = y
    BY <1>2, <2>5, <2>6, StyleBy
  <2>9. /\ Tokens(a) = [num |-> TokenList(x), den |-> Len(x)]
        /\ Tokens(b) = [num |-> TokenList(y), den |-> Len(y)]
    BY <2>8 DEF Tokens, TokenList
  <2>10. PICK p \in Nat, d \in Nat \ {0} : AvgScore(x).num = p /\ AvgScore(x).den = d
    <3>1. Average(AvgScore(x))
      BY <1>2, AvgScoreIs
    <3> QED BY <3>1 DEF Average, Fraction, Le, Zero
  <2>11. PICK q \in Nat, f \in Nat \ {0} : AvgScore(y).num = q /\ AvgScore(y).den = f
    <3>1. Average(AvgScore(y))
      BY <1>2, AvgScoreIs
    <3> QED BY <3>1 DEF Average, Fraction, Le, Zero
  <2>12. PICK k \in Nat, n \in Nat \ {0} : k = TokenList(x) /\ n = Len(x)
    BY <1>2, <2>5, TokensAre
  <2>13. PICK j \in Nat, h \in Nat \ {0} : j = TokenList(y) /\ h = Len(y)
    BY <1>2, <2>6, TokensAre
  <2>14. PICK m \in Nat : m = Max({k, n}) /\ k <= m /\ n <= m
    <3>1. Max({k, n}) \in {k, n} /\ k <= Max({k, n}) /\ n <= Max({k, n})
      BY MaxOfTwo
    <3> QED BY <3>1
  <2>15. PICK o \in Nat : o = Max({j, h}) /\ o \in {j, h} /\ h <= o
    <3>1. Max({j, h}) \in {j, h} /\ j <= Max({j, h}) /\ h <= Max({j, h})
      BY MaxOfTwo
    <3> QED BY <3>1
  <2>16. Efficiency(x) = [num |-> p * n, den |-> d * m]
    <3>1. IsEfficiency(Efficiency(x), x)
      BY <1>2, <2>5, EfficiencyIs
    <3> QED BY <2>10, <2>12, <2>14, <3>1 DEF IsEfficiency
  <2>17. Efficiency(y) = [num |-> q * h, den |-> f * o]
    <3>1. IsEfficiency(Efficiency(y), y)
      BY <1>2, <2>6, EfficiencyIs
    <3> QED BY <2>11, <2>13, <2>15, <3>1 DEF IsEfficiency
  <2>18. p * f < q * d
    BY <1>6, <2>7, <2>10, <2>11 DEF Lt
  <2>19. (q * h) * (d * m) <= (p * n) * (f * o)
    BY <2>3, <2>7, <2>16, <2>17 DEF Le
  <2>20. k * h < j * n
    <3>1. Better(p, d, q, f)
      BY <2>18 DEF Better
    <3>2. ~Better(p * n, d * m, q * h, f * o)
      <4>1. (q * h) * (d * m) \in Nat /\ (p * n) * (f * o) \in Nat
        OBVIOUS
      <4>2. ~((p * n) * (f * o) < (q * h) * (d * m))
        BY <2>19, <4>1
      <4> QED BY <4>2, Zenon DEF Better
    <3>3. Better(k, n, j, h)
      BY <2>14, <2>15, <3>1, <3>2, RatioFalls, ZenonT(60)
    <3> QED BY <3>3 DEF Better
  <2> QED BY <2>7, <2>9, <2>12, <2>13, <2>20 DEF Lt
<1>7. \A i, j \in DOMAIN ranked : i # j => ranked[i].style # ranked[j].style
  BY <1>4 DEF IsRanked
<1> QED BY <1>3, <1>6, <1>7 DEF RecommendedIsUndominated

-----------------------------------------------------------------------------
(* Whatever is stored, what a report singles out is best where it says so: *)
(* the margin of a family's best model is that to the best of the others,  *)
(* no average is above the best of all the families it is taken over, no   *)
(* style has a better score than the recommended one for its tokens, and no*)
(* task that separates runs comes after one that does not.                 *)
THEOREM ChoicesAreFounded == Spec => []ChoicesAreBest
<1>1. FillInv => ChoicesAreBest
  BY MarginHolds, FamilyBestsHold, RecommendedHolds, DiscriminatingHolds DEF ChoicesAreBest
<1> QED BY <1>1, FillInvHolds, PTL

-----------------------------------------------------------------------------
(* Its lines are those of the models, sorted by score.                     *)
IsModelTable(t, S, rs, ms, at) ==
  /\ t \in Seq(Lines(S)) /\ Len(t) = Len(ms)
  /\ Arranges(at, t, LinesOf(rs, ms), Falling(ScoresAt(LinesOf(rs, ms))))
  /\ \A i, j \in DOMAIN ms : i <= j => Le(t[j].score, t[i].score)
  /\ \A l \in DOMAIN ms : l < at[1] => Lt(AvgScore(Group(rs, Model, ms[l])), t[1].score)

LEMMA ModelTableIs ==
  ASSUME NEW S, GoodRows(S), NEW rs \in Seq(S), NEW ms, ms = Keys(rs, Model),
         NEW t, t = ModelComparison(rs)
  PROVE  \E at : IsModelTable(t, S, rs, ms, at)
<1>1. PICK es : es = LinesOf(rs, ms)
  OBVIOUS
<1>2. PICK v : v = ScoresAt(es)
  OBVIOUS
<1>3. PICK M : ms \in Seq(M)
  BY ModelKeys
<1>4. /\ es \in Seq(Lines(S)) /\ Len(es) = Len(ms) /\ DOMAIN es = DOMAIN ms
      /\ \A i \in DOMAIN ms : es[i] = Line(rs, ms[i])
      /\ v \in [DOMAIN es -> Fraction]
  <2>1. es \in Seq(Lines(S)) /\ Len(es) = Len(ms) /\ (\A i \in DOMAIN ms : es[i] = Line(rs, ms[i]))
        /\ v \in [DOMAIN ms -> Fraction]
    BY <1>1, <1>2, LinesAre
  <2>2. DOMAIN es = 1..Len(es) /\ DOMAIN ms = 1..Len(ms)
    BY <1>3, <2>1
  <2> QED BY <2>1, <2>2
<1>5. t = RankOrder(es, Standing(v))
  <2>1. es = [i \in DOMAIN ms |-> [model |-> ms[i], score |-> ScoreIn(rs, Model, ms[i]),
               tps |-> AvgSpeed(Group(rs, Model, ms[i])), tasks |-> Len(Group(rs, Model, ms[i]))]]
    BY <1>1 DEF LinesOf, Line, ScoreIn
  <2>2. t = Descending(es, LAMBDA e : e.score)
    BY <2>1 DEF ModelComparison
  <2> QED BY <1>2, <2>2 DEF Descending, Standing, ScoresAt
<1>6. t \in Seq(Lines(S)) /\ Len(t) = Len(es) /\ \E at : Arranges(at, t, es, Falling(v))
  BY <1>4, <1>5, StandingArranges
<1>7. PICK at : Arranges(at, t, es, Falling(v))
  BY <1>6
<1>8. /\ \A i, j \in DOMAIN es : i <= j => Le(v[at[j]], v[at[i]])
      /\ \A l \in DOMAIN es : l < at[1] => Lt(v[l], v[at[1]])
  BY <1>4, <1>7, ArrangesFall
<1>9. ASSUME NEW i \in DOMAIN es PROVE at[i] \in DOMAIN es /\ v[at[i]] = t[i].score
  BY <1>2, <1>7 DEF Arranges, ScoresAt
<1>10. \A l \in DOMAIN es : v[l] = AvgScore(Group(rs, Model, ms[l]))
  <2>1. ASSUME NEW l \in DOMAIN es PROVE v[l] = AvgScore(Group(rs, Model, ms[l]))
    <3>1. v[l] = es[l].score /\ es[l] = Line(rs, ms[l])
      BY <1>2, <1>4 DEF ScoresAt
    <3> QED BY <3>1 DEF Line
  <2> QED BY <2>1
<1>11. \A i, j \in DOMAIN ms : i <= j => Le(t[j].score, t[i].score)
  BY <1>4, <1>8, <1>9
<1>12. ASSUME NEW l \in DOMAIN ms, l < at[1]
       PROVE  Lt(AvgScore(Group(rs, Model, ms[l])), t[1].score)
  <2>1. Lt(v[l], v[at[1]])
    BY <1>4, <1>8, <1>12
  <2>2. 1 \in DOMAIN es
    BY <1>4, <1>12
  <2> QED BY <1>4, <1>9, <1>10, <1>12, <2>1, <2>2
<1> QED BY <1>1, <1>2, <1>4, <1>6, <1>7, <1>11, <1>12 DEF IsModelTable

-----------------------------------------------------------------------------
(* The summary's best model is the first line of the table: both are the   *)
(* first met of the greatest average.                                      *)
MeansOfModels(rs) == [m \in ToSet(Keys(rs, Model)) |-> MeanOfModel(rs, m)]

LEMMA BestIsFirst ==
  ASSUME NEW S, GoodRows(S), NEW rs \in Seq(S), rs # <<>>,
         NEW t, t = ModelComparison(rs), NEW b, b = Summary(rs).best
  PROVE  /\ b.who = t[1].model /\ b.value = t[1].score /\ b.value \in Fraction
         /\ \A m \in ToSet(Keys(rs, Model)) : Le(MeanOfModel(rs, m), b.value)
         /\ b.who \in ToSet(Keys(rs, Model)) /\ b.value = MeanOfModel(rs, b.who)
<1>1. PICK T : Keys(rs, Model) \in Seq(T)
  BY ModelKeys
<1>2. PICK ms \in Seq(T) : ms = Keys(rs, Model)
  BY <1>1
<1>3. PICK n \in Nat : n = Len(ms) /\ DOMAIN ms = 1..n
  OBVIOUS
<1>4. PICK f : f = MeansOfModels(rs)
  OBVIOUS
<1>5. \A m \in ToSet(ms) : f[m] = MeanOfModel(rs, m) /\ f[m] \in Fraction
  BY <1>2, <1>4, ModelMeans DEF MeansOfModels
<1>6. b = Champion(ms, f, Whole(-1))
  BY <1>2, <1>4 DEF Summary, MeansOfModels, MeanOfModel
<1>7. Le(Zero, Zero) /\ Zero \in Fraction
  BY ZeroIs DEF Average
<1>8. Whole(-1) \in Fraction
  BY <1>7, BelowZero
<1>9. Leads(b, ms, f, Whole(-1), n)
  BY <1>3, <1>5, <1>6, <1>8, ChampionLeads
<1>10. n # 0
  <2>1. ToSet(ms) = {r.model : r \in ToSet(rs)}
    BY <1>2, ModelKeys
  <2>2. rs[1] \in ToSet(rs)
    BY DEF ToSet
  <2>3. rs[1].model \in ToSet(ms)
    BY <2>1, <2>2
  <2> QED BY <1>3, <2>3 DEF ToSet
<1>11. \A i \in 1..n : ms[i] \in ToSet(ms)
  BY <1>3 DEF ToSet
<1>12. PICK j \in 1..n : HasWonAt(b, ms, f, Whole(-1), j)
  <2>1. b # [who |-> None, value |-> Whole(-1)]
    <3>1. SUFFICES ASSUME b = [who |-> None, value |-> Whole(-1)] PROVE FALSE
      OBVIOUS
    <3>2. 1 \in 1..n /\ ms[1] \in ToSet(ms)
      BY <1>10, <1>11
    <3>3. PICK s \in Fraction : s = f[ms[1]] /\ Le(Zero, s) /\ Le(s, Whole(-1))
      <4>1. Le(f[ms[1]], b.value)
        BY <1>9, <3>2 DEF Leads
      <4>2. f[ms[1]] \in Fraction /\ Average(f[ms[1]])
        BY <1>5, <3>2, ModelMeans
      <4> QED BY <3>1, <4>1, <4>2 DEF Average
    <3> QED BY <3>3, <1>8, BelowZero, LeTotal
  <2> QED BY <1>9, <2>1 DEF Leads
<1>13. PICK at : IsModelTable(t, S, rs, ms, at)
  BY <1>2, ModelTableIs
<1>14. PICK k \in 1..n : k = at[1] /\ t[1] = Line(rs, ms[k])
  <2>1. PICK es : es = LinesOf(rs, ms)
    OBVIOUS
  <2>2. DOMAIN es = 1..n /\ \A i \in 1..n : es[i] = Line(rs, ms[i])
    BY <1>3, <2>1 DEF LinesOf
  <2>3. PICK R : Arranges(at, t, es, R)
    BY <1>13, <2>1 DEF IsModelTable
  <2>4. 1 \in DOMAIN es
    BY <1>10, <2>2
  <2>5. at[1] \in DOMAIN es /\ t[1] = es[at[1]]
    BY <2>3, <2>4 DEF Arranges
  <2> QED BY <2>2, <2>5
<1>15. t[1].model = ms[k] /\ t[1].score = f[ms[k]]
  BY <1>5, <1>11, <1>14 DEF Line, MeanOfModel
<1>16. f[ms[j]] \in Fraction /\ f[ms[k]] \in Fraction /\ b.who = ms[j] /\ b.value = f[ms[j]]
  BY <1>5, <1>11, <1>12 DEF HasWonAt
<1>17. ~(j < k)
  <2>1. SUFFICES ASSUME j < k PROVE FALSE
    OBVIOUS
  <2>2. Lt(AvgScore(Group(rs, Model, ms[j])), t[1].score)
    BY <1>3, <1>13, <1>14, <2>1 DEF IsModelTable
  <2>3. Lt(f[ms[j]], f[ms[k]])
    BY <1>5, <1>11, <1>15, <2>2 DEF MeanOfModel
  <2>4. Le(f[ms[k]], f[ms[j]])
    BY <1>9, <1>16 DEF Leads
  <2> QED BY <1>16, <2>3, <2>4, LeTotal
<1>18. ~(k < j)
  <2>1. SUFFICES ASSUME k < j PROVE FALSE
    OBVIOUS
  <2>2. Lt(f[ms[k]], f[ms[j]])
    BY <1>12, <1>16, <2>1 DEF HasWonAt
  <2>3. ~Lt(f[ms[k]], f[ms[j]])
    <3>1. PICK es : es = LinesOf(rs, ms)
      OBVIOUS
    <3>2. DOMAIN es = 1..n /\ \A i \in 1..n : es[i] = Line(rs, ms[i])
      BY <1>3, <3>1 DEF LinesOf
    <3>3. PICK R : Arranges(at, t, es, R)
      BY <1>13, <3>1 DEF IsModelTable
    <3>4. PICK i \in 1..n : at[i] = j /\ t[i] = es[j]
      <4>1. j \in DOMAIN es
        BY <3>2
      <4>2. PICK i \in DOMAIN es : at[i] = j
        BY <3>3, <4>1 DEF Arranges
      <4>3. t[i] = es[at[i]]
        BY <3>3 DEF Arranges
      <4> QED BY <3>2, <4>2, <4>3
    <3>5. t[i].score = f[ms[j]]
      BY <1>5, <1>11, <3>2, <3>4 DEF Line, MeanOfModel
    <3>6. Le(t[i].score, t[1].score)
      BY <1>3, <1>13 DEF IsModelTable
    <3> QED BY <1>15, <1>16, <3>5, <3>6, LeTotal
  <2> QED BY <2>2, <2>3
<1>19. j = k
  BY <1>17, <1>18
<1>20. \A m \in ToSet(ms) : Le(MeanOfModel(rs, m), b.value)
  <2>1. \A m \in ToSet(ms) : \E i \in 1..n : m = ms[i]
    BY <1>3 DEF ToSet
  <2> QED BY <1>5, <1>9, <2>1 DEF Leads
<1> QED BY <1>2, <1>5, <1>11, <1>15, <1>16, <1>19, <1>20

LEMMA SummaryHolds == ASSUME FillInv PROVE SummaryAgrees
<1>1. GoodRows(FillRows) /\ rows \in Seq(FillRows)
  BY FillRowsAre DEF FillInv
<1>2. PICK S : S = FillRows
  OBVIOUS
<1>3. GoodRows(S) /\ rows \in Seq(S)
  BY <1>1, <1>2
<1>4. SUFFICES ASSUME rows # <<>> PROVE SummaryAgrees
  BY DEF SummaryAgrees
<1>5. PICK t, b : t = ModelComparison(rows) /\ b = Summary(rows).best
  OBVIOUS
<1>6. /\ b.who = t[1].model /\ b.value = t[1].score /\ b.value \in Fraction
      /\ \A m \in ToSet(Keys(rows, Model)) : Le(MeanOfModel(rows, m), b.value)
      /\ b.who \in ToSet(Keys(rows, Model)) /\ b.value = MeanOfModel(rows, b.who)
  BY <1>3, <1>4, <1>5, BestIsFirst
<1>7. PICK E : E = Entries(S)
  OBVIOUS
<1>8. PICK front \in Seq(E) : front = Frontier(rows) /\ ScoresFall(front)
  BY <1>3, <1>7, FrontierIs
<1>9. PICK n \in Nat : n = Len(front) /\ DOMAIN front = 1..n
  OBVIOUS
<1>10. PICK C : C = Contenders(rows)
  OBVIOUS
<1>11. ToSet(front) \subseteq C /\ ToSet(Candidates(rows, Model)) = C
  BY <1>3, <1>8, <1>10, FrontierIs, CandidatesAre
<1>12. \A a \in C : a \in E
  <2>1. Candidates(rows, Model) \in Seq(E)
    BY <1>3, <1>7, CandidatesAre
  <2> QED BY <1>11, <2>1 DEF ToSet
<1>13. \A a \in E : a.score \in Fraction /\ a.tps \in Fraction
  BY <1>7 DEF Entries
<1>14. /\ \A a \in C : \E c \in ToSet(front) : Le(a.score, c.score) /\ Le(a.tps, c.tps)
       /\ \A a, c \in ToSet(front) : Le(a.score, c.score) /\ Le(a.tps, c.tps)
                                     => Le(c.score, a.score) /\ Le(c.tps, a.tps)
  BY <1>8, <1>11, FrontierHolds DEF FrontierCovers
<1>15. \A c \in ToSet(front) : \E i \in 1..n : c = front[i]
  BY <1>9 DEF ToSet
<1>16. \A i \in 1..n : front[i] \in ToSet(front) /\ front[i] \in E
  BY <1>9 DEF ToSet
<1>17. ASSUME NEW a \in C
       PROVE  /\ a.who \in ToSet(Keys(rows, Model)) /\ a.score = MeanOfModel(rows, a.who)
  <2>1. PICK m \in {r.model : r \in ToSet(rows)} : a = Contender(rows, m)
    BY <1>10 DEF Contenders
  <2>2. a.who = m /\ a.score = MeanOfModel(rows, m)
    BY <2>1 DEF Contender, MeanOfModel
  <2>3. ToSet(Keys(rows, Model)) = {r.model : r \in ToSet(rows)}
    BY <1>3, ModelKeys
  <2> QED BY <2>1, <2>2, <2>3
<1>18. ASSUME front # <<>> PROVE Same(front[1].score, b.value)
  <2>1. 1 \in 1..n
    BY <1>9, <1>18
  <2>2. PICK a : a = front[1] /\ a \in C /\ a.score \in Fraction
    BY <1>11, <1>13, <1>16, <2>1
  <2>3. Le(a.score, b.value)
    BY <1>6, <1>17, <2>2
  <2>4. Le(b.value, a.score)
    <3>1. CASE Scored(Group(rows, Model, b.who)) = <<>>
      <4>1. Group(rows, Model, b.who) \in Seq(S)
        BY <1>3, ModelGroups
      <4>2. b.value = Zero
        BY <1>6, <3>1, <4>1, NotScoredIsZero DEF MeanOfModel
      <4>3. Le(Zero, a.score)
        BY <1>3, <1>17, <2>2, ModelMeans DEF Average
      <4> QED BY <4>2, <4>3
    <3>2. CASE Scored(Group(rows, Model, b.who)) # <<>>
      <4>1. PICK c : c = Contender(rows, b.who)
        OBVIOUS
      <4>2. b.who \in {r.model : r \in ToSet(rows)}
        BY <1>3, <1>6, ModelKeys
      <4>3. c \in C /\ c.score = b.value
        BY <1>6, <1>10, <3>2, <4>1, <4>2 DEF Contenders, Contender, MeanOfModel
      <4>4. PICK i \in 1..n : Le(c.score, front[i].score)
        BY <1>14, <1>15, <4>3
      <4>5. Le(front[i].score, a.score)
        BY <1>8, <1>9, <2>1, <2>2 DEF ScoresFall
      <4> QED BY <1>6, <1>13, <1>16, <2>2, <4>3, <4>4, <4>5, LeTransitive
    <3> QED BY <3>1, <3>2
  <2> QED BY <1>6, <2>2, <2>3, <2>4, LeTotal
<1>19. ASSUME NEW a \in C PROVE Le(a.tps, Last(front).tps)
  <2>1. PICK i \in 1..n : Le(a.tps, front[i].tps)
    BY <1>14, <1>15
  <2>2. n \in 1..n /\ Last(front) = front[n]
    BY <1>9 DEF Last
  <2>3. Le(front[n].score, front[i].score)
    BY <1>8, <1>9, <2>2 DEF ScoresFall
  <2>4. PICK c, z : c = front[i] /\ z = front[n]
    OBVIOUS
  <2>5. c \in ToSet(front) /\ z \in ToSet(front) /\ c \in E /\ z \in E
    BY <1>16, <2>2, <2>4
  <2>6. Le(c.tps, z.tps) \/ Le(z.tps, c.tps)
    BY <1>13, <2>5, LeTotal
  <2>7. Le(z.tps, c.tps) => Le(c.tps, z.tps)
    BY <1>14, <2>3, <2>4, <2>5
  <2>8. a.tps \in Fraction /\ c.tps \in Fraction /\ z.tps \in Fraction
    BY <1>12, <1>13, <2>5
  <2> QED BY <2>1, <2>2, <2>4, <2>6, <2>7, <2>8, LeTransitive
<1> QED BY <1>4, <1>5, <1>6, <1>8, <1>11, <1>18, <1>19 DEF SummaryAgrees

-----------------------------------------------------------------------------
(* Every table counts the runs that it is about.                           *)
LEMMA ModelsCount ==
  ASSUME NEW S, GoodRows(S), NEW rs \in Seq(S), NEW t, t = ModelComparison(rs)
  PROVE  Total([i \in DOMAIN t |-> t[i].tasks]) = Len(rs)
<1>1. PICK M : M = {r.model : r \in S}
  OBVIOUS
<1>2. PICK ms \in Seq(M) : ms = Keys(rs, Model) /\ Distinct(ms) /\ ToSet(ms) = {r.model : r \in ToSet(rs)}
  BY <1>1, ModelKeys
<1>3. PICK n \in Nat : n = Len(ms) /\ DOMAIN ms = 1..n
  OBVIOUS
<1>4. PICK at : IsModelTable(t, S, rs, ms, at)
  BY <1>2, ModelTableIs
<1>5. PICK f : f = ModelOf(S)
  OBVIOUS
<1>6. DOMAIN f = S /\ \A r \in S : f[r] = r.model
  BY <1>5 DEF ModelOf
<1>7. PICK es \in Seq(Lines(S)) : es = LinesOf(rs, ms) /\ Len(es) = n /\ \A i \in 1..n : es[i] = Line(rs, ms[i])
  BY <1>2, <1>3, LinesAre
<1>8. PICK R : Arranges(at, t, es, R)
  BY <1>4, <1>7 DEF IsModelTable
<1>9. DOMAIN es = 1..n /\ DOMAIN t = 1..n
  BY <1>3, <1>4, <1>7 DEF IsModelTable
<1>10. PICK u : u = [i \in 1..n |-> t[i].tasks]
  OBVIOUS
<1>11. PICK v : v = CountsBy(rs, f, ms, S)
  OBVIOUS
<1>12. ASSUME NEW i \in 1..n PROVE v[i] \in Int /\ v[i] = es[i].tasks
  <2>1. PICK g \in Seq(S) : g = GroupBy(rs, f, ms[i])
    BY <1>6, GroupByIs
  <2>2. v[i] = HowOften(g, S)
    BY <1>3, <1>11, <2>1 DEF CountsBy
  <2>3. v[i] = Len(g)
    BY <2>2, TimesAll
  <2>4. g = Group(rs, Model, ms[i])
    BY <1>5, <2>1, ModelBy
  <2>5. es[i].tasks = Len(g)
    BY <1>7, <2>4 DEF Line
  <2> QED BY <2>3, <2>5
<1>13. ASSUME NEW i \in 1..n PROVE u[i] = v[at[i]]
  <2>1. at[i] \in 1..n /\ t[i] = es[at[i]]
    BY <1>8, <1>9 DEF Arranges
  <2> QED BY <1>10, <1>12, <2>1
<1>14. SumFunctionOnSet(u, 1..n) = SumFunctionOnSet(v, 1..n)
  <2>1. Carries(u, v, at, n)
    BY <1>8, <1>9, <1>12, <1>13 DEF Carries, Arranges
  <2>2. PICK X : es \in Seq(X)
    BY <1>7
  <2>3. n = Len(es)
    BY <1>7
  <2> QED BY <1>8, <2>1, <2>2, <2>3, ArrangedSum
<1>15. \A r \in ToSet(rs) : r \in S => f[r] \in ToSet(ms)
  BY <1>2, <1>6
<1>16. SumFunctionOnSet(v, 1..n) = HowOften(rs, S)
  BY <1>2, <1>3, <1>6, <1>11, <1>15, GroupsCount
<1>17. Total(u) = SumFunctionOnSet(u, 1..n)
  BY <1>10 DEF Total, SumFunction
<1> QED BY <1>9, <1>10, <1>14, <1>16, <1>17, TimesAll

LEMMA QuantsCount ==
  ASSUME NEW S, NEW rs \in Seq(S), QuantSummary(rs) # {}
  PROVE  TasksIn(QuantSummary(rs)) = Len(Quantized(rs))
<1>1. PICK f : f = QuantIn(S)
  OBVIOUS
<1>2. DOMAIN f = S
  BY <1>1 DEF QuantIn
<1>3. PICK t \in Seq(S) : t = Quantized(rs)
  BY <1>1, <1>2, QuantizedIs, NamedGroups
<1>4. PICK T : T = {r.quant : r \in S}
  OBVIOUS
<1>5. PICK ks \in Seq(T) : ks = Keys(t, Quant) /\ Distinct(ks) /\ ToSet(ks) = KeysMet(t, f)
  BY <1>1, <1>4, QuantKeys
<1>6. PICK e : e = [q \in ToSet(ks) |-> [quant |-> q, tasks |-> Len(Group(t, Quant, q)),
                     score |-> AvgScore(Group(t, Quant, q)), tps |-> AvgSpeed(Group(t, Quant, q))]]
  OBVIOUS
<1>7. QuantSummary(rs) = {e[k] : k \in ToSet(ks)}
  BY <1>3, <1>5, <1>6 DEF QuantSummary
<1>8. \A k, l \in ToSet(ks) : e[k] = e[l] => k = l
  <2>1. \A k \in ToSet(ks) : e[k].quant = k
    BY <1>6
  <2> QED BY <2>1
<1>9. \A k \in ToSet(ks) : e[k].tasks = Len(GroupBy(t, f, k))
  BY <1>1, <1>6, QuantBy
<1>10. PICK table : table = QuantSummary(rs)
  OBVIOUS
<1>11. TasksIn(table) = Len(t)
  BY <1>2, <1>5, <1>7, <1>8, <1>9, <1>10, KeyedCounts
<1> QED BY <1>3, <1>10, <1>11

LEMMA StylesCount ==
  ASSUME NEW S, NEW rs \in Seq(S)
  PROVE  TasksIn(StyleSummary(rs)) = Len(Styled(rs))
<1>1. PICK f : f = StyleIn(S)
  OBVIOUS
<1>2. DOMAIN f = S
  BY <1>1 DEF StyleIn
<1>3. PICK t \in Seq(S) : /\ t = Styled(rs) /\ KeysMet(t, f) = KeysMet(rs, f) \ {None}
                          /\ \A k : k # None => GroupBy(t, f, k) = GroupBy(rs, f, k)
  BY <1>1, <1>2, StyledIs, NamedGroups
<1>4. PICK T : T = {r.style : r \in S}
  OBVIOUS
<1>5. PICK ks \in Seq(T) : ks = Keys(t, Style) /\ Distinct(ks) /\ ToSet(ks) = KeysMet(t, f)
  BY <1>1, <1>4, StyleKeys
<1>6. PICK e : e = [s \in ToSet(ks) |-> [style |-> s, tasks |-> Len(Group(rs, Style, s)),
                     score |-> ScoreIn(rs, Style, s), tps |-> AvgSpeed(Group(rs, Style, s))]]
  OBVIOUS
<1>7. StyleSummary(rs) = {e[k] : k \in ToSet(ks)}
  BY <1>3, <1>5, <1>6 DEF StyleSummary
<1>8. \A k, l \in ToSet(ks) : e[k] = e[l] => k = l
  <2>1. \A k \in ToSet(ks) : e[k].style = k
    BY <1>6
  <2> QED BY <2>1
<1>9. \A k \in ToSet(ks) : e[k].tasks = Len(GroupBy(t, f, k))
  <2>1. \A k \in ToSet(ks) : k # None
    BY <1>3, <1>5
  <2>2. \A k : Group(rs, Style, k) = GroupBy(rs, f, k)
    BY <1>1, StyleBy
  <2> QED BY <1>3, <1>6, <2>1, <2>2
<1>10. PICK table : table = StyleSummary(rs)
  OBVIOUS
<1>11. TasksIn(table) = Len(t)
  BY <1>2, <1>5, <1>7, <1>8, <1>9, <1>10, KeyedCounts
<1> QED BY <1>3, <1>10, <1>11

LEMMA PromptKeys ==
  ASSUME NEW S, NEW rs \in Seq(S)
  PROVE  /\ Keys(rs, Prompt) \in Seq({r.prompt : r \in S}) /\ Distinct(Keys(rs, Prompt))
         /\ ToSet(Keys(rs, Prompt)) = KeysMet(rs, PromptIn(S))
<1>1. PICK T : T = {r.prompt : r \in S}
  OBVIOUS
<1>2. PromptIn(S) \in [S -> T]
  BY <1>1 DEF PromptIn
<1>3. Keys(rs, Prompt) = KeysBy(rs, PromptIn(S))
  BY PromptBy
<1>4. PICK g : g = PromptIn(S)
  OBVIOUS
<1>5. KeysBy(rs, g) \in Seq(T) /\ Distinct(KeysBy(rs, g)) /\ ToSet(KeysBy(rs, g)) = KeysMet(rs, g)
  BY <1>2, <1>4, KeysByIs, ZenonT(60)
<1> QED BY <1>1, <1>3, <1>4, <1>5

LEMMA ContextsCount ==
  ASSUME NEW S, NEW rs \in Seq(S), ContextTable(rs) # {}
  PROVE  TasksIn(ContextTable(rs)) = HowOften(rs, HasScore(S))
<1>1. PICK f : f = PromptIn(S)
  OBVIOUS
<1>2. DOMAIN f = S
  BY <1>1 DEF PromptIn
<1>3. PICK T : T = {r.prompt : r \in S}
  OBVIOUS
<1>4. PICK all \in Seq(T) : all = Keys(rs, Prompt) /\ Distinct(all) /\ ToSet(all) = KeysMet(rs, f)
  BY <1>1, <1>3, PromptKeys
<1>5. PICK C : C = {p \in T : Scored(GroupBy(rs, f, p)) # <<>>}
  OBVIOUS
<1>6. PICK ks : ks = Having(all, C)
  OBVIOUS
<1>7. ks \in Seq(T \cap C) /\ Distinct(ks) /\ ToSet(ks) = ToSet(all) \cap C
  BY <1>4, <1>6, HavingIsList, HavingDistinct, HavingMembers
<1>8. \A p : Group(rs, Prompt, p) = GroupBy(rs, f, p)
  BY <1>1, PromptBy
<1>9. PICK e : e = [p \in ToSet(ks) |-> [size |-> p, score |-> ScoreIn(rs, Prompt, p),
         tps |-> AvgSpeed(Group(rs, Prompt, p)), tasks |-> Len(Scored(Group(rs, Prompt, p)))]]
  OBVIOUS
<1>10. ToSet(ks) = {p \in ToSet(Keys(rs, Prompt)) : Scored(Group(rs, Prompt, p)) # <<>>}
  <2>1. ToSet(all) \subseteq T
    BY DEF ToSet
  <2> QED BY <1>4, <1>5, <1>7, <1>8, <2>1
<1>11. ContextTable(rs) = {e[p] : p \in ToSet(ks)}
  BY <1>9, <1>10 DEF ContextTable
<1>12. \A k, l \in ToSet(ks) : e[k] = e[l] => k = l
  <2>1. \A k \in ToSet(ks) : e[k].size = k
    BY <1>9
  <2> QED BY <2>1
<1>13. \A k \in ToSet(ks) : e[k].tasks = HowOften(GroupBy(rs, f, k), HasScore(S))
  <2>1. ASSUME NEW k \in ToSet(ks) PROVE e[k].tasks = HowOften(GroupBy(rs, f, k), HasScore(S))
    <3>1. PICK g \in Seq(S) : g = GroupBy(rs, f, k)
      BY <1>2, GroupByIs
    <3>2. Scored(g) = Having(g, HasScore(S))
      BY ScoredAre
    <3>3. Len(Having(g, HasScore(S))) = HowOften(g, HasScore(S))
      BY HavingIsList
    <3>4. e[k].tasks = Len(Scored(g))
      BY <1>8, <1>9, <3>1
    <3> QED BY <3>1, <3>2, <3>3, <3>4
  <2> QED BY <2>1
<1>14. \A r \in ToSet(rs) : r \in HasScore(S) => f[r] \in ToSet(ks)
  <2>1. ASSUME NEW r \in ToSet(rs), r \in HasScore(S) PROVE f[r] \in ToSet(ks)
    <3>1. r \in S /\ r.score # None
      BY <2>1 DEF HasScore
    <3>2. f[r] = r.prompt /\ f[r] \in ToSet(all)
      BY <1>1, <1>4, <3>1 DEF PromptIn, KeysMet
    <3>3. PICK g \in Seq(S) : g = GroupBy(rs, f, f[r]) /\ ToSet(g) = RowsWith(rs, f, f[r])
      BY <1>2, GroupByIs
    <3>4. r \in ToSet(g)
      BY <3>3 DEF RowsWith
    <3>5. r \in ToSet(Scored(g))
      BY <3>1, <3>4, ScoredAre
    <3>6. Scored(g) # <<>>
      BY <3>5 DEF ToSet
    <3>7. f[r] \in T
      BY <1>3, <3>1, <3>2
    <3> QED BY <1>5, <1>7, <3>2, <3>3, <3>6, <3>7
  <2> QED BY <2>1
<1>15. PICK table : table = ContextTable(rs)
  OBVIOUS
<1>16. PICK D : D = HasScore(S)
  OBVIOUS
<1>17. ks \in Seq(T)
  BY <1>7
<1>18. TasksIn(table) = HowOften(rs, D)
  <2>1. \A r \in ToSet(rs) : r \in D => f[r] \in ToSet(ks)
    BY <1>14, <1>16
  <2>2. \A k \in ToSet(ks) : e[k].tasks = HowOften(GroupBy(rs, f, k), D)
    BY <1>13, <1>16
  <2>3. table = {e[k] : k \in ToSet(ks)}
    BY <1>11, <1>15
  <2> QED BY <1>2, <1>7, <1>12, <1>17, <2>1, <2>2, <2>3, TableCounts
<1> QED BY <1>15, <1>16, <1>18

ErrorIn(S) == [r \in S |-> r.error]
Failing(S) == {r \in S : r.status = "error"}
GroupsOf(es, f, ks) == [i \in DOMAIN ks |-> GroupBy(es, f, ks[i])]
LengthsOf(gs) == [i \in DOMAIN gs |-> Whole(Len(gs[i]))]

LEMMA ErrorBy ==
  ASSUME NEW S, NEW rs \in Seq(S)
  PROVE  /\ \A k : Group(rs, Error, k) = GroupBy(rs, ErrorIn(S), k)
         /\ Keys(rs, Error) = KeysBy(rs, ErrorIn(S))
<1>1. \A i \in DOMAIN rs : rs[i] \in S /\ ErrorIn(S)[rs[i]] = rs[i].error
  BY DEF ErrorIn
<1>2. ASSUME NEW k PROVE Group(rs, Error, k) = GroupBy(rs, ErrorIn(S), k)
  <2>1. {i \in DOMAIN rs : rs[i].error = k} = {i \in DOMAIN rs : rs[i] \in With(ErrorIn(S), k)}
    BY <1>1 DEF With, ErrorIn
  <2> QED BY <2>1 DEF Group, Kept, GroupBy, Having, Error
<1>3. PICK k : k = KeyList(rs, ErrorIn(S))
  OBVIOUS
<1>4. k = [i \in DOMAIN rs |-> rs[i].error]
  BY <1>1, <1>3 DEF KeyList
<1>5. {i \in DOMAIN rs : \A j \in 1..i-1 : k[j] # k[i]} = FirstOnes(k)
  BY <1>4 DEF FirstOnes
<1>6. Keys(rs, Error) = Part(k, FirstOnes(k))
  BY <1>4, <1>5 DEF Keys, Error
<1> QED BY <1>2, <1>3, <1>6 DEF KeysBy

LEMMA ErrorKeys ==
  ASSUME NEW S, NEW rs \in Seq(S)
  PROVE  /\ Keys(rs, Error) \in Seq({r.error : r \in S}) /\ Distinct(Keys(rs, Error))
         /\ ToSet(Keys(rs, Error)) = KeysMet(rs, ErrorIn(S))
<1>1. PICK T : T = {r.error : r \in S}
  OBVIOUS
<1>2. ErrorIn(S) \in [S -> T]
  BY <1>1 DEF ErrorIn
<1>3. Keys(rs, Error) = KeysBy(rs, ErrorIn(S))
  BY ErrorBy
<1>4. PICK g : g = ErrorIn(S)
  OBVIOUS
<1>5. KeysBy(rs, g) \in Seq(T) /\ Distinct(KeysBy(rs, g)) /\ ToSet(KeysBy(rs, g)) = KeysMet(rs, g)
  BY <1>2, <1>4, KeysByIs
<1> QED BY <1>1, <1>3, <1>4, <1>5

LEMMA ClustersCount ==
  ASSUME NEW S, NEW rs \in Seq(S), NEW cl, cl = Clusters(rs)
  PROVE  Total([i \in DOMAIN cl |-> Len(cl[i])]) = HowOften(rs, Failing(S))
<1>1. PICK es : es = Having(rs, Failing(S))
  OBVIOUS
<1>2. es \in Seq(S) /\ Len(es) = HowOften(rs, Failing(S))
  <2>1. es \in Seq(S \cap Failing(S)) /\ Len(es) = HowOften(rs, Failing(S))
    BY <1>1, HavingIsList
  <2>2. \A q \in Seq(S \cap Failing(S)) : q \in Seq(S)
    OBVIOUS
  <2> QED BY <2>1, <2>2
<1>3. Kept(rs, LAMBDA r : r.status = "error") = es
  <2>1. \A i \in DOMAIN rs : rs[i] \in S
    OBVIOUS
  <2>2. {i \in DOMAIN rs : rs[i].status = "error"} = {i \in DOMAIN rs : rs[i] \in Failing(S)}
    BY <2>1 DEF Failing
  <2> QED BY <1>1, <2>2 DEF Kept, Having
<1>4. PICK f : f = ErrorIn(S)
  OBVIOUS
<1>5. DOMAIN f = S
  BY <1>4 DEF ErrorIn
<1>6. PICK T : T = {r.error : r \in S}
  OBVIOUS
<1>7. PICK ks \in Seq(T) : ks = Keys(es, Error) /\ Distinct(ks) /\ ToSet(ks) = KeysMet(es, f)
  BY <1>2, <1>4, <1>6, ErrorKeys
<1>8. PICK n \in Nat : n = Len(ks) /\ DOMAIN ks = 1..n
  OBVIOUS
<1>9. PICK gs : gs = GroupsOf(es, f, ks)
  OBVIOUS
<1>10. /\ DOMAIN gs = 1..n /\ \A i \in 1..n : gs[i] = GroupBy(es, f, ks[i]) /\ gs[i] \in Seq(S)
  <2>1. \A k : GroupBy(es, f, k) \in Seq(S)
    BY <1>2, <1>5, GroupByIs
  <2> QED BY <1>8, <1>9, <2>1 DEF GroupsOf
<1>11. gs \in Seq(Seq(S)) /\ Len(gs) = n
  <2>1. gs = [i \in 1..n |-> gs[i]]
    BY <1>8, <1>9 DEF GroupsOf
  <2>2. \A i \in 1..n : gs[i] \in Seq(S)
    BY <1>10
  <2>3. gs \in [1..n -> Seq(S)]
    BY <2>1, <2>2
  <2> QED BY <2>3
<1>12. PICK v : v = LengthsOf(gs)
  OBVIOUS
<1>13. v \in [DOMAIN gs -> Fraction]
  <2>1. \A i \in 1..n : Whole(Len(gs[i])) \in Fraction
    BY <1>10 DEF Whole, Fraction
  <2> QED BY <1>10, <1>12, <2>1 DEF LengthsOf
<1>14. cl = RankOrder(gs, Standing(v))
  <2>1. gs = [i \in DOMAIN ks |-> Group(es, Error, ks[i])]
    <3>1. \A k : Group(es, Error, k) = GroupBy(es, f, k)
      BY <1>2, <1>4, ErrorBy
    <3> QED BY <1>9, <3>1 DEF GroupsOf
  <2>2. cl = Descending(gs, LAMBDA c : Whole(Len(c)))
    BY <1>3, <1>7, <2>1 DEF Clusters
  <2> QED BY <1>12, <2>2 DEF Descending, Standing, LengthsOf
<1>15. PICK X : X = Seq(S)
  OBVIOUS
<1>16. cl \in Seq(X) /\ Len(cl) = n /\ \E at : Arranges(at, cl, gs, Falling(v))
  <2>1. gs \in Seq(X) /\ Len(gs) = n
    BY <1>11, <1>15
  <2>2. cl \in Seq(X) /\ Len(cl) = Len(gs) /\ \E at : Arranges(at, cl, gs, Falling(v))
    BY <1>13, <1>14, <2>1, StandingArranges
  <2> QED BY <2>1, <2>2
<1>17. PICK at, R : Arranges(at, cl, gs, R)
  BY <1>16
<1>18. DOMAIN cl = 1..n
  BY <1>16
<1>19. PICK u : u = [i \in 1..n |-> Len(cl[i])]
  OBVIOUS
<1>20. PICK w : w = CountsBy(es, f, ks, S)
  OBVIOUS
<1>21. \A i \in 1..n : w[i] = Len(gs[i]) /\ w[i] \in Int
  <2>1. ASSUME NEW i \in 1..n PROVE w[i] = Len(gs[i]) /\ w[i] \in Int
    <3>1. w[i] = HowOften(gs[i], S)
      BY <1>8, <1>10, <1>20 DEF CountsBy
    <3>2. gs[i] \in Seq(S)
      BY <1>10
    <3> QED BY <3>1, <3>2, TimesAll
  <2> QED BY <2>1
<1>22. Carries(u, w, at, n)
  <2>1. ASSUME NEW i \in 1..n PROVE w[at[i]] \in Int /\ u[i] = w[at[i]]
    <3>1. at[i] \in 1..n /\ cl[i] = gs[at[i]]
      BY <1>10, <1>17 DEF Arranges
    <3> QED BY <1>19, <1>21, <3>1
  <2> QED BY <2>1 DEF Carries
<1>23. SumFunctionOnSet(u, 1..n) = SumFunctionOnSet(w, 1..n)
  BY <1>11, <1>17, <1>22, ArrangedSum
<1>24. \A r \in ToSet(es) : r \in S => f[r] \in ToSet(ks)
  BY <1>7 DEF KeysMet
<1>25. SumFunctionOnSet(w, 1..n) = HowOften(es, S)
  BY <1>2, <1>5, <1>7, <1>8, <1>20, <1>24, GroupsCount
<1>26. Total(u) = SumFunctionOnSet(u, 1..n)
  BY <1>19 DEF Total, SumFunction
<1>27. HowOften(es, S) = Len(es)
  BY <1>2, TimesAll
<1> QED BY <1>2, <1>18, <1>19, <1>23, <1>25, <1>26, <1>27

LEMMA CountsHold == ASSUME FillInv PROVE RunsAreCounted
<1>1. PICK S : S = FillRows
  OBVIOUS
<1>2. GoodRows(S) /\ rows \in Seq(S)
  BY <1>1, FillRowsAre DEF FillInv
<1>3. PICK all \in Seq(S) : all = Regrouped(rows)
  BY <1>2, RegroupedIs
<1>4. \A C : HowOften(all, C) = HowOften(rows, C)
  BY <1>2, <1>3, RegroupedCounts
<1>5. PICK t : t = ModelComparison(rows)
  OBVIOUS
<1>6. Total([i \in DOMAIN t |-> t[i].tasks]) = Len(rows)
  BY <1>2, <1>5, ModelsCount
<1>7. ContextTable(all) # {} => TasksIn(ContextTable(all)) = Len(Scored(rows))
  <2>1. Len(Scored(rows)) = HowOften(rows, HasScore(S))
    BY <1>2, ScoredAre, HavingIsList
  <2> QED BY <1>4, <2>1, ContextsCount
<1>8. QuantSummary(rows) # {} => TasksIn(QuantSummary(rows)) = Len(Quantized(rows))
  BY <1>2, QuantsCount
<1>9. TasksIn(StyleSummary(rows)) = Len(Styled(rows))
  BY <1>2, StylesCount
<1>10. PICK cl : cl = Clusters(all)
  OBVIOUS
<1>11. Total([i \in DOMAIN cl |-> Len(cl[i])]) = HowOften(rows, Failing(S))
  BY <1>4, <1>10, ClustersCount
<1>12. HowOften(rows, Failing(S)) = Cardinality({i \in DOMAIN rows : rows[i].status = "error"})
  <2>1. \A i \in DOMAIN rows : rows[i] \in S
    BY <1>2
  <2>2. {i \in DOMAIN rows : rows[i] \in Failing(S)} = {i \in DOMAIN rows : rows[i].status = "error"}
    BY <2>1 DEF Failing
  <2> QED BY <2>2 DEF HowOften, HowOftenAt
<1> QED BY <1>3, <1>5, <1>6, <1>7, <1>8, <1>9, <1>10, <1>11, <1>12 DEF RunsAreCounted, TasksIn

-----------------------------------------------------------------------------
(* The averages of quantizations, and the search for the best of them.     *)
QuantMean(rs, q) == AvgScore(Group(rs, Quant, q))
QuantMeans(rs) == [q \in ToSet(Keys(rs, Quant)) |-> QuantMean(rs, q)]
BestQuant(rs) == Champion(Keys(rs, Quant), QuantMeans(rs), Whole(-1))

LEMMA QuantMeanIs ==
  ASSUME NEW S, GoodRows(S), NEW rs \in Seq(S), NEW q
  PROVE  /\ QuantMean(rs, q) \in Fraction /\ Le(Zero, QuantMean(rs, q))
         /\ QuantMean(Regrouped(rs), q) = QuantMean(rs, q)
<1>1. PICK g : g = QuantIn(S)
  OBVIOUS
<1>2. DOMAIN g = S
  BY <1>1 DEF QuantIn
<1>3. PICK all \in Seq(S) : all = Regrouped(rs)
  BY RegroupedIs
<1>4. QuantMean(rs, q) = AvgScore(GroupBy(rs, g, q)) /\ QuantMean(all, q) = AvgScore(GroupBy(all, g, q))
  BY <1>1, QuantBy DEF QuantMean
<1>5. GroupBy(rs, g, q) \in Seq(S)
  BY <1>2, GroupByIs
<1>6. AvgScore(GroupBy(all, g, q)) = AvgScore(GroupBy(rs, g, q))
  BY <1>3, RegroupedMeans DEF GroupBy
<1> QED BY <1>3, <1>4, <1>5, <1>6, AvgScoreIs DEF Average

LEMMA BestQuantIsGreatest ==
  ASSUME NEW S, GoodRows(S), NEW rs \in Seq(S), Keys(rs, Quant) # <<>>
  PROVE  IsGreatest(BestQuant(rs), Keys(rs, Quant), QuantMeans(rs))
<1>1. PICK T : T = {r.quant : r \in S}
  OBVIOUS
<1>2. PICK ks \in Seq(T) : ks = Keys(rs, Quant)
  BY <1>1, QuantKeys
<1>3. PICK f : f = QuantMeans(rs)
  OBVIOUS
<1>4. PICK start : start = Whole(-1)
  OBVIOUS
<1>5. \A s \in Fraction : Le(Zero, s) => start \in Fraction /\ Lt(start, s)
  BY <1>4, BelowZero
<1>6. \A k \in ToSet(ks) : f[k] \in Fraction /\ Le(Zero, f[k])
  BY <1>2, <1>3, QuantMeanIs DEF QuantMeans
<1>7. \A k \in ToSet(ks) : f[k] \in Fraction /\ Lt(start, f[k])
  BY <1>5, <1>6
<1>8. start \in Fraction
  BY <1>5, ZeroIs DEF Average
<1>9. PICK c : c = Champion(ks, f, start)
  OBVIOUS
<1>10. IsGreatest(c, ks, f)
  BY <1>2, <1>7, <1>8, <1>9, ChampionIsGreatest
<1> QED BY <1>2, <1>3, <1>4, <1>9, <1>10 DEF BestQuant

LEMMA FillRowsLow == LowScores(FillRows)
BY ScoresAssumption DEF FillRows, LowScores

LossesOf(rs, best, qs) == [q \in ToSet(qs) |-> Minus(Zero, Minus(best, QuantMean(rs, q)))]
LossFrom(rs, qs, ref) ==
  LET others == Kept(qs, LAMBDA q : q # ref.who)
  IN Champion(others, LossesOf(rs, ref.value, others), Whole(-100))
IsLeastLoss(l, rs, ref) ==
  LET others == ToSet(Keys(rs, Quant)) \ {ref.who}
  IN /\ l.who \in others /\ l.value = Minus(QuantMean(rs, l.who), ref.value)
     /\ l.value \in Fraction
     /\ \A q \in others : Le(Minus(QuantMean(rs, q), ref.value), l.value)

LEMMA LeastLossIs ==
  ASSUME NEW S, GoodRows(S), LowScores(S), NEW rs \in Seq(S), Len(Keys(rs, Quant)) >= 2,
         NEW ref, ref = BestQuant(rs)
  PROVE  IsLeastLoss(LeastLoss(rs), rs, ref)
<1>1. PICK T : T = {r.quant : r \in S}
  OBVIOUS
<1>2. PICK qs \in Seq(T) : qs = Keys(rs, Quant) /\ Distinct(qs)
  BY <1>1, QuantKeys
<1>3. Len(qs) >= 2 /\ qs # <<>>
  BY <1>2
<1>4. IsGreatest(ref, qs, QuantMeans(rs))
  BY <1>2, <1>3, BestQuantIsGreatest
<1>5. PICK C : C = T \ {ref.who}
  OBVIOUS
<1>6. PICK others : others = Having(qs, C)
  OBVIOUS
<1>7. others \in Seq(T \cap C) /\ ToSet(others) = ToSet(qs) \cap C
  BY <1>6, HavingIsList, HavingMembers
<1>8. ToSet(qs) \subseteq T
  BY DEF ToSet
<1>9. ToSet(others) = ToSet(qs) \ {ref.who}
  BY <1>5, <1>7, <1>8
<1>10. Kept(qs, LAMBDA q : q # ref.who) = others
  <2>1. \A i \in DOMAIN qs : qs[i] \in T
    OBVIOUS
  <2>2. {i \in DOMAIN qs : qs[i] # ref.who} = {i \in DOMAIN qs : qs[i] \in C}
    BY <1>5, <2>1
  <2> QED BY <1>6, <2>2 DEF Kept, Having
<1>11. PICK f : f = LossesOf(rs, ref.value, others)
  OBVIOUS
<1>12. PICK start : start = Whole(-100)
  OBVIOUS
<1>13. PICK l : l = LeastLoss(rs)
  OBVIOUS
<1>14. l = Champion(others, f, start)
  <2>1. ~(Len(Keys(rs, Quant)) < 2)
    BY <1>2, <1>3
  <2>2. LeastLoss(rs) = LossFrom(rs, Keys(rs, Quant), BestQuant(rs))
    BY <2>1 DEF LeastLoss, LossFrom, LossesOf, BestQuant, QuantMeans, QuantMean, ScoreIn
  <2>3. LossFrom(rs, qs, ref) = Champion(others, f, start)
    BY <1>10, <1>11, <1>12 DEF LossFrom
  <2> QED BY <1>2, <1>13, <2>2, <2>3
<1>15. ref.value \in Fraction /\ ref.value = QuantMean(rs, ref.who)
  BY <1>2, <1>4 DEF IsGreatest, QuantMeans
<1>16. Le(ref.value, Whole(99))
  <2>1. PICK g \in Seq(S) : g = Group(rs, Quant, ref.who)
    <3>1. PICK h : h = QuantIn(S)
      OBVIOUS
    <3>2. DOMAIN h = S
      BY <3>1 DEF QuantIn
    <3>3. GroupBy(rs, h, ref.who) \in Seq(S)
      BY <3>2, GroupByIs
    <3> QED BY <3>1, <3>3, QuantBy
  <2>2. Le(AvgScore(g), Whole(99))
    BY AvgIsLow
  <2> QED BY <1>15, <2>1, <2>2 DEF QuantMean
<1>17. ASSUME NEW q \in ToSet(others)
       PROVE  /\ f[q] = Minus(QuantMean(rs, q), ref.value) /\ f[q] \in Fraction
              /\ Lt(start, f[q])
  <2>1. PICK m \in Fraction : m = QuantMean(rs, q) /\ Le(Zero, m)
    BY QuantMeanIs
  <2>2. f[q] = Minus(Zero, Minus(ref.value, m))
    BY <1>11, <2>1 DEF LossesOf
  <2>3. f[q] = Minus(m, ref.value) /\ f[q] \in Fraction
    BY <1>15, <2>2, LossIs
  <2>4. Lt(Whole(-100), Minus(m, ref.value))
    BY <1>15, <1>16, <2>1, LossIs
  <2> QED BY <1>12, <2>1, <2>3, <2>4
<1>18. others # <<>>
  <2>1. PICK n \in Nat : n = Len(qs) /\ DOMAIN qs = 1..n /\ n >= 2
    BY <1>3
  <2>2. 1 \in DOMAIN qs /\ 2 \in DOMAIN qs
    BY <2>1
  <2>3. qs[1] # qs[2]
    BY <1>2, <2>2 DEF Distinct
  <2>4. qs[1] \in ToSet(qs) /\ qs[2] \in ToSet(qs)
    BY <2>2 DEF ToSet
  <2>5. \E q : q \in ToSet(others)
    BY <1>9, <2>3, <2>4
  <2> QED BY <2>5 DEF ToSet
<1>19. start \in Fraction
  BY <1>12 DEF Whole, Fraction
<1>20. others \in Seq(T)
  BY <1>7
<1>21. IsGreatest(l, others, f)
  <2>1. \A k \in ToSet(others) : f[k] \in Fraction /\ Lt(start, f[k])
    BY <1>17
  <2> QED BY <1>14, <1>18, <1>19, <1>20, <2>1, ChampionIsGreatest
<1>22. /\ l.who \in ToSet(others) /\ l.value = Minus(QuantMean(rs, l.who), ref.value) /\ l.value \in Fraction
       /\ \A q \in ToSet(others) : Le(Minus(QuantMean(rs, q), ref.value), l.value)
  BY <1>17, <1>21 DEF IsGreatest
<1> QED BY <1>2, <1>9, <1>13, <1>22 DEF IsLeastLoss

(* The lines of the table of v2.                                           *)
QuantLine(rs, q, ref) ==
  [quant |-> q, score |-> QuantMean(rs, q), delta |-> Minus(QuantMean(rs, q), ref.value)]

LEMMA QuantTableIs ==
  ASSUME NEW all, NEW rs, all = Regrouped(rs), NEW ref, ref = BestQuant(all)
  PROVE  QuantComparison(rs) =
           IF Len(Keys(all, Quant)) < 2 THEN {}
           ELSE {QuantLine(all, q, ref) : q \in ToSet(Keys(all, Quant)) \ {ref.who}}
<1>1. ref = Champion(Keys(all, Quant), [q \in ToSet(Keys(all, Quant)) |-> ScoreIn(all, Quant, q)], Whole(-1))
  BY DEF BestQuant, QuantMeans, QuantMean, ScoreIn
<1>2. \A q : QuantLine(all, q, ref) =
        [quant |-> q, score |-> ScoreIn(all, Quant, q), delta |-> Minus(ScoreIn(all, Quant, q), ref.value)]
  BY DEF QuantLine, QuantMean, ScoreIn
<1> QED BY <1>1, <1>2 DEF QuantComparison

LEMMA QuantTablesHold == ASSUME FillInv PROVE QuantTablesAgree
<1>1. PICK S : S = FillRows
  OBVIOUS
<1>2. GoodRows(S) /\ LowScores(S) /\ rows \in Seq(S)
  BY <1>1, FillRowsAre, FillRowsLow DEF FillInv
<1>3. PICK T : T = {r.quant : r \in S}
  OBVIOUS
<1>4. PICK all \in Seq(S) : all = Regrouped(rows) /\ ToSet(all) = ToSet(rows)
  BY <1>2, RegroupedIs
<1>5. PICK qs \in Seq(T) : qs = Keys(all, Quant) /\ Distinct(qs) /\ ToSet(qs) = KeysMet(all, QuantIn(S))
  BY <1>3, QuantKeys
<1>6. PICK ks \in Seq(T) : ks = Keys(rows, Quant) /\ Distinct(ks) /\ ToSet(ks) = KeysMet(rows, QuantIn(S))
  BY <1>2, <1>3, QuantKeys
<1>7. ToSet(qs) = ToSet(ks)
  BY <1>4, <1>5, <1>6 DEF KeysMet
<1>8. PICK ref, l, table : ref = BestQuant(all) /\ l = LeastLoss(all) /\ table = QuantComparison(rows)
  OBVIOUS
<1>9. l = Summary(rows).quant
  BY <1>4, <1>8 DEF Summary
<1>10. PICK best : best = BestQuant(rows)
  OBVIOUS
<1>11. best = Champion(Keys(rows, Quant), [q \in ToSet(Keys(rows, Quant)) |-> ScoreIn(rows, Quant, q)], Whole(-1))
  BY <1>10 DEF BestQuant, QuantMeans, QuantMean, ScoreIn
<1>12. CASE Len(qs) < 2
  <2>1. table = {}
    BY <1>4, <1>5, <1>8, <1>12, QuantTableIs
  <2> QED BY <1>8, <2>1 DEF QuantTablesAgree
<1>13. CASE Len(qs) >= 2
  <2>1. table = {QuantLine(all, q, ref) : q \in ToSet(qs) \ {ref.who}}
    <3>1. ~(Len(Keys(all, Quant)) < 2)
      BY <1>5, <1>13
    <3> QED BY <1>4, <1>5, <1>8, <3>1, QuantTableIs
  <2>2. IsGreatest(ref, qs, QuantMeans(all))
    <3>1. qs # <<>>
      BY <1>13
    <3> QED BY <1>2, <1>5, <1>8, <3>1, BestQuantIsGreatest
  <2>3. IsLeastLoss(l, all, ref)
    BY <1>2, <1>5, <1>8, <1>13, LeastLossIs
  <2>4. ref.who \in ToSet(qs) /\ ref.value \in Fraction /\ ref.value = QuantMean(all, ref.who)
        /\ \A q \in ToSet(qs) : Le(QuantMean(all, q), ref.value)
    BY <1>5, <2>2 DEF IsGreatest, QuantMeans
  <2>5. \A q : QuantMean(all, q) \in Fraction /\ QuantMean(all, q) = QuantMean(rows, q)
    BY <1>2, <1>4, QuantMeanIs
  <2>6. ASSUME NEW e \in table
        PROVE  /\ e.quant \in ToSet(qs) \ {ref.who} /\ e.delta = Minus(QuantMean(all, e.quant), ref.value)
    <3>1. PICK q \in ToSet(qs) \ {ref.who} : e = QuantLine(all, q, ref)
      BY <2>1
    <3> QED BY <3>1 DEF QuantLine
  <2>7. ASSUME NEW e \in table PROVE Le(e.delta, l.value) /\ Le(e.delta, Zero)
    <3>1. Le(e.delta, l.value)
      BY <1>5, <2>3, <2>6 DEF IsLeastLoss
    <3>2. Le(e.delta, Zero)
      <4>1. PICK m \in Fraction : m = QuantMean(all, e.quant)
        BY <2>5
      <4>2. Le(m, ref.value)
        BY <2>4, <2>6, <4>1
      <4> QED BY <2>4, <2>6, <4>1, <4>2, LossIs
    <3> QED BY <3>1, <3>2
  <2>8. \E e \in table : e.quant = l.who /\ Same(e.delta, l.value)
    <3>1. l.who \in ToSet(qs) \ {ref.who} /\ l.value \in Fraction
          /\ l.value = Minus(QuantMean(all, l.who), ref.value)
      BY <1>5, <2>3 DEF IsLeastLoss
    <3>2. PICK e : e = QuantLine(all, l.who, ref)
      OBVIOUS
    <3>3. e \in table /\ e.quant = l.who /\ e.delta = l.value
      BY <2>1, <3>1, <3>2 DEF QuantLine
    <3>4. Same(l.value, l.value)
      BY <3>1, LeTotal
    <3> QED BY <3>3, <3>4
  <2>9. ASSUME Quantized(rows) = rows, Same(ScoreIn(rows, Quant, Baseline(rows)), best.value),
               NEW e \in table, e.quant # Baseline(rows)
        PROVE  Same(e.delta, (CHOOSE d \in QualityDelta(rows) : d.quant = e.quant).delta)
    <3>1. PICK base : base = Baseline(rows)
      OBVIOUS
    <3>2. PICK a \in Fraction : a = QuantMean(rows, base)
      BY <2>5
    <3>3. PICK m \in Fraction : m = QuantMean(rows, e.quant) /\ m = QuantMean(all, e.quant)
      BY <2>5
    <3>4. Comparable(rows)
      <4>1. Len(qs) <= Len(ks)
        BY <1>5, <1>7, DistinctFit
      <4>2. Len(ks) >= 2
        BY <1>13, <4>1
      <4> QED BY <1>6, <2>9, <4>2 DEF Comparable
    <3>5. PICK d : d = [quant |-> e.quant, score |-> m, delta |-> Minus(m, a)]
      OBVIOUS
    <3>6. QualityDelta(rows) =
            {[quant |-> q, score |-> QuantMean(rows, q), delta |-> Minus(QuantMean(rows, q), a)] :
               q \in ToSet(ks) \ {base}}
      BY <1>6, <2>9, <3>1, <3>2, <3>4 DEF QualityDelta, QuantMean, ScoreIn
    <3>7. e.quant \in ToSet(ks) \ {base}
      BY <1>7, <2>6, <2>9, <3>1
    <3>8. d \in QualityDelta(rows) /\ d.quant = e.quant
      BY <3>3, <3>5, <3>6, <3>7
    <3>9. ASSUME NEW x \in QualityDelta(rows), x.quant = e.quant PROVE x = d
      <4>1. PICK q : x = [quant |-> q, score |-> QuantMean(rows, q), delta |-> Minus(QuantMean(rows, q), a)]
        BY <3>6
      <4>2. q = e.quant
        BY <3>9, <4>1
      <4> QED BY <3>3, <3>5, <4>1, <4>2
    <3>10. (CHOOSE x \in QualityDelta(rows) : x.quant = e.quant) = d
      BY <3>8, <3>9
    <3>11. Same(ref.value, a)
      <4>1. IsGreatest(best, ks, QuantMeans(rows))
        <5>1. ks # <<>>
          <6>1. ToSet(ks) # {}
            BY <1>7, <2>4
          <6> QED BY <6>1 DEF ToSet
        <5> QED BY <1>2, <1>6, <1>10, <5>1, BestQuantIsGreatest
      <4>2. best.who \in ToSet(ks) /\ best.value \in Fraction /\ best.value = QuantMean(rows, best.who)
            /\ \A q \in ToSet(ks) : Le(QuantMean(rows, q), best.value)
        BY <1>6, <4>1 DEF IsGreatest, QuantMeans
      <4>3. Le(best.value, ref.value) /\ Le(ref.value, best.value)
        BY <1>7, <2>4, <2>5, <4>2
      <4>4. Same(a, best.value)
        BY <2>9, <3>1, <3>2 DEF QuantMean, ScoreIn
      <4>5. Le(a, best.value) /\ Le(best.value, a)
        BY <3>2, <4>2, <4>4, LeTotal
      <4>6. Le(a, ref.value) /\ Le(ref.value, a)
        BY <2>4, <3>2, <4>2, <4>3, <4>5, LeTransitive
      <4> QED BY <2>4, <3>2, <4>6, LeTotal
    <3>12. Same(Minus(m, ref.value), Minus(m, a))
      BY <2>4, <3>2, <3>3, <3>11, MinusSame
    <3>13. e.delta = Minus(m, ref.value) /\ d.delta = Minus(m, a)
      BY <2>6, <3>3, <3>5
    <3>14. Same(e.delta, d.delta)
      BY <3>12, <3>13
    <3> QED BY <3>10, <3>14
  <2> QED BY <1>8, <1>9, <1>11, <2>7, <2>8, <2>9 DEF QuantTablesAgree
<1>14. Len(qs) < 2 \/ Len(qs) >= 2
  OBVIOUS
<1> QED BY <1>12, <1>13, <1>14

-----------------------------------------------------------------------------
(* The sections of a report agree on one winner, on the least loss and on  *)
(* how many runs there are: generate_report_v2, its summary and its tables.*)
THEOREM SectionsTellOneStory == Spec => []SectionsAgree
<1>1. FillInv => SectionsAgree
  BY SummaryHolds, CountsHold, QuantTablesHold DEF SectionsAgree
<1> QED BY <1>1, FillInvHolds, PTL

-----------------------------------------------------------------------------
(* The rows of a quantization in a family, and the largest drop among them.*)
RanIn(rs, q, f) == Kept(rs, LAMBDA r : r.quant = q /\ Family(r) = f)
RanWith(S, q, f) == With(QuantIn(S), q) \cap With(FamilyIn(S), f)
OthersIn(rs, ref, f) ==
  Kept(Keys(Quantized(rs), Quant), LAMBDA q : q # ref /\ RanIn(rs, q, f) # <<>>)
DropsOf(rs, ref, f, qs) ==
  [q \in ToSet(qs) |-> Minus(AvgScore(RanIn(rs, ref, f)), AvgScore(RanIn(rs, q, f)))]

LEMMA RanInIs ==
  ASSUME NEW S, NEW rs \in Seq(S), NEW q, NEW f
  PROVE  /\ RanIn(rs, q, f) = Having(rs, RanWith(S, q, f)) /\ RanIn(rs, q, f) \in Seq(S)
         /\ Len(RanIn(rs, q, f)) = HowOften(rs, RanWith(S, q, f))
<1>1. \A i \in DOMAIN rs : rs[i] \in S
  OBVIOUS
<1>2. {i \in DOMAIN rs : rs[i].quant = q /\ FamilyOf[rs[i].task] = f}
        = {i \in DOMAIN rs : rs[i] \in RanWith(S, q, f)}
  BY <1>1 DEF RanWith, With, QuantIn, FamilyIn
<1>3. RanIn(rs, q, f) = Having(rs, RanWith(S, q, f))
  BY <1>2 DEF RanIn, Kept, Having, Family
<1>4. PICK C : C = RanWith(S, q, f)
  OBVIOUS
<1>5. Having(rs, C) \in Seq(S \cap C) /\ Len(Having(rs, C)) = HowOften(rs, C)
  BY HavingIsList
<1>6. \A s \in Seq(S \cap C) : s \in Seq(S)
  OBVIOUS
<1> QED BY <1>3, <1>4, <1>5, <1>6

LEMMA DropIs ==
  ASSUME NEW S, GoodRows(S), NEW rs \in Seq(S), NEW ref, NEW f,
         NEW q \in ToSet(Keys(Quantized(rs), Quant)), q # ref, RanIn(rs, q, f) # <<>>
  PROVE  /\ Le(Minus(AvgScore(RanIn(rs, ref, f)), AvgScore(RanIn(rs, q, f))), Drop(rs, ref, f).value)
         /\ Drop(rs, ref, f).value \in Fraction
<1>1. PICK T : T = {r.quant : r \in S}
  OBVIOUS
<1>2. PICK qs \in Seq(T) : qs = Keys(Quantized(rs), Quant)
  <2>1. Quantized(rs) \in Seq(S)
    <3>1. PICK g : g = QuantIn(S)
      OBVIOUS
    <3>2. DOMAIN g = S
      BY <3>1 DEF QuantIn
    <3> QED BY <3>1, <3>2, QuantizedIs, NamedGroups
  <2> QED BY <1>1, <2>1, QuantKeys
<1>3. PICK C : C = {k \in T : k # ref /\ RanIn(rs, k, f) # <<>>}
  OBVIOUS
<1>4. PICK os : os = OthersIn(rs, ref, f)
  OBVIOUS
<1>5. os = Having(qs, C)
  <2>1. \A i \in DOMAIN qs : qs[i] \in T
    OBVIOUS
  <2>2. {i \in DOMAIN qs : qs[i] # ref /\ RanIn(rs, qs[i], f) # <<>>} = {i \in DOMAIN qs : qs[i] \in C}
    BY <1>3, <2>1
  <2> QED BY <1>2, <1>4, <2>2 DEF OthersIn, Kept, Having
<1>6. os \in Seq(T \cap C) /\ ToSet(os) = ToSet(qs) \cap C
  BY <1>5, HavingIsList, HavingMembers
<1>7. q \in ToSet(os)
  <2>1. q \in T
    BY <1>2 DEF ToSet
  <2> QED BY <1>2, <1>3, <1>6, <2>1
<1>8. PICK v : v = DropsOf(rs, ref, f, os)
  OBVIOUS
<1>9. PICK c : c = Drop(rs, ref, f)
  OBVIOUS
<1>10. c = Champion(os, v, Zero)
  BY <1>4, <1>8, <1>9 DEF Drop, OthersIn, DropsOf, RanIn
<1>11. \A k : AvgScore(RanIn(rs, k, f)) \in Fraction
  <2>1. \A k : RanIn(rs, k, f) \in Seq(S)
    BY RanInIs
  <2> QED BY <2>1, AvgScoreIs DEF Average
<1>12. \A k \in ToSet(os) : v[k] \in Fraction
  BY <1>8, <1>11, MinusFraction DEF DropsOf
<1>13. Zero \in Fraction
  BY ZeroIs DEF Average
<1>14. os \in Seq(T)
  BY <1>6
<1>15. Leads(c, os, v, Zero, Len(os)) /\ c.value \in Fraction
  BY <1>10, <1>12, <1>13, <1>14, ChampionLeads DEF Titles
<1>16. PICK j \in 1..Len(os) : os[j] = q
  BY <1>7, <1>14 DEF ToSet
<1>17. Le(v[q], c.value)
  BY <1>15, <1>16 DEF Leads
<1> QED BY <1>7, <1>8, <1>9, <1>15, <1>17 DEF DropsOf

LEMMA BaselineIs ==
  ASSUME NEW S, GoodRows(S), NEW rs \in Seq(S), Comparable(rs)
  PROVE  Baseline(rs) \in ToSet(Keys(Quantized(rs), Quant))
<1>1. PICK T : T = {r.quant : r \in S}
  OBVIOUS
<1>2. PICK qs \in Seq(T) : qs = Keys(Quantized(rs), Quant)
  <2>1. Quantized(rs) \in Seq(S)
    <3>1. PICK g : g = QuantIn(S)
      OBVIOUS
    <3>2. DOMAIN g = S
      BY <3>1 DEF QuantIn
    <3> QED BY <3>1, <3>2, QuantizedIs, NamedGroups
  <2> QED BY <1>1, <2>1, QuantKeys
<1>3. qs # <<>>
  BY <1>2 DEF Comparable
<1>4. PICK refs : refs = Having(qs, References)
  OBVIOUS
<1>5. Kept(qs, LAMBDA q : q \in References) = refs
  BY <1>4 DEF Kept, Having
<1>6. ToSet(refs) \subseteq ToSet(qs) /\ refs \in Seq(T \cap References)
  BY <1>4, HavingMembers, HavingIsList
<1>7. PICK v : v = [q \in ToSet(qs) |-> ScoreIn(rs, Quant, q)]
  OBVIOUS
<1>8. PICK start : start = Whole(-1)
  OBVIOUS
<1>9. PICK c : c = Champion(qs, v, start)
  OBVIOUS
<1>10. Baseline(rs) = IF refs # <<>> THEN refs[1] ELSE c.who
  BY <1>2, <1>5, <1>7, <1>8, <1>9 DEF Baseline
<1>11. c.who \in ToSet(qs)
  <2>1. \A s \in Fraction : Le(Zero, s) => start \in Fraction /\ Lt(start, s)
    BY <1>8, BelowZero
  <2>2. \A k \in ToSet(qs) : v[k] = QuantMean(rs, k)
    BY <1>7 DEF QuantMean, ScoreIn
  <2>3. \A k \in ToSet(qs) : v[k] \in Fraction /\ Lt(start, v[k])
    BY <2>1, <2>2, QuantMeanIs
  <2>4. start \in Fraction
    BY <2>1, ZeroIs DEF Average
  <2>5. IsGreatest(c, qs, v)
    BY <1>3, <1>9, <2>3, <2>4, ChampionIsGreatest
  <2> QED BY <2>5 DEF IsGreatest
<1>12. refs # <<>> => refs[1] \in ToSet(refs)
  <2>1. refs # <<>> => 1 \in DOMAIN refs
    BY <1>6
  <2> QED BY <2>1 DEF ToSet
<1> QED BY <1>2, <1>6, <1>10, <1>11, <1>12

(* A quantization that was met, by its rows.                               *)
LEMMA MetQuants ==
  ASSUME NEW S, NEW rs \in Seq(S), NEW q \in ToSet(Keys(Quantized(rs), Quant))
  PROVE  \E r \in S : r \in ToSet(rs) /\ r.quant = q
<1>1. PICK g : g = QuantIn(S)
  OBVIOUS
<1>2. DOMAIN g = S
  BY <1>1 DEF QuantIn
<1>3. PICK t \in Seq(S) : t = Quantized(rs) /\ KeysMet(t, g) = KeysMet(rs, g) \ {None}
  BY <1>1, <1>2, QuantizedIs, NamedGroups
<1>4. q \in KeysMet(rs, g)
  BY <1>1, <1>3, QuantKeys
<1>5. PICK r \in ToSet(rs) : g[r] = q
  BY <1>4 DEF KeysMet
<1>6. r \in S
  BY DEF ToSet
<1> QED BY <1>1, <1>5, <1>6 DEF QuantIn

LEMMA QuantMeanOver ==
  ASSUME NEW S, GoodRows(S), NEW rs \in Seq(S), NEW q, NEW f
  PROVE  /\ QuantMean(rs, q) = MeanOver(S, rs, With(QuantIn(S), q))
         /\ AvgScore(RanIn(rs, q, f)) = MeanOver(S, rs, RanWith(S, q, f))
<1>1. QuantMean(rs, q) = AvgScore(GroupBy(rs, QuantIn(S), q))
  BY QuantBy DEF QuantMean
<1>2. AvgScore(Having(rs, With(QuantIn(S), q))) = MeanOver(S, rs, With(QuantIn(S), q))
  BY AvgScoreIsMean
<1>3. AvgScore(Having(rs, RanWith(S, q, f))) = MeanOver(S, rs, RanWith(S, q, f))
  BY AvgScoreIsMean
<1>4. RanIn(rs, q, f) = Having(rs, RanWith(S, q, f))
  BY RanInIs
<1> QED BY <1>1, <1>2, <1>3, <1>4 DEF GroupBy

PairedRuns ==
  \A r \in ToSet(rows) : Family(r) # None /\ r.quant # None /\ r.score # None /\
    \A q \in ToSet(rows) :
      Len(RanIn(rows, q.quant, Family(r))) = Len(RanIn(rows, r.quant, Family(r)))

LEMMA SensitivityHolds == ASSUME FillInv PROVE SensitivityExplainsDelta
<1>1. PICK S : S = FillRows
  OBVIOUS
<1>2. GoodRows(S) /\ rows \in Seq(S)
  BY <1>1, FillRowsAre DEF FillInv
<1>3. SUFFICES ASSUME Paired, Sensitivity(rows) # {}, NEW d \in QualityDelta(rows)
               PROVE  \E s \in Sensitivity(rows) : Le(Minus(Zero, d.delta), s.drop.value)
  BY DEF SensitivityExplainsDelta
<1>4. PICK ref : ref = Baseline(rows)
  OBVIOUS
<1>5. PICK fs : fs = {f \in Families(rows) : \E r \in ToSet(Scored(rows)) : r.quant = ref /\ Family(r) = f}
  OBVIOUS
<1>6. Comparable(rows) /\ ref \in References
      /\ Sensitivity(rows) = {[family |-> f, drop |-> Drop(rows, ref, f)] : f \in fs}
  BY <1>3, <1>4, <1>5 DEF Sensitivity
<1>7. PICK T : T = Keys(Quantized(rows), Quant)
  OBVIOUS
<1>8. PICK q \in ToSet(T) \ {ref} :
        d = [quant |-> q, score |-> ScoreIn(rows, Quant, q),
             delta |-> Minus(ScoreIn(rows, Quant, q), ScoreIn(rows, Quant, ref))]
  BY <1>3, <1>4, <1>6, <1>7 DEF QualityDelta
<1>9. PICK a \in Fraction, b \in Fraction : a = QuantMean(rows, ref) /\ b = QuantMean(rows, q)
  BY <1>2, QuantMeanIs
<1>10. Minus(Zero, d.delta) = Minus(a, b)
  <2>1. d.delta = Minus(b, a)
    BY <1>8, <1>9 DEF QuantMean, ScoreIn
  <2> QED BY <1>9, <2>1, LossIs
<1>11. ref \in ToSet(T)
  BY <1>2, <1>4, <1>6, <1>7, BaselineIs
<1>12. PICK rr \in S : rr \in ToSet(rows) /\ rr.quant = ref
  BY <1>2, <1>7, <1>11, MetQuants
<1>13. PICK rq \in S : rq \in ToSet(rows) /\ rq.quant = q
  BY <1>2, <1>7, <1>8, MetQuants
<1>13a. PairedRuns
  BY <1>3 DEF Paired, PairedRuns, RanIn
<1>14. \A r \in ToSet(rows) : r \in S /\ r.score # None /\ Family(r) # None
  <2>1. \A r \in ToSet(rows) : r \in S
    BY <1>2 DEF ToSet
  <2> QED BY <1>13a, <2>1 DEF PairedRuns
<1>15. PICK h : h = FamilyIn(S)
  OBVIOUS
<1>16. DOMAIN h = S /\ \A r \in S : h[r] = Family(r)
  BY <1>15 DEF FamilyIn, Family
<1>17. PICK F : F = {FamilyOf[r.task] : r \in S}
  OBVIOUS
<1>18. PICK ks \in Seq(F) : Distinct(ks) /\ ToSet(ks) = KeysMet(rows, h)
  BY <1>2, <1>15, <1>17, FamilyKeys
<1>19. PICK A, B : A = With(QuantIn(S), ref) /\ B = With(QuantIn(S), q)
  OBVIOUS
<1>20. ASSUME NEW f, NEW k, NEW C, C = With(QuantIn(S), k)
       PROVE  Len(RanIn(rows, k, f)) = HowOften(rows, With(h, f) \cap (C \cap HasScore(S)))
  <2>1. Len(RanIn(rows, k, f)) = HowOften(rows, RanWith(S, k, f))
    BY <1>2, RanInIs
  <2>2. PICK D, E : D = RanWith(S, k, f) /\ E = With(h, f) \cap (C \cap HasScore(S))
    OBVIOUS
  <2>3. \A r \in ToSet(rows) : r \in D <=> r \in E
    BY <1>14, <1>15, <1>20, <2>2 DEF RanWith, HasScore
  <2>4. HowOften(rows, D) = HowOften(rows, E)
    BY <2>3, TimesSame
  <2> QED BY <2>1, <2>2, <2>4
<1>21. ASSUME NEW f \in ToSet(ks)
       PROVE  HowOften(rows, With(h, f) \cap (A \cap HasScore(S)))
                = HowOften(rows, With(h, f) \cap (B \cap HasScore(S)))
  <2>1. PICK r \in ToSet(rows) : Family(r) = f
    BY <1>14, <1>16, <1>18 DEF KeysMet
  <2>2. \A x \in ToSet(rows) : Len(RanIn(rows, x.quant, f)) = Len(RanIn(rows, r.quant, f))
    BY <1>13a, <2>1 DEF PairedRuns
  <2>3. Len(RanIn(rows, ref, f)) = Len(RanIn(rows, q, f))
    BY <1>12, <1>13, <2>2
  <2> QED BY <1>19, <1>20, <2>3
<1>22. HowOften(rows, A \cap HasScore(S)) # 0
  <2>1. PICK D : D = A \cap HasScore(S)
    OBVIOUS
  <2>2. rr \in D
    BY <1>12, <1>14, <1>19, <2>1 DEF With, QuantIn, HasScore
  <2>3. PICK i \in DOMAIN rows : rows[i] \in D
    BY <1>12, <2>2 DEF ToSet
  <2>4. Having(rows, D) # <<>>
    BY <1>2, <2>3, HavingNone
  <2>5. Having(rows, D) \in Seq(S \cap D) /\ Len(Having(rows, D)) = HowOften(rows, D)
    BY <1>2, HavingIsList
  <2> QED BY <2>1, <2>4, <2>5
<1>23. PICK f \in ToSet(ks) :
         /\ HowOften(rows, With(h, f) \cap (A \cap HasScore(S))) # 0
         /\ Le(Minus(MeanOver(S, rows, A), MeanOver(S, rows, B)),
               Minus(MeanOver(S, rows, A \cap With(h, f)), MeanOver(S, rows, B \cap With(h, f))))
  BY <1>2, <1>16, <1>18, <1>21, <1>22, SomeGroupDrops
<1>24. MeanOver(S, rows, A) = a /\ MeanOver(S, rows, B) = b
  BY <1>2, <1>9, <1>19, QuantMeanOver
<1>25. /\ MeanOver(S, rows, A \cap With(h, f)) = AvgScore(RanIn(rows, ref, f))
       /\ MeanOver(S, rows, B \cap With(h, f)) = AvgScore(RanIn(rows, q, f))
  <2>1. RanWith(S, ref, f) = A \cap With(h, f) /\ RanWith(S, q, f) = B \cap With(h, f)
    BY <1>15, <1>19 DEF RanWith
  <2>2. /\ AvgScore(RanIn(rows, ref, f)) = MeanOver(S, rows, RanWith(S, ref, f))
        /\ AvgScore(RanIn(rows, q, f)) = MeanOver(S, rows, RanWith(S, q, f))
    BY <1>2, QuantMeanOver
  <2> QED BY <2>1, <2>2
<1>26. RanIn(rows, q, f) # <<>> /\ RanIn(rows, ref, f) # <<>>
  <2>1. Len(RanIn(rows, ref, f)) # 0 /\ Len(RanIn(rows, q, f)) # 0
    BY <1>19, <1>20, <1>21, <1>23
  <2> QED BY <2>1
<1>27. f \in fs
  <2>1. PICK C : C = RanWith(S, ref, f)
    OBVIOUS
  <2>2. Having(rows, C) # <<>>
    BY <1>2, <1>26, <2>1, RanInIs
  <2>3. PICK i \in DOMAIN rows : rows[i] \in C
    BY <1>2, <2>2, HavingNone
  <2>4. PICK r \in S : r = rows[i] /\ r \in ToSet(rows)
    BY <1>2 DEF ToSet
  <2>5. r.quant = ref /\ Family(r) = f
    BY <1>15, <1>16, <2>1, <2>3, <2>4 DEF RanWith, With, QuantIn
  <2>6. r \in ToSet(Scored(rows))
    BY <1>2, <1>14, <2>4, ScoredAre
  <2>7. f \in Families(rows)
    <3>1. ToSet(Keys(rows, Family)) = KeysMet(rows, FamilyIn(S))
      BY <1>2, FamilyKeys
    <3>2. f # None
      BY <1>14, <2>4, <2>5
    <3> QED BY <1>15, <1>18, <3>1, <3>2 DEF Families
  <2> QED BY <1>5, <2>5, <2>6, <2>7
<1>28. Le(Minus(AvgScore(RanIn(rows, ref, f)), AvgScore(RanIn(rows, q, f))), Drop(rows, ref, f).value)
  BY <1>2, <1>7, <1>8, <1>26, DropIs
<1>29. PICK m \in Fraction, n \in Fraction :
         m = AvgScore(RanIn(rows, ref, f)) /\ n = AvgScore(RanIn(rows, q, f))
  <2>1. \A k : RanIn(rows, k, f) \in Seq(S)
    BY <1>2, RanInIs
  <2> QED BY <1>2, <2>1, AvgScoreIs DEF Average
<1>30. Drop(rows, ref, f).value \in Fraction
  BY <1>2, <1>7, <1>8, <1>26, DropIs
<1>31. Le(Minus(a, b), Minus(m, n))
  BY <1>23, <1>24, <1>25, <1>29
<1>32. Le(Minus(a, b), Drop(rows, ref, f).value)
  BY <1>9, <1>28, <1>29, <1>30, <1>31, MinusFraction, LeTransitive
<1>33. PICK s : s = [family |-> f, drop |-> Drop(rows, ref, f)]
  OBVIOUS
<1>34. s \in Sensitivity(rows) /\ s.drop = Drop(rows, ref, f)
  BY <1>6, <1>27, <1>33
<1> QED BY <1>10, <1>32, <1>34

-----------------------------------------------------------------------------
(* Where every quantization ran as much of each family, a loss that the    *)
(* quantization report prints shows in its sensitivity table:              *)
(* generate_quantization_report.                                           *)
THEOREM LossesAreExplained == Spec => []SensitivityExplainsDelta
BY SensitivityHolds, FillInvHolds, PTL

-----------------------------------------------------------------------------
(* The registry: baselines are added once, and candidates are those added  *)
(* last under their names.                                                 *)
LastOnes(q) == {i \in DOMAIN q : \A j \in DOMAIN q : j > i => q[j].name # q[i].name}
Baselines == {c.baseline : c \in Specified}
RegistryInv ==
  /\ baselines \in Seq(Baselines) /\ Distinct(baselines)
  /\ calls \in Seq(Specified) /\ candidates = Part(calls, LastOnes(calls))

LEMMA LastOnesAre ==
  ASSUME NEW S, NEW q \in Seq(S), NEW L, L = LastOnes(q)
  PROVE  /\ IsFiniteSet(L) /\ L \subseteq Int /\ L \subseteq DOMAIN q /\ DOMAIN q = 1..Len(q)
         /\ Part(q, L) \in Seq(S)
<1>1. L \subseteq DOMAIN q /\ DOMAIN q = 1..Len(q) /\ Len(q) \in Nat
  BY DEF LastOnes
<1>2. IsFiniteSet(L) /\ L \subseteq Int
  <2>1. IsFiniteSet(DOMAIN q)
    BY <1>1, FS_Interval
  <2> QED BY <1>1, <2>1, FS_Subset
<1>3. \A i \in L : q[i] \in S
  BY <1>1
<1> QED BY <1>1, <1>2, <1>3, PartIsList

LEMMA AppendLastOnes ==
  ASSUME NEW S, NEW q \in Seq(S), NEW c \in S
  PROVE  LastOnes(Append(q, c)) = {i \in LastOnes(q) : q[i].name # c.name} \cup {Len(q) + 1}
<1> PICK n \in Nat : n = Len(q)
  OBVIOUS
<1> PICK r : r = Append(q, c)
  OBVIOUS
<1>1. /\ r \in Seq(S) /\ Len(r) = n + 1 /\ r[n + 1] = c /\ \A i \in 1..n : r[i] = q[i]
      /\ DOMAIN r = 1..n+1 /\ DOMAIN q = 1..n
  OBVIOUS
<1>2. ASSUME NEW i \in 1..n+1
      PROVE  i \in LastOnes(r) <=> i = n + 1 \/ (i \in LastOnes(q) /\ q[i].name # c.name)
  <2>1. CASE i = n + 1
    BY <1>1, <2>1 DEF LastOnes
  <2>2. CASE i # n + 1
    <3>1. i \in 1..n /\ n + 1 \in 1..n+1 /\ n + 1 > i
      BY <2>2
    <3>2. i \in LastOnes(r) <=> \A j \in 1..n+1 : j > i => r[j].name # r[i].name
      BY <1>1 DEF LastOnes
    <3>3. i \in LastOnes(q) <=> \A j \in 1..n : j > i => q[j].name # q[i].name
      BY <1>1, <3>1 DEF LastOnes
    <3>4. \A j \in 1..n+1 : j \in 1..n \/ j = n + 1
      OBVIOUS
    <3>5. (\A j \in 1..n+1 : j > i => r[j].name # r[i].name)
            <=> (\A j \in 1..n : j > i => q[j].name # q[i].name) /\ c.name # q[i].name
      BY <1>1, <3>1, <3>4
    <3> QED BY <2>2, <3>2, <3>3, <3>5
  <2> QED BY <2>1, <2>2
<1>3. LastOnes(r) \subseteq 1..n+1 /\ LastOnes(q) \subseteq 1..n
  BY <1>1 DEF LastOnes
<1>4. 1..n \subseteq 1..n+1 /\ n + 1 \in 1..n+1
  OBVIOUS
<1>5. LastOnes(r) \subseteq {i \in LastOnes(q) : q[i].name # c.name} \cup {n + 1}
  BY <1>2, <1>3
<1>6. {i \in LastOnes(q) : q[i].name # c.name} \cup {n + 1} \subseteq LastOnes(r)
  BY <1>2, <1>3, <1>4
<1> QED BY <1>1, <1>5, <1>6

(* Adding a candidate takes the place of the one of its name.              *)
LEMMA AddedIs ==
  ASSUME NEW S, NEW q \in Seq(S), NEW c \in S, NEW L, L = LastOnes(q), NEW cs, cs = Part(q, L),
         NEW r, r = Append(q, c)
  PROVE  Added(cs, c) = Part(r, LastOnes(r))
<1>1. PICK n \in Nat : n = Len(q)
  OBVIOUS
<1>2. /\ IsFiniteSet(L) /\ L \subseteq Int /\ L \subseteq DOMAIN q /\ DOMAIN q = 1..n
      /\ \A i \in L : q[i] \in S
  <2>1. IsFiniteSet(L) /\ L \subseteq Int /\ L \subseteq DOMAIN q
    BY LastOnesAre
  <2>2. DOMAIN q = 1..n /\ \A i \in 1..n : q[i] \in S
    BY <1>1
  <2> QED BY <2>1, <2>2
<1>3. PICK K : K = {i \in L : q[i].name # c.name}
  OBVIOUS
<1>4. /\ r \in Seq(S) /\ Len(r) = n + 1 /\ r[n + 1] = c /\ \A i \in 1..n : r[i] = q[i]
      /\ LastOnes(r) = K \cup {n + 1}
  <2>1. /\ r \in Seq(S) /\ Len(r) = n + 1 /\ r[n + 1] = c /\ \A i \in 1..n : r[i] = q[i]
    BY <1>1
  <2>2. LastOnes(r) = {i \in LastOnes(q) : q[i].name # c.name} \cup {n + 1}
    BY <1>1, AppendLastOnes
  <2> QED BY <1>3, <2>1, <2>2
<1>5. /\ IsFiniteSet(K) /\ K \subseteq Int /\ \A i \in K : i < n + 1
      /\ \A i \in K : r[i] \in S
      /\ \A i \in K : r[i] = q[i]
  <2>1. IsFiniteSet(K) /\ K \subseteq L
    BY <1>2, <1>3, FS_Subset
  <2>2. \A i \in K : i \in 1..n
    BY <1>2, <2>1
  <2> QED BY <1>2, <1>4, <2>1, <2>2
<1>6. Part(r, K \cup {n + 1}) = Append(Part(r, K), r[n + 1])
  <2>1. n + 1 \in Int /\ r[n + 1] \in S
    BY <1>4
  <2>2. PICK m \in Int : m = n + 1
    OBVIOUS
  <2>3. Follows(r, K, m, S)
    BY <1>5, <2>1, <2>2 DEF Follows
  <2>4. PICK J : J = K \cup {m}
    OBVIOUS
  <2>5. Part(r, J) = Append(Part(r, K), r[m])
    BY ONLY <2>3, <2>4, PartWithLast
  <2> QED BY <2>2, <2>4, <2>5
<1>7. Part(r, K) = Part(q, K)
  BY <1>5, PartSame
<1>8. PICK m \in Nat : m = Cardinality(L) /\ m = Len(cs) /\ cs = [k \in 1..m |-> q[Nth(L, k)]]
  BY <1>2, NthOfEach DEF Part
<1>9. PICK M : M = {k \in 1..m : cs[k].name = c.name}
  OBVIOUS
<1>10. CASE M = {}
  <2>1. K = L
    <3>1. ASSUME NEW i \in L PROVE q[i].name # c.name
      <4>1. PICK k \in 1..m : Nth(L, k) = i
        BY <1>2, <1>8, NthOfEach
      <4>2. cs[k] = q[i]
        BY <1>8, <4>1
      <4> QED BY <1>9, <1>10, <4>1, <4>2
    <3> QED BY <1>3, <3>1
  <2>2. RemoveFirstMatch(cs, LAMBDA d : d.name = c.name) = cs
    BY <1>8, <1>9, <1>10 DEF RemoveFirstMatch
  <2> QED BY <1>4, <1>6, <1>7, <2>1, <2>2 DEF Added
<1>11. CASE M # {}
  <2>1. PICK k \in 1..m : k \in M
    BY <1>9, <1>11
  <2>2. cs[k] = q[Nth(L, k)] /\ Nth(L, k) \in L /\ q[Nth(L, k)].name = c.name
    BY <1>2, <1>8, <1>9, <2>1, NthOfEach
  <2>3. \A i, j \in L : q[i].name = q[j].name => i = j
    <3> SUFFICES ASSUME NEW i \in L, NEW j \in L, q[i].name = q[j].name, i # j PROVE FALSE
      OBVIOUS
    <3>1. i \in Int /\ j \in Int /\ i \in DOMAIN q /\ j \in DOMAIN q
      BY <1>2
    <3>2. j > i \/ i > j
      BY <3>1
    <3> QED BY <3>1, <3>2 DEF LastOnes
  <2>4. M = {k}
    <3>1. ASSUME NEW l \in M PROVE l = k
      <4>1. l \in 1..m /\ cs[l] = q[Nth(L, l)] /\ Nth(L, l) \in L /\ q[Nth(L, l)].name = c.name
        BY <1>2, <1>8, <1>9, NthOfEach
      <4>2. Nth(L, l) = Nth(L, k)
        BY <2>2, <2>3, <4>1
      <4> QED BY <1>2, <1>8, <4>1, <4>2, NthOfEach
    <3> QED BY <2>1, <3>1
  <2>5. SelectInSeq(cs, LAMBDA d : d.name = c.name) = k
    <3>1. SelectInSeq(cs, LAMBDA d : d.name = c.name) = Min(M)
      BY <1>8, <1>9, <1>11 DEF SelectInSeq
    <3>2. Min(M) = k
      BY <2>4 DEF Min
    <3> QED BY <3>1, <3>2
  <2>6. RemoveFirstMatch(cs, LAMBDA d : d.name = c.name) = RemoveAt(cs, k)
    <3>1. \E i \in 1..Len(cs) : cs[i].name = c.name
      BY <1>8, <1>9, <2>1
    <3> QED BY <2>5, <3>1 DEF RemoveFirstMatch
  <2>7. K = L \ {Nth(L, k)}
    BY <1>3, <2>2, <2>3
  <2>8. Part(q, K) = RemoveAt(cs, k)
    <3>1. k \in 1..Cardinality(L) /\ Draws(q, L, S)
      BY <1>2, <1>8 DEF Draws
    <3>2. Part(q, L \ {Nth(L, k)}) = RemoveAt(Part(q, L), k)
      BY <1>2, <3>1, PartWithout
    <3> QED BY <2>7, <3>2
  <2> QED BY <1>4, <1>6, <1>7, <2>6, <2>8 DEF Added
<1> QED BY <1>10, <1>11

(* While rows are recorded the registry is empty, and what is done to the  *)
(* registry leaves the rows alone.                                         *)
LEMMA OptFillInv == OptSpec => []FillInv
<1>1. OptInit => FillInv
  BY DEF OptInit, Init, FillInv
<1>2. FillInv /\ [OptNext]_<<vars, registry>> => FillInv'
  <2> SUFFICES ASSUME FillInv, [OptNext]_<<vars, registry>> PROVE FillInv'
    OBVIOUS
  <2>1. CASE UNCHANGED vars
    BY <2>1 DEF vars, FillInv, FillRows
  <2>2. CASE Record
    <3>1. PICK r \in Fills[fill].rows : rows' = <<r>> \o rows
      BY <2>2 DEF Record
    <3>2. r \in FillRows
      BY DEF FillInv, FillRows
    <3>3. <<r>> \o rows \in Seq(FillRows)
      <4>1. rows \in Seq(FillRows)
        BY DEF FillInv
      <4> QED BY <3>2, <4>1
    <3>4. fill' = fill /\ prior' = prior
      BY <2>2 DEF Record
    <3> QED BY <3>1, <3>3, <3>4 DEF FillInv, FillRows
  <2>3. UNCHANGED vars \/ Record
    BY DEF OptNext, Recorded, AddBaseline, AddCandidate, Clear
  <2> QED BY <2>1, <2>2, <2>3
<1> QED BY <1>1, <1>2, PTL DEF OptSpec

LEMMA NothingAdded == Part(<<>>, LastOnes(<<>>)) = <<>>
<1>1. LastOnes(<<>>) = {}
  BY DEF LastOnes
<1>2. Cardinality({}) = 0
  BY FS_EmptySet
<1> QED BY <1>1, <1>2, SMTT(30) DEF Part

LEMMA BaselineAdded ==
  ASSUME NEW S, NEW q \in Seq(S), Distinct(q), NEW s \in S,
         NEW r, r = IF Contains(q, s) THEN q ELSE Append(q, s)
  PROVE  r \in Seq(S) /\ Distinct(r)
<1>1. CASE Contains(q, s)
  BY <1>1
<1>2. CASE ~Contains(q, s)
  <2>1. \A i \in 1..Len(q) : q[i] # s
    BY <1>2 DEF Contains
  <2>2. /\ r \in Seq(S) /\ DOMAIN r = 1..Len(q)+1 /\ r[Len(q) + 1] = s
        /\ \A i \in 1..Len(q) : r[i] = q[i]
    BY <1>2
  <2>3. \A i \in 1..Len(q)+1 : i \in 1..Len(q) \/ i = Len(q) + 1
    OBVIOUS
  <2>4. ASSUME NEW i \in DOMAIN r, NEW j \in DOMAIN r, r[i] = r[j] PROVE i = j
    <3>1. CASE i \in 1..Len(q) /\ j \in 1..Len(q)
      BY <2>2, <2>4, <3>1 DEF Distinct
    <3>2. CASE i = Len(q) + 1 /\ j = Len(q) + 1
      BY <3>2
    <3>3. CASE i \in 1..Len(q) /\ j = Len(q) + 1
      BY <2>1, <2>2, <2>4, <3>3
    <3>4. CASE i = Len(q) + 1 /\ j \in 1..Len(q)
      BY <2>1, <2>2, <2>4, <3>4
    <3> QED BY <2>2, <2>3, <3>1, <3>2, <3>3, <3>4
  <2> QED BY <2>2, <2>4 DEF Distinct
<1> QED BY <1>1, <1>2

LEMMA RegistryHolds == OptSpec => []RegistryInv
<1>0. <<>> \in Seq(Baselines) /\ <<>> \in Seq(Specified) /\ Distinct(<<>>)
  BY DEF Distinct
<1>1. OptInit => RegistryInv
  BY <1>0, NothingAdded DEF OptInit, RegistryInv
<1>2. RegistryInv /\ [OptNext]_<<vars, registry>> => RegistryInv'
  <2> SUFFICES ASSUME RegistryInv, [OptNext]_<<vars, registry>> PROVE RegistryInv'
    OBVIOUS
  <2>0. /\ baselines \in Seq(Baselines) /\ Distinct(baselines)
        /\ calls \in Seq(Specified) /\ candidates = Part(calls, LastOnes(calls))
    BY DEF RegistryInv
  <2>1. CASE UNCHANGED registry
    <3>1. baselines' = baselines /\ candidates' = candidates /\ calls' = calls
      BY <2>1 DEF registry
    <3>2. calls' \in Seq(Specified) /\ candidates' = Part(calls', LastOnes(calls'))
      BY <2>0, <3>1
    <3>3. baselines' \in Seq(Baselines) /\ Distinct(baselines')
      BY <2>0, <3>1
    <3> QED BY <3>2, <3>3 DEF RegistryInv, Baselines
  <2>2. CASE AddBaseline
    <3>1. PICK s \in Baselines : baselines' = IF Contains(baselines, s) THEN baselines ELSE Append(baselines, s)
      BY <2>2 DEF AddBaseline, Baselines
    <3>2. baselines' \in Seq(Baselines) /\ Distinct(baselines')
      BY <2>0, <3>1, BaselineAdded
    <3>3. candidates' = candidates /\ calls' = calls
      BY <2>2 DEF AddBaseline
    <3>4. calls' \in Seq(Specified) /\ candidates' = Part(calls', LastOnes(calls'))
      BY <2>0, <3>3
    <3> QED BY <3>2, <3>4 DEF RegistryInv, Baselines
  <2>3. CASE AddCandidate
    <3>1. PICK c \in Specified : candidates' = Added(candidates, c) /\ calls' = Append(calls, c)
      BY <2>3 DEF AddCandidate
    <3>2. calls' \in Seq(Specified)
      BY <2>0, <3>1
    <3>3. candidates' = Part(calls', LastOnes(calls'))
      BY <2>0, <3>1, AddedIs
    <3>4. baselines' = baselines
      BY <2>3 DEF AddCandidate
    <3> QED BY <2>0, <3>2, <3>3, <3>4 DEF RegistryInv, Baselines
  <2>4. CASE Clear
    BY <1>0, <2>4, NothingAdded DEF Clear, RegistryInv, Baselines
  <2>5. CASE Recorded
    BY <2>1, <2>5 DEF Recorded
  <2> QED BY <2>1, <2>2, <2>3, <2>4, <2>5 DEF OptNext
<1> QED BY <1>1, <1>2, PTL DEF OptSpec

LEMMA LastWins == ASSUME RegistryInv PROVE LastCandidateWins
<1>1. calls \in Seq(Specified) /\ candidates = Part(calls, LastOnes(calls))
  BY DEF RegistryInv
<1>2. PICK L : L = LastOnes(calls)
  OBVIOUS
<1>3. IsFiniteSet(L) /\ L \subseteq Int /\ Cardinality(L) \in Nat
  BY <1>1, <1>2, LastOnesAre, NthOfEach
<1>4. candidates = [n \in 1..Cardinality(L) |-> calls[Nth(L, n)]]
  BY <1>1, <1>2 DEF Part
<1>5. Len(candidates) = Cardinality(L)
  BY <1>3, <1>4
<1>6. ASSUME NEW i \in L PROVE candidates[Cardinality({j \in L : j <= i})] = calls[i]
  <2>1. PICK n : n = Cardinality({j \in L : j <= i})
    OBVIOUS
  <2>2. n \in 1..Cardinality(L) /\ Nth(L, n) = i
    BY <1>3, <2>1, NthIs
  <2> QED BY <1>4, <2>1, <2>2
<1> QED BY <1>2, <1>5, <1>6 DEF LastCandidateWins, LastOnes

(* What the registry holds: records of specifications, one for each name.  *)
LEMMA CandidatesAreOnce ==
  ASSUME RegistryInv
  PROVE  /\ candidates \in Seq(Specified) /\ baselines \in Seq(Baselines) /\ Distinct(baselines)
         /\ \A i, j \in DOMAIN candidates : candidates[i].name = candidates[j].name => i = j
<1>1. calls \in Seq(Specified) /\ candidates = Part(calls, LastOnes(calls))
  BY DEF RegistryInv
<1>2. PICK L : L = LastOnes(calls)
  OBVIOUS
<1>3. IsFiniteSet(L) /\ L \subseteq Int /\ L \subseteq DOMAIN calls
  BY <1>1, <1>2, LastOnesAre
<1>4. candidates = [n \in 1..Cardinality(L) |-> calls[Nth(L, n)]]
  BY <1>1, <1>2 DEF Part
<1>5. candidates \in Seq(Specified)
  BY <1>1, LastOnesAre
<1>6. \A i, j \in L : calls[i].name = calls[j].name => i = j
  <2> SUFFICES ASSUME NEW i \in L, NEW j \in L, calls[i].name = calls[j].name, i # j PROVE FALSE
    OBVIOUS
  <2>1. i \in Int /\ j \in Int /\ i \in DOMAIN calls /\ j \in DOMAIN calls
    BY <1>3
  <2>2. j > i \/ i > j
    BY <2>1
  <2> QED BY <1>2, <2>1, <2>2 DEF LastOnes
<1>7. ASSUME NEW i \in DOMAIN candidates, NEW j \in DOMAIN candidates,
             candidates[i].name = candidates[j].name
      PROVE  i = j
  <2>1. i \in 1..Cardinality(L) /\ j \in 1..Cardinality(L)
    BY <1>4
  <2>2. Nth(L, i) \in L /\ Nth(L, j) \in L
    BY <1>3, <2>1, NthOfEach
  <2>3. candidates[i] = calls[Nth(L, i)] /\ candidates[j] = calls[Nth(L, j)]
    BY <1>4, <2>1
  <2>4. Nth(L, i) = Nth(L, j)
    BY <1>6, <1>7, <2>2, <2>3
  <2> QED BY <1>3, <2>1, <2>4, NthOfEach
<1>8. baselines \in Seq(Baselines) /\ Distinct(baselines)
  BY DEF RegistryInv
<1> QED BY <1>5, <1>7, <1>8

-----------------------------------------------------------------------------
(* The ranking of the styles: every style with scored rows, once, by       *)
(* falling averages.                                                       *)
StyleMean(rs, k) == AvgScore(Group(rs, Style, k))
ScoredStyles(rs) == {k \in {r.style : r \in ToSet(rs)} : k # None /\ HasStyle(rs, k)}
StyleLine(rs, k) ==
  [style |-> k, score |-> StyleMean(rs, k), runs |-> Len(Scored(Group(rs, Style, k)))]
StyleLines(S) == [style : {r.style : r \in S}, score : Fraction, runs : Nat]

LEMMA StyleGroups ==
  ASSUME NEW S, GoodRows(S), NEW rs \in Seq(S), NEW k
  PROVE  /\ Group(rs, Style, k) \in Seq(S) /\ Scored(Group(rs, Style, k)) \in Seq(HasScore(S))
         /\ HasStyle(rs, k) <=> \E r \in ToSet(rs) : r.style = k /\ r.score # None
         /\ Average(StyleMean(rs, k)) /\ (~HasStyle(rs, k) => StyleMean(rs, k) = Zero)
<1>0. PICK g : g = StyleIn(S)
  OBVIOUS
<1>1. g = StyleIn(S) /\ DOMAIN g = S
  BY <1>0 DEF StyleIn
<1>2. PICK t \in Seq(S) : t = Group(rs, Style, k) /\ ToSet(t) = {r \in ToSet(rs) : r.style = k}
  <2>1. Group(rs, Style, k) = GroupBy(rs, g, k)
    BY <1>1, StyleBy
  <2>2. GroupBy(rs, g, k) \in Seq(S) /\ ToSet(GroupBy(rs, g, k)) = RowsWith(rs, g, k)
    BY <1>1, GroupByIs
  <2>3. RowsWith(rs, g, k) = {r \in ToSet(rs) : r.style = k}
    <3>1. \A r \in ToSet(rs) : r \in S
      BY DEF ToSet
    <3> QED BY <1>1, <3>1 DEF RowsWith, StyleIn
  <2> QED BY <2>1, <2>2, <2>3
<1>3. PICK u \in Seq(HasScore(S)) : u = Scored(t) /\ ToSet(u) = {r \in ToSet(t) : r.score # None}
  BY ScoredAre
<1>4. u # <<>> <=> ToSet(u) # {}
  BY NoMembers
<1>5. HasStyle(rs, k) <=> \E r \in ToSet(rs) : r.style = k /\ r.score # None
  BY <1>2, <1>3, <1>4 DEF HasStyle
<1>6. Average(AvgScore(t)) /\ (u = <<>> => AvgScore(t) = Zero)
  BY <1>3, AvgScoreIs, NotScoredIsZero
<1> QED BY <1>2, <1>3, <1>5, <1>6 DEF StyleMean, HasStyle

LEMMA StylesMet ==
  ASSUME NEW S, GoodRows(S), NEW rs \in Seq(S), NEW u, u = Scored(Styled(rs)), NEW ks, ks = Keys(u, Style)
  PROVE  ks \in Seq({r.style : r \in S}) /\ Distinct(ks) /\ ToSet(ks) = ScoredStyles(rs)
<1>1. PICK t \in Seq(S) : t = Styled(rs) /\ ToSet(t) = {r \in ToSet(rs) : r.style # None}
  <2>0. PICK g : g = StyleIn(S)
    OBVIOUS
  <2>1. g = StyleIn(S) /\ DOMAIN g = S
    BY <2>0 DEF StyleIn
  <2>2. Having(rs, Named(S, g)) \in Seq(S) /\ ToSet(Having(rs, Named(S, g))) = {r \in ToSet(rs) : g[r] # None}
    BY <2>1, NamedGroups
  <2>3. \A r \in ToSet(rs) : r \in S
    BY DEF ToSet
  <2>4. {r \in ToSet(rs) : g[r] # None} = {r \in ToSet(rs) : r.style # None}
    BY <2>1, <2>3 DEF StyleIn
  <2> QED BY <2>1, <2>2, <2>4, StyledIs
<1>2. u \in Seq(S) /\ ToSet(u) = {r \in ToSet(t) : r.score # None}
  <2>1. u \in Seq(HasScore(S)) /\ ToSet(u) = {r \in ToSet(t) : r.score # None}
    BY <1>1, ScoredAre
  <2>2. HasScore(S) \subseteq S
    BY DEF HasScore
  <2> QED BY <2>1, <2>2
<1>3. ks \in Seq({r.style : r \in S}) /\ Distinct(ks) /\ ToSet(ks) = KeysMet(u, StyleIn(S))
  BY <1>2, StyleKeys
<1>4. \A r \in ToSet(u) : r \in S
  BY <1>2 DEF ToSet
<1>5. KeysMet(u, StyleIn(S)) = {r.style : r \in ToSet(u)}
  BY <1>4 DEF KeysMet, StyleIn
<1>6. \A k : HasStyle(rs, k) <=> \E r \in ToSet(rs) : r.style = k /\ r.score # None
  BY StyleGroups
<1>7. \A k : k \in ScoredStyles(rs) <=> \E r \in ToSet(u) : k = r.style
  BY <1>1, <1>2, <1>6 DEF ScoredStyles
<1> QED BY <1>3, <1>5, <1>7

AreAverages(t, rs, S) ==
  /\ t \in Seq(StyleLines(S))
  /\ \A i \in DOMAIN t : t[i] = StyleLine(rs, t[i].style) /\ t[i].style \in ScoredStyles(rs)
  /\ \A i, j \in DOMAIN t : i <= j => Le(t[j].score, t[i].score)
  /\ \A i, j \in DOMAIN t : t[i].style = t[j].style => i = j
  /\ \A k \in ScoredStyles(rs) : \E i \in DOMAIN t : t[i].style = k

LEMMA AveragesAre ==
  ASSUME NEW S, GoodRows(S), NEW rs \in Seq(S), NEW t, t = StyleAverages(rs)
  PROVE  AreAverages(t, rs, S)
<1>1. PICK ks \in Seq({r.style : r \in S}) :
        ks = Keys(Scored(Styled(rs)), Style) /\ Distinct(ks) /\ ToSet(ks) = ScoredStyles(rs)
  BY StylesMet
<1>2. PICK es : es = [i \in DOMAIN ks |-> StyleLine(rs, ks[i])]
  OBVIOUS
<1>3. PICK v : v = ScoresAt(es)
  OBVIOUS
<1>4. \A k : StyleMean(rs, k) \in Fraction /\ Len(Scored(Group(rs, Style, k))) \in Nat
  <2> SUFFICES ASSUME NEW k
               PROVE  StyleMean(rs, k) \in Fraction /\ Len(Scored(Group(rs, Style, k))) \in Nat
    OBVIOUS
  <2>1. Average(StyleMean(rs, k)) /\ Scored(Group(rs, Style, k)) \in Seq(HasScore(S))
    BY StyleGroups
  <2> QED BY <2>1 DEF Average
<1>5. /\ es \in Seq(StyleLines(S)) /\ Len(es) = Len(ks) /\ DOMAIN es = DOMAIN ks
      /\ \A i \in DOMAIN ks : es[i] = StyleLine(rs, ks[i])
  <2>1. \A i \in DOMAIN ks : StyleLine(rs, ks[i]) \in StyleLines(S)
    <3> SUFFICES ASSUME NEW i \in DOMAIN ks PROVE StyleLine(rs, ks[i]) \in StyleLines(S)
      OBVIOUS
    <3>1. ks[i] \in {r.style : r \in S}
      OBVIOUS
    <3> QED BY <1>4, <3>1 DEF StyleLine, StyleLines
  <2>2. DOMAIN ks = 1..Len(ks) /\ Len(ks) \in Nat
    OBVIOUS
  <2> QED BY <1>2, <2>1, <2>2
<1>6. \A i \in DOMAIN es : v[i] = StyleMean(rs, ks[i]) /\ es[i].style = ks[i]
  BY <1>3, <1>5 DEF ScoresAt, StyleLine
<1>7. v \in [DOMAIN es -> Fraction]
  BY <1>3, <1>4, <1>6 DEF ScoresAt
<1>8. t = RankOrder(es, Standing(v))
  <2>1. es = [i \in DOMAIN ks |-> [style |-> ks[i], score |-> ScoreIn(rs, Style, ks[i]),
                                   runs |-> Len(Scored(Group(rs, Style, ks[i])))]]
    BY <1>2 DEF StyleLine, StyleMean, ScoreIn
  <2>2. t = Descending(es, LAMBDA s : s.score)
    BY <1>1, <2>1 DEF StyleAverages
  <2> QED BY <1>3, <2>2 DEF Descending, Standing, ScoresAt
<1>9. t \in Seq(StyleLines(S)) /\ Len(t) = Len(es) /\ \E at : Arranges(at, t, es, Falling(v))
  BY <1>5, <1>7, <1>8, StandingArranges
<1>10. PICK at : Arranges(at, t, es, Falling(v))
  BY <1>9
<1>11. DOMAIN t = DOMAIN es
  BY <1>5, <1>9
<1>12. ASSUME NEW i \in DOMAIN t
       PROVE  /\ at[i] \in DOMAIN ks /\ t[i] = StyleLine(rs, ks[at[i]]) /\ t[i].style = ks[at[i]]
              /\ t[i].score = v[at[i]]
  <2>1. at[i] \in DOMAIN es /\ t[i] = es[at[i]]
    BY <1>10, <1>11 DEF Arranges
  <2> QED BY <1>3, <1>5, <1>6, <2>1 DEF ScoresAt
<1>13. \A i \in DOMAIN t : t[i] = StyleLine(rs, t[i].style) /\ t[i].style \in ScoredStyles(rs)
  <2>1. \A i \in DOMAIN ks : ks[i] \in ScoredStyles(rs)
    BY <1>1 DEF ToSet
  <2> QED BY <1>12, <2>1
<1>14. \A i, j \in DOMAIN t : i <= j => Le(t[j].score, t[i].score)
  <2>1. \A i, j \in DOMAIN es : i <= j => Le(v[at[j]], v[at[i]])
    BY <1>5, <1>7, <1>10, ArrangesFall
  <2> QED BY <1>11, <1>12, <2>1
<1>15. ASSUME NEW i \in DOMAIN t, NEW j \in DOMAIN t, t[i].style = t[j].style PROVE i = j
  <2>1. at[i] = at[j]
    BY <1>1, <1>12, <1>15 DEF Distinct
  <2> QED BY <1>10, <1>11, <2>1 DEF Arranges
<1>16. ASSUME NEW k \in ScoredStyles(rs) PROVE \E i \in DOMAIN t : t[i].style = k
  <2>1. PICK l \in DOMAIN ks : ks[l] = k
    BY <1>1 DEF ToSet
  <2>2. PICK i \in DOMAIN es : at[i] = l
    BY <1>5, <1>10, <2>1 DEF Arranges
  <2> QED BY <1>11, <1>12, <2>1, <2>2
<1> QED BY <1>9, <1>13, <1>14, <1>15, <1>16 DEF AreAverages

(* Nineteen twentieths of a value.                                         *)
Tied == [num |-> 95, den |-> 100]

LEMMA TiedIs ==
  ASSUME NEW a \in Fraction, NEW b \in Fraction
  PROVE  /\ Le(Zero, a) /\ ~Le(Times(a, Tied), b) => Lt(b, a)
         /\ Le(Times(a, Tied), b) => Le(Times(Minus(a, b), Whole(20)), a)
<1>1. PICK n \in Int, d \in Nat \ {0} : n = a.num /\ d = a.den
  BY DEF Fraction
<1>2. PICK m \in Int, e \in Nat \ {0} : m = b.num /\ e = b.den
  BY DEF Fraction
<1>3. PICK x \in Int : x = n * e
  OBVIOUS
<1>4. PICK y \in Int : y = m * d
  OBVIOUS
<1>5. (n * 95) * e = 95 * x /\ m * (d * 100) = 100 * y
  BY <1>3, <1>4
<1>6. Le(Times(a, Tied), b) <=> 95 * x <= 100 * y
  BY <1>1, <1>2, <1>5 DEF Le, Times, Tied
<1>7. Lt(b, a) <=> y < x
  BY <1>1, <1>2, <1>3, <1>4 DEF Lt
<1>8. Le(Zero, a) => n \in Nat
  BY <1>1 DEF Le, Zero
<1>9. Le(Zero, a) => x >= 0
  BY <1>3, <1>8
<1>10. ASSUME 95 * x <= 100 * y PROVE Le(Times(Minus(a, b), Whole(20)), a)
  <2>1. (x - y) * 20 <= x
    BY <1>10
  <2>2. ((x - y) * 20) * d <= x * d
    <3>1. \A i, j \in Int : i <= j => i * d <= j * d
      OBVIOUS
    <3> QED BY <2>1, <3>1
  <2>3. x * d = n * ((d * e) * 1)
    BY <1>3
  <2> QED BY <1>1, <1>2, <1>3, <1>4, <2>2, <2>3 DEF Le, Times, Minus, Whole
<1>11. Le(Zero, a) /\ ~(95 * x <= 100 * y) => y < x
  BY <1>9
<1> QED BY <1>6, <1>7, <1>10, <1>11

LEMMA TiedGrows ==
  ASSUME NEW a \in Fraction, NEW b \in Fraction, NEW c \in Fraction,
         Le(a, b), Le(Times(b, Tied), c)
  PROVE  Le(Times(a, Tied), c)
<1>1. PICK n \in Int, d \in Nat \ {0} : n = a.num /\ d = a.den
  BY DEF Fraction
<1>2. PICK m \in Int, e \in Nat \ {0} : m = b.num /\ e = b.den
  BY DEF Fraction
<1>3. PICK k \in Int, f \in Nat \ {0} : k = c.num /\ f = c.den
  BY DEF Fraction
<1>4. n * e <= m * d /\ (m * 95) * f <= k * (e * 100)
  BY <1>1, <1>2, <1>3 DEF Le, Times, Tied
<1>5. (n * 95) * (e * 100) <= (m * 95) * (d * 100)
  <2>1. PICK x \in Int, y \in Int : x = n * e /\ y = m * d
    OBVIOUS
  <2>2. (n * 95) * (e * 100) = 9500 * x /\ (m * 95) * (d * 100) = 9500 * y
    BY <2>1
  <2> QED BY <1>4, <2>1, <2>2
<1>6. PICK p \in Int : p = n * 95
  OBVIOUS
<1>7. PICK q \in Int : q = m * 95
  OBVIOUS
<1>8. PICK s \in Nat \ {0}, t \in Nat \ {0} : s = d * 100 /\ t = e * 100
  OBVIOUS
<1>9. p * f <= k * s
  <2>1. p * t <= q * s /\ q * f <= k * t
    BY <1>4, <1>5, <1>6, <1>7, <1>8
  <2> QED BY <2>1, Crosswise
<1> QED BY <1>1, <1>3, <1>6, <1>8, <1>9 DEF Le, Times, Tied

(* The best of the other styles, zero if there are none.                   *)
OthersOf(rs) == Kept(Keys(Styled(rs), Style), LAMBDA s : s # plain)
MeansOfStyles(rs, ks) == [s \in ToSet(ks) |-> StyleMean(rs, s)]
OthersBest(rs) == Champion(OthersOf(rs), MeansOfStyles(rs, OthersOf(rs)), Zero).value

LEMMA OthersBestIs ==
  ASSUME NEW S, GoodRows(S), NEW rs \in Seq(S), NEW b, b = OthersBest(rs)
  PROVE  /\ b \in Fraction /\ Le(Zero, b)
         /\ \A k \in ScoredStyles(rs) : k # plain => Le(StyleMean(rs, k), b)
         /\ b = Zero \/ \E k \in ScoredStyles(rs) : b = StyleMean(rs, k)
<1>1. PICK T : T = {r.style : r \in S}
  OBVIOUS
<1>2. PICK t \in Seq(S) : t = Styled(rs) /\ ToSet(t) = {r \in ToSet(rs) : r.style # None}
  <2>0. PICK g : g = StyleIn(S)
    OBVIOUS
  <2>1. g = StyleIn(S) /\ DOMAIN g = S
    BY <2>0 DEF StyleIn
  <2>2. Having(rs, Named(S, g)) \in Seq(S) /\ ToSet(Having(rs, Named(S, g))) = {r \in ToSet(rs) : g[r] # None}
    BY <2>1, NamedGroups
  <2>3. \A r \in ToSet(rs) : r \in S
    BY DEF ToSet
  <2>4. {r \in ToSet(rs) : g[r] # None} = {r \in ToSet(rs) : r.style # None}
    BY <2>1, <2>3 DEF StyleIn
  <2> QED BY <2>1, <2>2, <2>4, StyledIs
<1>3. PICK all \in Seq(T) : all = Keys(t, Style) /\ ToSet(all) = KeysMet(t, StyleIn(S))
  BY <1>1, StyleKeys
<1>4. ToSet(all) = {r.style : r \in ToSet(t)}
  <2>1. \A r \in ToSet(t) : r \in S
    BY DEF ToSet
  <2> QED BY <1>3, <2>1 DEF KeysMet, StyleIn
<1>5. PICK C : C = {k \in T : k # plain}
  OBVIOUS
<1>6. PICK os : os = OthersOf(rs)
  OBVIOUS
<1>7. os = Having(all, C)
  <2>1. \A i \in DOMAIN all : all[i] \in T
    OBVIOUS
  <2>2. {i \in DOMAIN all : all[i] # plain} = {i \in DOMAIN all : all[i] \in C}
    BY <1>5, <2>1
  <2> QED BY <1>2, <1>3, <1>6, <2>2 DEF OthersOf, Kept, Having
<1>8. os \in Seq(T \cap C) /\ ToSet(os) = ToSet(all) \cap C
  BY <1>7, HavingIsList, HavingMembers
<1>9. os \in Seq(T)
  BY <1>8
<1>10. PICK v : v = MeansOfStyles(rs, os)
  OBVIOUS
<1>11. PICK c : c = Champion(os, v, Zero)
  OBVIOUS
<1>12. b = c.value
  BY <1>6, <1>10, <1>11 DEF OthersBest
<1>13. \A k : StyleMean(rs, k) \in Fraction /\ (~HasStyle(rs, k) => StyleMean(rs, k) = Zero)
  BY StyleGroups DEF Average
<1>14. \A k \in ToSet(os) : v[k] = StyleMean(rs, k) /\ v[k] \in Fraction
  BY <1>10, <1>13 DEF MeansOfStyles
<1>15. Zero \in Fraction
  BY ZeroIs DEF Average
<1>16. c \in Titles(os) /\ Leads(c, os, v, Zero, Len(os))
  BY <1>9, <1>11, <1>14, <1>15, ChampionLeads
<1>17. b \in Fraction /\ Le(Zero, b)
  BY <1>12, <1>16 DEF Titles, Leads
<1>18. ASSUME NEW k \in ScoredStyles(rs), k # plain PROVE Le(StyleMean(rs, k), b)
  <2>1. k \in ToSet(all) /\ k \in T
    <3>1. PICK r \in ToSet(rs) : r.style = k /\ k # None
      BY DEF ScoredStyles
    <3>2. r \in ToSet(t)
      BY <1>2, <3>1
    <3>3. k \in ToSet(all)
      BY <1>4, <3>1, <3>2
    <3> QED BY <3>3 DEF ToSet
  <2>2. k \in ToSet(os)
    BY <1>5, <1>8, <1>18, <2>1
  <2>3. PICK j \in 1..Len(os) : os[j] = k
    BY <1>9, <2>2 DEF ToSet
  <2> QED BY <1>12, <1>14, <1>16, <2>2, <2>3 DEF Leads
<1>19. b = Zero \/ \E k \in ScoredStyles(rs) : b = StyleMean(rs, k)
  <2>1. CASE c = [who |-> None, value |-> Zero]
    BY <1>12, <2>1
  <2>2. CASE \E j \in 1..Len(os) : HasWonAt(c, os, v, Zero, j)
    <3>1. PICK j \in 1..Len(os) : c.value = v[os[j]]
      BY <2>2 DEF HasWonAt
    <3>2. os[j] \in ToSet(os) /\ os[j] \in ToSet(all)
      BY <1>8, <1>9 DEF ToSet
    <3>3. b = StyleMean(rs, os[j])
      BY <1>12, <1>14, <3>1, <3>2
    <3>4. os[j] \in {r.style : r \in ToSet(rs)} /\ os[j] # None
      BY <1>2, <1>4, <3>2
    <3>5. CASE HasStyle(rs, os[j])
      BY <3>3, <3>4, <3>5 DEF ScoredStyles
    <3>6. CASE ~HasStyle(rs, os[j])
      BY <1>13, <3>3, <3>6
    <3> QED BY <3>5, <3>6
  <2> QED BY <1>16, <2>1, <2>2 DEF Leads
<1> QED BY <1>17, <1>18, <1>19

LEMMA TiedBelow == ASSUME NEW a \in Fraction, Le(Zero, a) PROVE Le(Times(a, Tied), a)
<1>1. PICK n \in Int, d \in Nat \ {0} : n = a.num /\ d = a.den
  BY DEF Fraction
<1>2. n \in Nat
  BY <1>1 DEF Le, Zero
<1>3. PICK x \in Nat : x = n * d
  BY <1>2
<1>4. (n * 95) * d = 95 * x /\ n * (d * 100) = 100 * x
  BY <1>2, <1>3
<1> QED BY <1>1, <1>3, <1>4 DEF Le, Times, Tied

(* When plain has scores, the head of the ranking is plain or one of the   *)
(* others, so that the rule for plain-minimal tells how far it leads.      *)
LEMMA PlainIs ==
  ASSUME NEW S, GoodRows(S), NEW rs \in Seq(S), HasStyle(rs, plain),
         NEW t, t = StyleAverages(rs), NEW best, best = StyleMean(rs, t[1].style),
         NEW p, p = StyleMean(rs, plain)
  PROVE  /\ ~PlainMinimal(rs) => Lt(p, best)
         /\ PlainMinimal(rs) => Le(Times(Minus(best, p), Whole(20)), best)
<1>1. AreAverages(t, rs, S)
  BY AveragesAre
<1>2. plain \in ScoredStyles(rs)
  <2>1. plain # None
    BY StylesAssumption
  <2>2. \E r \in ToSet(rs) : r.style = plain
    BY StyleGroups
  <2> QED BY <2>1, <2>2 DEF ScoredStyles
<1>3. \A i \in DOMAIN t : t[i].score = StyleMean(rs, t[i].style)
  BY <1>1 DEF AreAverages, StyleLine
<1>4. 1 \in DOMAIN t /\ \A i \in DOMAIN t : Le(t[i].score, t[1].score)
  <2>1. \E i \in DOMAIN t : t[i].style = plain
    BY <1>1, <1>2 DEF AreAverages
  <2>2. DOMAIN t = 1..Len(t) /\ Len(t) \in Nat
    BY <1>1 DEF AreAverages
  <2>3. 1 \in DOMAIN t /\ \A i \in DOMAIN t : 1 <= i
    BY <2>1, <2>2
  <2> QED BY <1>1, <2>3 DEF AreAverages
<1>5. \A k \in ScoredStyles(rs) : Le(StyleMean(rs, k), best)
  <2> SUFFICES ASSUME NEW k \in ScoredStyles(rs) PROVE Le(StyleMean(rs, k), best)
    OBVIOUS
  <2>1. PICK i \in DOMAIN t : t[i].style = k
    BY <1>1 DEF AreAverages
  <2> QED BY <1>3, <1>4, <2>1
<1>6. best = p \/ (t[1].style \in ScoredStyles(rs) /\ t[1].style # plain)
  BY <1>1, <1>4 DEF AreAverages
<1>7. PICK b : b = OthersBest(rs)
  OBVIOUS
<1>8. /\ b \in Fraction /\ Le(Zero, b)
      /\ \A k \in ScoredStyles(rs) : k # plain => Le(StyleMean(rs, k), b)
      /\ b = Zero \/ \E k \in ScoredStyles(rs) : b = StyleMean(rs, k)
  BY <1>7, OthersBestIs
<1>9. p \in Fraction /\ best \in Fraction /\ Le(Zero, p) /\ Le(Zero, best)
  BY StyleGroups DEF Average
<1>10. PlainMinimal(rs) <=> Le(Times(b, Tied), p)
  <2>1. b = Champion(OthersOf(rs), [s \in ToSet(OthersOf(rs)) |-> ScoreIn(rs, Style, s)], Zero).value
    BY <1>7 DEF OthersBest, MeansOfStyles, StyleMean, ScoreIn
  <2> QED BY <2>1 DEF PlainMinimal, OthersOf, Tied, StyleMean, ScoreIn
<1>11. ASSUME ~Le(Times(b, Tied), p) PROVE Lt(p, best)
  <2>1. Lt(p, b)
    BY <1>8, <1>9, <1>11, TiedIs
  <2>2. Le(b, best)
    BY <1>5, <1>8, <1>9
  <2>3. ~Le(b, p)
    BY <1>8, <1>9, <2>1, LeTotal
  <2>4. ~Le(best, p)
    BY <1>8, <1>9, <2>2, <2>3, LeTransitive
  <2> QED BY <1>9, <2>4, LeTotal
<1>12. ASSUME Le(Times(b, Tied), p) PROVE Le(Times(Minus(best, p), Whole(20)), best)
  <2>1. CASE best = p
    <3>1. Le(Times(p, Tied), p)
      BY <1>9, TiedBelow
    <3> QED BY <1>9, <2>1, <3>1, TiedIs
  <2>2. CASE t[1].style \in ScoredStyles(rs) /\ t[1].style # plain
    <3>1. Le(best, b)
      BY <1>8, <2>2
    <3>2. Le(Times(best, Tied), p)
      BY <1>8, <1>9, <1>12, <3>1, TiedGrows
    <3> QED BY <1>9, <3>2, TiedIs
  <2> QED BY <1>6, <2>1, <2>2
<1> QED BY <1>10, <1>11, <1>12

(* Whatever rule proposes a candidate, its baseline has scored rows.       *)
LEMMA RulesHaveRuns ==
  ASSUME NEW all, NEW f, NEW rs, rs = InFamily(all, f), NEW c \in Proposals(all, f)
  PROVE  HasStyle(rs, c.baseline) /\ c.baseline # None
<1>1. /\ c.name = "repl-terse" => c.baseline = repl
      /\ c.name = "format-protected-patch" => c.baseline = patch_only
      /\ c.name = "json-debug" => c.baseline = json_schema
      /\ c.name = "architect-step" => c.baseline = architect
      /\ c.name = "plain-minimal" => c.baseline = plain
  BY DEF Proposals
<1>2. \/ c.name = "repl-terse" /\ ReplTerse(rs)
      \/ c.name = "format-protected-patch" /\ FormatProtected(rs)
      \/ c.name = "json-debug" /\ JsonDebug(rs)
      \/ c.name = "architect-step" /\ ArchitectStep(rs)
      \/ c.name = "plain-minimal" /\ PlainMinimal(rs)
  BY DEF Proposals
<1>3. /\ ReplTerse(rs) => HasStyle(rs, repl)
      /\ FormatProtected(rs) => HasStyle(rs, patch_only)
      /\ JsonDebug(rs) => HasStyle(rs, json_schema)
      /\ ArchitectStep(rs) => HasStyle(rs, architect)
      /\ PlainMinimal(rs) => HasStyle(rs, plain)
  BY DEF ReplTerse, FormatProtected, JsonDebug, ArchitectStep, PlainMinimal, NotWorse
<1> QED BY <1>1, <1>2, <1>3, StylesAssumption

LEMMA NamesProposed ==
  ASSUME NEW all, NEW f, NEW rs, rs = InFamily(all, f), NEW names, names = {c.name : c \in Proposals(all, f)}
  PROVE  /\ "plain-minimal" \in names <=> PlainMinimal(rs)
         /\ "repl-terse" \in names => NotWorse(rs, repl)
         /\ "architect-step" \in names => NotWorse(rs, architect)
<1>1. "plain-minimal" \in names => PlainMinimal(rs)
  BY DEF Proposals
<1>2. ASSUME PlainMinimal(rs) PROVE "plain-minimal" \in names
  <2>1. [name |-> "plain-minimal", baseline |-> plain] \in Proposals(all, f)
    BY <1>2 DEF Proposals
  <2> QED BY <2>1
<1>3. "repl-terse" \in names => ReplTerse(rs)
  BY DEF Proposals
<1>4. "architect-step" \in names => ArchitectStep(rs)
  BY DEF Proposals
<1> QED BY <1>1, <1>2, <1>3, <1>4 DEF ReplTerse, ArchitectStep

LEMMA InFamilyIs ==
  ASSUME NEW S, NEW rs \in Seq(S), NEW f PROVE InFamily(rs, f) \in Seq(S)
<1>1. PICK C : C = {r \in S : SecondPart(r) = f}
  OBVIOUS
<1>2. \A i \in DOMAIN rs : rs[i] \in S
  OBVIOUS
<1>3. {i \in DOMAIN rs : SecondPart(rs[i]) = f} = {i \in DOMAIN rs : rs[i] \in C}
  BY <1>1, <1>2
<1>4. Group(rs, SecondPart, f) = Having(rs, C)
  BY <1>3 DEF Group, Kept, Having
<1>5. Having(rs, C) \in Seq(S)
  BY HavingFilters
<1> QED BY <1>4, <1>5 DEF InFamily

(* A style with scored rows is a line of the ranking.                      *)
LEMMA StyleIsRanked ==
  ASSUME NEW S, GoodRows(S), NEW rs \in Seq(S), NEW t, t = StyleAverages(rs),
         NEW k, k # None, HasStyle(rs, k)
  PROVE  \E i \in DOMAIN t : t[i].style = k /\ t[i].score = StyleMean(rs, k)
<1>1. AreAverages(t, rs, S)
  BY AveragesAre
<1>2. k \in ScoredStyles(rs)
  <2>1. \E r \in ToSet(rs) : r.style = k
    BY StyleGroups
  <2> QED BY <2>1 DEF ScoredStyles
<1> QED BY <1>1, <1>2 DEF AreAverages, StyleLine

LEMMA NotWorseIsRanked ==
  ASSUME NEW S, GoodRows(S), NEW rs \in Seq(S), NEW t, t = StyleAverages(rs),
         NEW k, k # None, NotWorse(rs, k)
  PROVE  \E i, j \in DOMAIN t : /\ t[i].style = k /\ t[j].style = plain
                                /\ Le(t[j].score, t[i].score)
<1>1. HasStyle(rs, k) /\ HasStyle(rs, plain) /\ Le(StyleMean(rs, plain), StyleMean(rs, k))
  BY DEF NotWorse, StyleMean, ScoreIn
<1>2. PICK i \in DOMAIN t : t[i].style = k /\ t[i].score = StyleMean(rs, k)
  BY <1>1, StyleIsRanked
<1>3. PICK j \in DOMAIN t : t[j].style = plain /\ t[j].score = StyleMean(rs, plain)
  BY <1>1, StyleIsRanked, StylesAssumption
<1> QED BY <1>1, <1>2, <1>3

LEMMA ProposalsHold == ASSUME FillInv PROVE ProposalsAreFounded
<1>1. rows \in Seq(FillRows) /\ GoodRows(FillRows)
  BY FillRowsAre DEF FillInv
<1> SUFFICES
      ASSUME NEW f
      PROVE  LET rs == InFamily(rows, f)
                 names == {c.name : c \in Proposals(rows, f)}
                 ranked == StyleAverages(rs)
                 best == ScoreIn(rs, Style, ranked[1].style)
                 plainly == ScoreIn(rs, Style, plain)
                 NotBelow(s) == \E i, j \in DOMAIN ranked :
                   /\ ranked[i].style = s /\ ranked[j].style = plain
                   /\ Le(ranked[j].score, ranked[i].score)
             IN /\ \A c \in Proposals(rows, f) :
                     \A m \in ToSet(Metadata(rs, <<c>>)) : \E i \in DOMAIN ranked :
                       ranked[i].style = c.baseline /\ Same(m.baseline_score, ranked[i].score)
                /\ HasStyle(rs, plain) /\ "plain-minimal" \notin names => Lt(plainly, best)
                /\ "plain-minimal" \in names =>
                     Le(Times(Minus(best, plainly), Whole(20)), best)
                /\ "repl-terse" \in names => NotBelow(repl)
                /\ "architect-step" \in names => NotBelow(architect)
  BY DEF ProposalsAreFounded
<1>2. PICK rs \in Seq(FillRows) : rs = InFamily(rows, f)
  BY <1>1, InFamilyIs
<1>3. PICK names : names = {c.name : c \in Proposals(rows, f)}
  OBVIOUS
<1>4. PICK t : t = StyleAverages(rs)
  OBVIOUS
<1>5. PICK best : best = StyleMean(rs, t[1].style)
  OBVIOUS
<1>6. PICK p : p = StyleMean(rs, plain)
  OBVIOUS
<1>7. ASSUME NEW c \in Proposals(rows, f), NEW m \in ToSet(Metadata(rs, <<c>>))
      PROVE  \E i \in DOMAIN t : t[i].style = c.baseline /\ Same(m.baseline_score, t[i].score)
  <2>1. HasStyle(rs, c.baseline) /\ c.baseline # None
    BY <1>2, RulesHaveRuns
  <2>2. PICK i \in DOMAIN t : t[i].style = c.baseline /\ t[i].score = StyleMean(rs, c.baseline)
    BY <1>1, <1>4, <2>1, StyleIsRanked
  <2>3. m.baseline_score = StyleMean(rs, c.baseline)
    <3>1. DOMAIN <<c>> = {1} /\ <<c>>[1] = c
      OBVIOUS
    <3> QED BY <3>1 DEF Metadata, Measured, ToSet, StyleMean, ScoreIn
  <2>4. StyleMean(rs, c.baseline) \in Fraction
    BY <1>1, StyleGroups DEF Average
  <2> QED BY <2>2, <2>3, <2>4, LeTotal
<1>8. /\ "plain-minimal" \in names <=> PlainMinimal(rs)
      /\ "repl-terse" \in names => NotWorse(rs, repl)
      /\ "architect-step" \in names => NotWorse(rs, architect)
  BY <1>2, <1>3, NamesProposed
<1>9. PlainMinimal(rs) => HasStyle(rs, plain)
  BY DEF PlainMinimal
<1>10. HasStyle(rs, plain) => /\ ~PlainMinimal(rs) => Lt(p, best)
                              /\ PlainMinimal(rs) => Le(Times(Minus(best, p), Whole(20)), best)
  BY <1>1, <1>4, <1>5, <1>6, PlainIs
<1>11. /\ HasStyle(rs, plain) /\ "plain-minimal" \notin names => Lt(p, best)
       /\ "plain-minimal" \in names => Le(Times(Minus(best, p), Whole(20)), best)
  BY <1>8, <1>9, <1>10
<1>12. "repl-terse" \in names =>
         \E i, j \in DOMAIN t : t[i].style = repl /\ t[j].style = plain /\ Le(t[j].score, t[i].score)
  BY <1>1, <1>4, <1>8, NotWorseIsRanked, StylesAssumption
<1>13. "architect-step" \in names =>
         \E i, j \in DOMAIN t : t[i].style = architect /\ t[j].style = plain /\ Le(t[j].score, t[i].score)
  BY <1>1, <1>4, <1>8, NotWorseIsRanked, StylesAssumption
<1> QED BY <1>2, <1>3, <1>4, <1>5, <1>6, <1>7, <1>11, <1>12, <1>13 DEF StyleMean, ScoreIn

(* Whatever is stored, a proposal follows from the ranking: its baseline is*)
(* ranked, plain-minimal is proposed whenever no style leads plain and     *)
(* never when one leads it by more than a twentieth, and what refines repl *)
(* or architect is not ranked below plain.                                 *)
THEOREM ProposalsFollow == OptSpec => []ProposalsAreFounded
<1>1. FillInv => ProposalsAreFounded
  BY ProposalsHold
<1> QED BY <1>1, OptFillInv, PTL

-----------------------------------------------------------------------------
(* The comparison of candidates, from stored rows and after a sweep.       *)
LEMMA MeasuredIs ==
  ASSUME NEW rs, NEW c, NEW st, NEW m, m = Measured(rs, c, st)
  PROVE  /\ m.name = c.name /\ m.baseline = c.baseline /\ m.status = st
         /\ m.delta = Minus(StyleMean(rs, c.name), StyleMean(rs, c.baseline))
         /\ m.runs = Len(Scored(Group(rs, Style, c.name)))
BY DEF Measured, StyleMean, ScoreIn

LEMMA EntryIs ==
  ASSUME NEW rs, NEW s, NEW m, m = BaselineEntry(rs, s)
  PROVE  /\ m.name = s /\ m.delta = None /\ m.status = "baseline" /\ m.score = StyleMean(rs, s)
         /\ m.runs = Len(Scored(Group(rs, Style, s)))
BY DEF BaselineEntry, StyleMean, ScoreIn

(* The baselines that are no candidate.                                    *)
RestOf(bs, cs) == Kept(bs, LAMBDA s : \A i \in DOMAIN cs : cs[i].name # s)

IsRest(rest, bs, cs) == ToSet(rest) = {s \in ToSet(bs) : \A i \in DOMAIN cs : cs[i].name # s}

LEMMA RestIs ==
  ASSUME NEW T, NEW bs \in Seq(T), Distinct(bs), NEW cs, NEW rest, rest = RestOf(bs, cs)
  PROVE  rest \in Seq(T) /\ Distinct(rest) /\ IsRest(rest, bs, cs)
<1>1. PICK C : C = {s \in T : \A i \in DOMAIN cs : cs[i].name # s}
  OBVIOUS
<1>2. \A i \in DOMAIN bs : bs[i] \in T
  OBVIOUS
<1>3. {i \in DOMAIN bs : \A j \in DOMAIN cs : cs[j].name # bs[i]} = {i \in DOMAIN bs : bs[i] \in C}
  BY <1>1, <1>2
<1>4. rest = Having(bs, C)
  BY <1>3 DEF RestOf, Kept, Having
<1>5. rest \in Seq(T \cap C) /\ ToSet(rest) = ToSet(bs) \cap C
  BY <1>4, HavingIsList, HavingMembers
<1>6. Distinct(rest)
  BY <1>4, HavingDistinct
<1>7. \A s \in ToSet(bs) : s \in T
  BY DEF ToSet
<1>8. IsRest(rest, bs, cs)
  BY <1>1, <1>5, <1>7 DEF IsRest
<1>9. rest \in Seq(T)
  BY <1>5
<1> QED BY <1>6, <1>8, <1>9

AreResults(new, rs, cs, rest, n, m) ==
  /\ DOMAIN new = 1..n+m
  /\ \A i \in 1..n : new[i] = Measured(rs, cs[i], "complete")
  /\ \A i \in 1..m : new[n + i] = BaselineEntry(rs, rest[i])

LEMMA ComputedIs ==
  ASSUME NEW T, NEW bs \in Seq(T), Distinct(bs), NEW X, NEW cs \in Seq(X), NEW rs,
         NEW rest, rest = RestOf(bs, cs)
  PROVE  AreResults(Computed(rs, bs, cs), rs, cs, rest, Len(cs), Len(rest))
<1>1. PICK n \in Nat : n = Len(cs) /\ DOMAIN cs = 1..n
  OBVIOUS
<1>2. rest \in Seq(T)
  BY RestIs
<1>3. PICK m \in Nat : m = Len(rest) /\ DOMAIN rest = 1..m
  BY <1>2
<1>4. PICK a : a = [i \in 1..n |-> Measured(rs, cs[i], "complete")]
  OBVIOUS
<1>5. PICK b : b = [i \in 1..m |-> BaselineEntry(rs, rest[i])]
  OBVIOUS
<1>6. PICK U : U = {a[i] : i \in 1..n} \cup {b[i] : i \in 1..m}
  OBVIOUS
<1>7. a \in [1..n -> U] /\ b \in [1..m -> U]
  BY <1>4, <1>5, <1>6
<1>8. PICK c : c = a \o b
  OBVIOUS
<1>9. ArePlaced(c, a, b, n, m)
  BY <1>7, <1>8, JoinedPlaces
<1>10. Computed(rs, bs, cs) = c
  BY <1>1, <1>3, <1>4, <1>5, <1>8 DEF Computed, RestOf
<1>11. AreResults(c, rs, cs, rest, n, m)
  BY <1>4, <1>5, <1>9 DEF AreResults, ArePlaced
<1> QED BY <1>1, <1>3, <1>10, <1>11

(* A style stands in the ranking where SelectInSeq finds it.               *)
StylePlace(t, k) == SelectInSeq(t, LAMBDA r : r.style = k)

LEMMA PlaceOfStyle ==
  ASSUME NEW S, NEW rs, NEW t, AreAverages(t, rs, S), NEW k, NEW p, p = StylePlace(t, k)
  PROVE  /\ p = 0 \/ (p \in DOMAIN t /\ t[p].style = k)
         /\ (\E i \in DOMAIN t : t[i].style = k) => p > 0
<1>1. t \in Seq(StyleLines(S)) /\ \A i, j \in DOMAIN t : t[i].style = t[j].style => i = j
  BY DEF AreAverages
<1>2. PICK n \in Nat : n = Len(t) /\ DOMAIN t = 1..n
  BY <1>1
<1>3. PICK M : M = {i \in 1..n : t[i].style = k}
  OBVIOUS
<1>4. p = IF M = {} THEN 0 ELSE Min(M)
  BY <1>2, <1>3 DEF StylePlace, SelectInSeq
<1>5. CASE M = {}
  BY <1>2, <1>3, <1>4, <1>5
<1>6. CASE M # {}
  <2>1. PICK i \in 1..n : i \in M
    BY <1>3, <1>6
  <2>2. M = {i}
    BY <1>1, <1>2, <1>3, <2>1
  <2>3. Min(M) = i
    BY <2>2 DEF Min
  <2> QED BY <1>2, <1>3, <1>4, <1>6, <2>1, <2>3
<1> QED BY <1>5, <1>6

AreMeasured(old, rs, cs) ==
  /\ DOMAIN old = DOMAIN cs
  /\ \A i \in DOMAIN cs : /\ old[i] = Measured(rs, cs[i], old[i].status)
                          /\ old[i].status = IF HasStyle(rs, cs[i].name) THEN "analyzed" ELSE "no_data"

LEMMA MetadataIs ==
  ASSUME NEW rs, NEW cs PROVE AreMeasured(Metadata(rs, cs), rs, cs)
<1>1. PICK old : old = Metadata(rs, cs)
  OBVIOUS
<1>2. old = [i \in DOMAIN cs |-> Measured(rs, cs[i],
               IF HasStyle(rs, cs[i].name) THEN "analyzed" ELSE "no_data")]
  BY <1>1 DEF Metadata
<1>3. ASSUME NEW i \in DOMAIN cs
      PROVE  /\ old[i] = Measured(rs, cs[i], old[i].status)
             /\ old[i].status = IF HasStyle(rs, cs[i].name) THEN "analyzed" ELSE "no_data"
  <2>1. PICK st : st = IF HasStyle(rs, cs[i].name) THEN "analyzed" ELSE "no_data"
    OBVIOUS
  <2>2. old[i] = Measured(rs, cs[i], st)
    BY <1>2, <2>1
  <2>3. old[i].status = st
    BY <2>2, MeasuredIs
  <2> QED BY <2>1, <2>2, <2>3
<1> QED BY <1>1, <1>2, <1>3 DEF AreMeasured

(* A candidate that gains on its baseline has scores, and stands above it. *)
LEMMA GainIsSeen ==
  ASSUME NEW S, GoodRows(S), NEW rs \in Seq(S), NEW a, NEW b, a # None,
         Lt([num |-> FullScore, den |-> 20], Minus(StyleMean(rs, a), StyleMean(rs, b))),
         NEW t, t = StyleAverages(rs), NEW p, p = StylePlace(t, a), NEW q, q = StylePlace(t, b)
  PROVE  HasStyle(rs, a) /\ (q > 0 => p < q)
<1>1. /\ Average(StyleMean(rs, a)) /\ Average(StyleMean(rs, b))
      /\ ~HasStyle(rs, a) => StyleMean(rs, a) = Zero
  BY StyleGroups
<1>2. PICK x \in Fraction, y \in Fraction : x = StyleMean(rs, a) /\ y = StyleMean(rs, b)
  BY <1>1 DEF Average
<1>3. Lt(y, x)
  <2>1. FullScore \in Nat \ {0}
    BY ScoreAssumption
  <2>2. PICK n \in Int, d \in Nat \ {0} : n = x.num /\ d = x.den
    BY DEF Fraction
  <2>3. PICK m \in Int, e \in Nat \ {0} : m = y.num /\ e = y.den
    BY DEF Fraction
  <2>4. FullScore * (d * e) < (n * e - m * d) * 20
    BY <1>2, <2>2, <2>3 DEF Lt, Minus
  <2>5. FullScore * (d * e) \in Nat
    BY <2>1
  <2>6. m * d < n * e
    BY <2>4, <2>5
  <2> QED BY <2>2, <2>3, <2>6 DEF Lt
<1>4. HasStyle(rs, a)
  <2>1. Le(Zero, y) /\ Zero \in Fraction
    BY <1>1, <1>2, ZeroIs DEF Average
  <2>2. ~Le(x, y)
    BY <1>3, LeTotal
  <2>3. x # Zero
    BY <2>1, <2>2
  <2> QED BY <1>1, <1>2, <2>3
<1>5. AreAverages(t, rs, S)
  BY AveragesAre
<1>6. PICK i \in DOMAIN t : t[i].style = a /\ t[i].score = x
  BY <1>2, <1>4, StyleIsRanked
<1>7. p \in DOMAIN t /\ t[p].style = a
  <2>1. p = 0 \/ (p \in DOMAIN t /\ t[p].style = a)
    BY <1>5, PlaceOfStyle
  <2>2. p > 0
    BY <1>5, <1>6, PlaceOfStyle
  <2> QED BY <2>1, <2>2
<1>8. t[p].score = x
  BY <1>5, <1>6, <1>7 DEF AreAverages
<1>9. ASSUME q > 0 PROVE p < q
  <2>1. q \in DOMAIN t /\ t[q].style = b
    BY <1>5, <1>9, PlaceOfStyle
  <2>2. t[q].score = y
    BY <1>2, <1>5, <2>1 DEF AreAverages, StyleLine
  <2>3. ~Le(t[p].score, t[q].score)
    BY <1>3, <1>8, <2>2, LeTotal
  <2>4. ~(q <= p)
    BY <1>5, <1>7, <2>1, <2>3 DEF AreAverages
  <2>5. p \in Int /\ q \in Int
    BY <1>5, <1>7, <2>1 DEF AreAverages
  <2> QED BY <2>4, <2>5
<1> QED BY <1>4, <1>9

NamedOnce(cs) == \A i, j \in DOMAIN cs : cs[i].name = cs[j].name => i = j

(* A candidate without runs, and only such a one, is said to have no data. *)
LEMMA RunsAreSaid ==
  ASSUME NEW S, GoodRows(S), NEW rs \in Seq(S), NEW X, NEW cs \in Seq(X), NEW old, AreMeasured(old, rs, cs),
         NEW i \in DOMAIN old
  PROVE  old[i].runs = 0 <=> old[i].status = "no_data"
<1>1. i \in DOMAIN cs /\ DOMAIN cs = 1..Len(cs)
  BY DEF AreMeasured
<1>2. old[i] = Measured(rs, cs[i], old[i].status)
  BY <1>1 DEF AreMeasured
<1>3. PICK u \in Seq(HasScore(S)) : u = Scored(Group(rs, Style, cs[i].name))
  BY StyleGroups
<1>4. old[i].runs = Len(u)
  BY <1>2, <1>3, MeasuredIs
<1>5. Len(u) = 0 <=> u = <<>>
  OBVIOUS
<1>6. old[i].status = IF HasStyle(rs, cs[i].name) THEN "analyzed" ELSE "no_data"
  BY <1>1 DEF AreMeasured
<1>7. HasStyle(rs, cs[i].name) <=> u # <<>>
  BY <1>3 DEF HasStyle
<1> QED BY <1>4, <1>5, <1>6, <1>7

(* The results hold each candidate, and each other baseline, once.         *)
NameEach(new, cs, bs) ==
  /\ \A i, j \in DOMAIN new : i # j => new[i].name # new[j].name
  /\ {new[i].name : i \in DOMAIN new} = {c.name : c \in ToSet(cs)} \cup ToSet(bs)

LEMMA ResultsAreOnce ==
  ASSUME NEW rs, NEW X, NEW cs \in Seq(X), NamedOnce(cs), NEW T, NEW rest \in Seq(T), Distinct(rest),
         NEW bs, IsRest(rest, bs, cs), NEW new, AreResults(new, rs, cs, rest, Len(cs), Len(rest))
  PROVE  NameEach(new, cs, bs)
<1>1. PICK n \in Nat : n = Len(cs) /\ DOMAIN cs = 1..n
  OBVIOUS
<1>2. PICK m \in Nat : m = Len(rest) /\ DOMAIN rest = 1..m
  OBVIOUS
<1>3. DOMAIN new = 1..n+m
  BY <1>1, <1>2 DEF AreResults
<1>4. \A i \in 1..n : new[i].name = cs[i].name
  <2>1. \A i \in 1..n : new[i] = Measured(rs, cs[i], "complete")
    BY <1>1 DEF AreResults
  <2> QED BY <2>1, MeasuredIs
<1>5. \A i \in 1..m : new[n + i].name = rest[i]
  <2>1. \A i \in 1..m : new[n + i] = BaselineEntry(rs, rest[i])
    BY <1>1, <1>2 DEF AreResults
  <2> QED BY <2>1, EntryIs
<1>6. \A i \in 1..n+m : i \in 1..n \/ (i - n \in 1..m /\ n + (i - n) = i /\ i \notin 1..n)
  OBVIOUS
<1>7. \A k \in 1..m : rest[k] \in ToSet(bs) /\ \A i \in 1..n : cs[i].name # rest[k]
  <2>1. \A k \in 1..m : rest[k] \in ToSet(rest)
    BY <1>2 DEF ToSet
  <2> QED BY <1>1, <2>1 DEF IsRest
<1>8. ASSUME NEW i \in 1..n+m, NEW j \in 1..n+m, new[i].name = new[j].name PROVE i = j
  <2>1. CASE i \in 1..n /\ j \in 1..n
    BY <1>1, <1>4, <1>8, <2>1 DEF NamedOnce
  <2>2. CASE i \in 1..n /\ j \notin 1..n
    <3>1. j - n \in 1..m /\ new[j].name = rest[j - n]
      BY <1>5, <1>6, <2>2
    <3> QED BY <1>4, <1>7, <1>8, <2>2, <3>1
  <2>3. CASE i \notin 1..n /\ j \in 1..n
    <3>1. i - n \in 1..m /\ new[i].name = rest[i - n]
      BY <1>5, <1>6, <2>3
    <3> QED BY <1>4, <1>7, <1>8, <2>3, <3>1
  <2>4. CASE i \notin 1..n /\ j \notin 1..n
    <3>1. i - n \in 1..m /\ new[i].name = rest[i - n]
      BY <1>5, <1>6, <2>4
    <3>2. j - n \in 1..m /\ new[j].name = rest[j - n]
      BY <1>5, <1>6, <2>4
    <3>3. i - n = j - n
      BY <1>2, <1>8, <3>1, <3>2 DEF Distinct
    <3> QED BY <3>3
  <2> QED BY <2>1, <2>2, <2>3, <2>4
<1>9. ASSUME NEW i \in 1..n+m PROVE new[i].name \in {c.name : c \in ToSet(cs)} \cup ToSet(bs)
  <2>1. CASE i \in 1..n
    <3>1. cs[i] \in ToSet(cs)
      BY <1>1, <2>1 DEF ToSet
    <3> QED BY <1>4, <2>1, <3>1
  <2>2. CASE i \notin 1..n
    BY <1>5, <1>6, <1>7, <2>2
  <2> QED BY <2>1, <2>2
<1>10. ASSUME NEW x \in {c.name : c \in ToSet(cs)} \cup ToSet(bs) PROVE \E i \in 1..n+m : new[i].name = x
  <2>1. CASE \E i \in 1..n : cs[i].name = x
    <3>1. PICK i \in 1..n : cs[i].name = x
      BY <2>1
    <3>2. i \in 1..n+m
      OBVIOUS
    <3> QED BY <1>4, <3>1, <3>2
  <2>2. CASE \A i \in 1..n : cs[i].name # x
    <3>1. x \notin {c.name : c \in ToSet(cs)}
      BY <1>1, <2>2 DEF ToSet
    <3>2. x \in ToSet(rest)
      BY <1>1, <2>2, <3>1 DEF IsRest
    <3>3. PICK k \in 1..m : rest[k] = x
      BY <1>2, <3>2 DEF ToSet
    <3>4. n + k \in 1..n+m
      OBVIOUS
    <3> QED BY <1>5, <3>3, <3>4
  <2> QED BY <2>1, <2>2
<1>11. {new[i].name : i \in DOMAIN new} = {c.name : c \in ToSet(cs)} \cup ToSet(bs)
  BY <1>3, <1>9, <1>10
<1> QED BY <1>3, <1>8, <1>11 DEF NameEach

(* What is measured of candidates that are each other's baselines.         *)
LEMMA DifferencesOppose ==
  ASSUME NEW S, GoodRows(S), NEW rs \in Seq(S), NEW cs, NEW old, AreMeasured(old, rs, cs),
         NEW a \in ToSet(old), NEW b \in ToSet(old), a.name = b.baseline, b.name = a.baseline
  PROVE  Same(a.delta, Minus(Zero, b.delta))
<1>1. \A e \in ToSet(old) : e.delta = Minus(StyleMean(rs, e.name), StyleMean(rs, e.baseline))
  <2>1. ASSUME NEW e \in ToSet(old)
        PROVE  e.delta = Minus(StyleMean(rs, e.name), StyleMean(rs, e.baseline))
    <3>1. PICK i \in DOMAIN old : e = old[i]
      BY DEF ToSet
    <3>2. e = Measured(rs, cs[i], old[i].status)
      BY <3>1 DEF AreMeasured
    <3> QED BY <3>2, MeasuredIs
  <2> QED BY <2>1
<1>2. PICK x \in Fraction, y \in Fraction : x = StyleMean(rs, a.name) /\ y = StyleMean(rs, b.name)
  BY StyleGroups DEF Average
<1>3. a.delta = Minus(x, y) /\ b.delta = Minus(y, x)
  BY <1>1, <1>2
<1>4. Minus(Zero, Minus(y, x)) = Minus(x, y) /\ Minus(x, y) \in Fraction
  BY LossIs
<1> QED BY <1>3, <1>4, LeTotal

(* What is adopted is a candidate, by its measured difference.             *)
Gains(d) == d # None /\ Lt([num |-> FullScore, den |-> 20], d)

LEMMA AdoptedAre ==
  ASSUME NEW rs, NEW X, NEW cs \in Seq(X), NEW rest, NEW m \in Nat,
         NEW new, AreResults(new, rs, cs, rest, Len(cs), m), NEW x \in Adopted(new)
  PROVE  \E k \in DOMAIN cs : new[k].name = x /\ cs[k].name = x /\ Gains(new[k].delta)
<1>1. PICK n \in Nat : n = Len(cs) /\ DOMAIN cs = 1..n
  OBVIOUS
<1>2. PICK k \in DOMAIN new : new[k].name = x /\ Gains(new[k].delta)
  BY DEF Adopted, Gains, ToSet
<1>3. k \in 1..n
  <2> SUFFICES ASSUME k \notin 1..n PROVE FALSE
    OBVIOUS
  <2>1. k - n \in 1..m /\ n + (k - n) = k
    <3>1. k \in 1..n+m
      BY <1>1, <1>2 DEF AreResults
    <3> QED BY <3>1
  <2>2. new[k] = BaselineEntry(rs, rest[k - n])
    BY <1>1, <2>1 DEF AreResults
  <2> QED BY <1>2, <2>2, EntryIs DEF Gains
<1>4. new[k] = Measured(rs, cs[k], "complete")
  BY <1>1, <1>3 DEF AreResults
<1> QED BY <1>1, <1>2, <1>3, <1>4, MeasuredIs

LEMMA AdoptedStandAbove ==
  ASSUME NEW S, GoodRows(S), NEW rs \in Seq(S), NEW cs \in Seq(Specified), NamedOnce(cs),
         NEW rest, NEW m \in Nat, NEW new, AreResults(new, rs, cs, rest, Len(cs), m),
         NEW old, AreMeasured(old, rs, cs), NEW t, t = StyleAverages(rs),
         NEW a \in ToSet(old), a.name \in Adopted(new)
  PROVE  /\ a.status = "analyzed"
         /\ StylePlace(t, a.baseline) > 0 => StylePlace(t, a.name) < StylePlace(t, a.baseline)
<1>1. PICK k \in DOMAIN cs : new[k].name = a.name /\ cs[k].name = a.name /\ Gains(new[k].delta)
  BY AdoptedAre
<1>2. PICK i \in DOMAIN cs : a = old[i]
  BY DEF ToSet, AreMeasured
<1>3. a = Measured(rs, cs[i], a.status) /\ a.status = IF HasStyle(rs, cs[i].name) THEN "analyzed" ELSE "no_data"
  BY <1>2 DEF AreMeasured
<1>4. a.name = cs[i].name /\ a.baseline = cs[i].baseline
  BY <1>3, MeasuredIs
<1>5. i = k
  BY <1>1, <1>4 DEF NamedOnce
<1>6. new[k] = Measured(rs, cs[k], "complete")
  BY DEF AreResults
<1>7. new[k].delta = Minus(StyleMean(rs, a.name), StyleMean(rs, a.baseline))
  BY <1>4, <1>5, <1>6, MeasuredIs
<1>8. a.name # None
  BY <1>4, StylesAssumption
<1>9. Lt([num |-> FullScore, den |-> 20], Minus(StyleMean(rs, a.name), StyleMean(rs, a.baseline)))
  BY <1>1, <1>7 DEF Gains
<1>10. PICK p, q : p = StylePlace(t, a.name) /\ q = StylePlace(t, a.baseline)
  OBVIOUS
<1>11. HasStyle(rs, a.name) /\ (q > 0 => p < q)
  BY <1>8, <1>9, <1>10, GainIsSeen
<1> QED BY <1>3, <1>4, <1>10, <1>11

LEMMA ComparisonsHold == ASSUME FillInv, RegistryInv PROVE ComparisonsAreSound
<1>1. rows \in Seq(FillRows) /\ GoodRows(FillRows)
  BY FillRowsAre DEF FillInv
<1>2. /\ candidates \in Seq(Specified) /\ baselines \in Seq(Baselines) /\ Distinct(baselines)
      /\ NamedOnce(candidates)
  BY CandidatesAreOnce DEF NamedOnce
<1> DEFINE o == Metadata(rows, candidates)
           w == Computed(rows, baselines, candidates)
           t == StyleAverages(rows)
<1>3. o = Metadata(rows, candidates)
  OBVIOUS
<1>4. w = Computed(rows, baselines, candidates)
  OBVIOUS
<1>5. t = StyleAverages(rows)
  OBVIOUS
<1> HIDE DEF o, w, t
<1>6. PICK rest : rest = RestOf(baselines, candidates)
  OBVIOUS
<1>7. rest \in Seq(Baselines) /\ Distinct(rest) /\ IsRest(rest, baselines, candidates)
  BY <1>2, <1>6, RestIs
<1>8. AreMeasured(o, rows, candidates)
  BY <1>3, MetadataIs
<1>9. PICK m \in Nat : m = Len(rest)
  BY <1>7
<1>10. AreResults(w, rows, candidates, rest, Len(candidates), m)
  BY <1>2, <1>4, <1>6, <1>9, ComputedIs
<1>11. \A i \in DOMAIN o : o[i].runs = 0 <=> o[i].status = "no_data"
  BY <1>1, <1>2, <1>8, RunsAreSaid
<1>12. NameEach(w, candidates, baselines)
  BY <1>2, <1>7, <1>9, <1>10, ResultsAreOnce
<1>13. \A a, b \in ToSet(o) : a.name = b.baseline /\ b.name = a.baseline =>
         Same(a.delta, Minus(Zero, b.delta))
  BY <1>1, <1>8, DifferencesOppose
<1>14. \A a \in ToSet(o) : a.name \in Adopted(w) =>
         /\ a.status = "analyzed"
         /\ StylePlace(t, a.baseline) > 0 => StylePlace(t, a.name) < StylePlace(t, a.baseline)
  BY <1>1, <1>2, <1>5, <1>8, <1>10, AdoptedStandAbove
<1>16. PICK stands : stands = [k \in {a.name : a \in ToSet(o)} \cup {a.baseline : a \in ToSet(o)} |->
                                 StylePlace(t, k)]
  OBVIOUS
<1>17. \A a \in ToSet(o) : /\ SelectInSeq(t, LAMBDA r : r.style = a.name) = stands[a.name]
                             /\ SelectInSeq(t, LAMBDA r : r.style = a.baseline) = stands[a.baseline]
  BY <1>16 DEF StylePlace
<1>18. \A a \in ToSet(o) : a.name \in Adopted(w) =>
         a.status = "analyzed" /\ (stands[a.baseline] > 0 => stands[a.name] < stands[a.baseline])
  BY <1>14, <1>16
<1>19. \A a \in ToSet(o) : a.name \in Adopted(w) =>
         /\ a.status = "analyzed"
         /\ SelectInSeq(t, LAMBDA r : r.style = a.baseline) > 0 =>
              SelectInSeq(t, LAMBDA r : r.style = a.name)
                < SelectInSeq(t, LAMBDA r : r.style = a.baseline)
  BY <1>17, <1>18
<1>20. /\ \A i, j \in DOMAIN w : i # j => w[i].name # w[j].name
       /\ {w[i].name : i \in DOMAIN w} = {c.name : c \in ToSet(candidates)} \cup ToSet(baselines)
  BY <1>12 DEF NameEach
<1> QED BY <1>11, <1>13, <1>19, <1>20 DEF ComparisonsAreSound, o, w, t

-----------------------------------------------------------------------------
(* The section of v2 about optimization runs.                              *)
WithStyles(opt) == Kept(Keys(opt, Style), LAMBDA s : HasStyle(opt, s))
StylesScored(opt) == {r.style : r \in ToSet(Scored(opt))}

LEMMA OptRowsAre ==
  ASSUME NEW S, NEW rs \in Seq(S) PROVE OptRows(rs) \in Seq(S)
<1>1. PICK q \in Seq(S) : q = Regrouped(rs)
  BY RegroupedIs
<1>2. PICK C : C = {r \in S : r.suite = Optimization}
  OBVIOUS
<1>3. \A i \in DOMAIN q : q[i] \in S
  OBVIOUS
<1>4. {i \in DOMAIN q : q[i].suite = Optimization} = {i \in DOMAIN q : q[i] \in C}
  BY <1>2, <1>3
<1>5. OptRows(rs) = Having(q, C)
  BY <1>1, <1>4 DEF OptRows, Kept, Having
<1> QED BY <1>5, HavingFilters

LEMMA WithStylesAre ==
  ASSUME NEW S, GoodRows(S), NEW opt \in Seq(S), NEW ss, ss = WithStyles(opt)
  PROVE  /\ ss \in Seq({r.style : r \in S}) /\ Distinct(ss) /\ ToSet(ss) = StylesScored(opt)
         /\ \A i \in DOMAIN ss : HasStyle(opt, ss[i])
<1>1. PICK X : X = {r.style : r \in S}
  OBVIOUS
<1>2. PICK ks \in Seq(X) : ks = Keys(opt, Style) /\ Distinct(ks) /\ ToSet(ks) = KeysMet(opt, StyleIn(S))
  BY <1>1, StyleKeys
<1>3. PICK C : C = {k \in X : HasStyle(opt, k)}
  OBVIOUS
<1>4. {i \in DOMAIN ks : HasStyle(opt, ks[i])} = {i \in DOMAIN ks : ks[i] \in C}
  BY <1>3
<1>5. ss = Having(ks, C)
  BY <1>2, <1>4 DEF WithStyles, Kept, Having
<1>6. ss \in Seq(X \cap C) /\ ToSet(ss) = ToSet(ks) \cap C /\ Distinct(ss)
  BY <1>2, <1>5, HavingIsList, HavingMembers, HavingDistinct
<1>7. \A r \in ToSet(opt) : r \in S
  BY DEF ToSet
<1>8. ToSet(ks) = {r.style : r \in ToSet(opt)}
  BY <1>2, <1>7 DEF KeysMet, StyleIn
<1>9. ToSet(Scored(opt)) = {r \in ToSet(opt) : r.score # None}
  BY ScoredAre
<1>10. \A k : HasStyle(opt, k) <=> \E r \in ToSet(opt) : r.style = k /\ r.score # None
  BY StyleGroups
<1>11. \A k : k \in ToSet(ss) <=> \E r \in ToSet(Scored(opt)) : k = r.style
  BY <1>1, <1>3, <1>6, <1>7, <1>8, <1>9, <1>10
<1>12. \A i \in DOMAIN ss : ss[i] \in C
  BY <1>6
<1>13. ToSet(ss) = StylesScored(opt)
  BY <1>11 DEF StylesScored
<1>14. \A i \in DOMAIN ss : HasStyle(opt, ss[i])
  BY <1>3, <1>12
<1>15. ss \in Seq(X)
  BY <1>6
<1> QED BY <1>1, <1>6, <1>13, <1>14, <1>15

LEMMA OptEntryIs ==
  ASSUME NEW opt, NEW s, NEW met, NEW e, e = OptEntry(opt, s, met)
  PROVE  /\ e.name = s /\ e.score = StyleMean(opt, s) /\ e.runs = Len(Scored(Group(opt, Style, s)))
         /\ e.status = "analyzed" <=> s \notin Known
<1>1. CASE s \in Known
  <2>1. e = BaselineEntry(opt, s)
    BY <1>1 DEF OptEntry
  <2>2. e.status # "analyzed"
    BY <2>1, EntryIs
  <2> QED BY <1>1, <2>1, <2>2, EntryIs
<1>2. CASE s \notin Known
  <2>1. PICK base : base = IF Contains(met, plain) THEN ScoreIn(opt, Style, plain) ELSE Zero
    OBVIOUS
  <2>2. e = [Measured(opt, [name |-> s, baseline |-> plain], "analyzed")
               EXCEPT !.baseline_score = base, !.delta = Minus(ScoreIn(opt, Style, s), base)]
    BY <1>2, <2>1 DEF OptEntry
  <2> QED BY <1>2, <2>2 DEF Measured, StyleMean, ScoreIn
<1> QED BY <1>1, <1>2

(* After plain was met, a style that is not known is compared with it, and *)
(* before that with zero.                                                  *)
LEMMA MetPlain ==
  ASSUME NEW opt, NEW s, s \notin Known, NEW met
  PROVE  /\ Contains(met, plain) =>
              OptEntry(opt, s, met) = Measured(opt, [name |-> s, baseline |-> plain], "analyzed")
         /\ ~Contains(met, plain) =>
              /\ OptEntry(opt, s, met).baseline_score = Zero
              /\ OptEntry(opt, s, met).delta = Minus(StyleMean(opt, s), Zero)
<1>1. PICK c : c = [name |-> s, baseline |-> plain]
  OBVIOUS
<1>2. PICK base : base = IF Contains(met, plain) THEN ScoreIn(opt, Style, plain) ELSE Zero
  OBVIOUS
<1>3. OptEntry(opt, s, met) =
        [Measured(opt, c, "analyzed") EXCEPT !.baseline_score = base,
           !.delta = Minus(ScoreIn(opt, Style, s), base)]
  BY <1>1, <1>2 DEF OptEntry
<1>4. c.name = s /\ c.baseline = plain
  BY <1>1
<1>5. Contains(met, plain) => OptEntry(opt, s, met) = Measured(opt, c, "analyzed")
  BY <1>2, <1>3, <1>4 DEF Measured
<1>6. /\ OptEntry(opt, s, met).baseline_score = base
      /\ OptEntry(opt, s, met).delta = Minus(StyleMean(opt, s), base)
  BY <1>3 DEF Measured, StyleMean, ScoreIn
<1> QED BY <1>1, <1>2, <1>5, <1>6

(* Taking zero off changes nothing, and taking off a does so only if a is  *)
(* zero.                                                                   *)
LEMMA TakingOff ==
  ASSUME NEW a \in Fraction, NEW b \in Fraction
  PROVE  /\ Same(Minus(b, Zero), b)
         /\ Same(Minus(b, Zero), Minus(b, a)) <=> Same(a, Zero)
<1>1. PICK p \in Int, q \in Nat \ {0} : a = [num |-> p, den |-> q]
  BY DEF Fraction
<1>2. PICK r \in Int, t \in Nat \ {0} : b = [num |-> r, den |-> t]
  BY DEF Fraction
<1>3. Minus(b, Zero) = [num |-> r, den |-> t]
  <2>1. Minus(b, Zero) = [num |-> r * 1 - 0 * t, den |-> t * 1]
    BY <1>2 DEF Minus, Zero
  <2> QED BY <2>1
<1>4. Minus(b, a) = [num |-> r * q - p * t, den |-> t * q]
  BY <1>1, <1>2 DEF Minus
<1>5. Same(Minus(b, Zero), Minus(b, a)) <=> r * (t * q) = (r * q - p * t) * t
  BY <1>3, <1>4 DEF Same
<1>6. (r * q - p * t) * t = r * (t * q) - p * (t * t)
  OBVIOUS
<1>7. PICK x \in Int : x = r * (t * q)
  OBVIOUS
<1>8. PICK y \in Int : y = p * (t * t)
  OBVIOUS
<1>9. x = x - y <=> y = 0
  OBVIOUS
<1>10. y = 0 <=> p = 0
  <2>1. t * t > 0
    OBVIOUS
  <2>2. PICK z \in Nat \ {0} : z = t * t
    BY <2>1
  <2>3. p * z = 0 <=> p = 0
    OBVIOUS
  <2> QED BY <1>8, <2>2, <2>3
<1>11. Same(a, Zero) <=> p = 0
  BY <1>1 DEF Same, Zero
<1>12. Same(Minus(b, Zero), b)
  BY <1>2, <1>3 DEF Same
<1> QED BY <1>5, <1>6, <1>7, <1>8, <1>9, <1>10, <1>11, <1>12

OptList(opt) ==
  LET ss == WithStyles(opt) IN [i \in DOMAIN ss |-> OptEntry(opt, ss[i], SubSeq(ss, 1, i - 1))]

(* The entry at j of a candidate: plain was met before it, or not.         *)
PlainMet(es, j) == \E i \in 1..j-1 : es[i].name = plain
IsCompared(es, j, opt) ==
  /\ HasStyle(opt, es[j].name) /\ es[j].score = StyleMean(opt, es[j].name)
  /\ PlainMet(es, j) =>
       es[j] = Measured(opt, [name |-> es[j].name, baseline |-> plain], "analyzed")
  /\ ~PlainMet(es, j) => es[j].baseline_score = Zero /\ es[j].delta = Minus(es[j].score, Zero)

LEMMA OptListIs ==
  ASSUME NEW S, GoodRows(S), NEW opt \in Seq(S), NEW ss, ss = WithStyles(opt), NEW es, es = OptList(opt)
  PROVE  /\ DOMAIN es = DOMAIN ss
         /\ \A i, j \in DOMAIN es : i # j => es[i].name # es[j].name
         /\ \A j \in DOMAIN es : es[j].status = "analyzed" => IsCompared(es, j, opt)
<1>1. /\ ss \in Seq({r.style : r \in S}) /\ Distinct(ss)
      /\ \A i \in DOMAIN ss : HasStyle(opt, ss[i])
  BY WithStylesAre
<1>2. es = [i \in DOMAIN ss |-> OptEntry(opt, ss[i], SubSeq(ss, 1, i - 1))]
  BY DEF OptList
<1>3. \A i \in DOMAIN ss : es[i] = OptEntry(opt, ss[i], SubSeq(ss, 1, i - 1))
  BY <1>2
<1>4. \A i \in DOMAIN ss : es[i].name = ss[i] /\ (es[i].status = "analyzed" <=> ss[i] \notin Known)
  BY <1>3, OptEntryIs
<1>5. \A i, j \in DOMAIN es : i # j => es[i].name # es[j].name
  BY <1>1, <1>2, <1>4 DEF Distinct
<1>6. ASSUME NEW j \in DOMAIN ss, es[j].status = "analyzed" PROVE IsCompared(es, j, opt)
  <2>1. PICK n \in Nat : n = Len(ss) /\ DOMAIN ss = 1..n
    BY <1>1
  <2>2. PICK met : met = SubSeq(ss, 1, j - 1)
    OBVIOUS
  <2>3. Len(met) = j - 1 /\ \A i \in 1..j-1 : met[i] = ss[i] /\ i \in DOMAIN ss
    BY <1>1, <2>1, <2>2
  <2>4. Contains(met, plain) <=> PlainMet(es, j)
    <3>1. \A i \in 1..j-1 : es[i].name = met[i]
      BY <1>4, <2>3
    <3> QED BY <2>3, <3>1 DEF Contains, PlainMet
  <2>5. es[j] = OptEntry(opt, ss[j], met) /\ es[j].name = ss[j] /\ ss[j] \notin Known
    BY <1>3, <1>4, <1>6, <2>2
  <2>6. es[j].score = StyleMean(opt, ss[j])
    BY <2>5, OptEntryIs
  <2>7. PlainMet(es, j) => es[j] = Measured(opt, [name |-> ss[j], baseline |-> plain], "analyzed")
    BY <2>4, <2>5, MetPlain
  <2>8. ASSUME ~PlainMet(es, j)
        PROVE  es[j].baseline_score = Zero /\ es[j].delta = Minus(StyleMean(opt, ss[j]), Zero)
    <3>1. PICK k : k = ss[j]
      OBVIOUS
    <3>2. k \notin Known /\ ~Contains(met, plain)
      BY <2>4, <2>5, <2>8, <3>1
    <3>3. /\ OptEntry(opt, k, met).baseline_score = Zero
          /\ OptEntry(opt, k, met).delta = Minus(StyleMean(opt, k), Zero)
      BY <3>2, MetPlain
    <3> QED BY <2>5, <3>1, <3>3
  <2> QED BY <1>1, <2>5, <2>6, <2>7, <2>8 DEF IsCompared
<1> QED BY <1>2, <1>5, <1>6

LEMMA OptListTells ==
  ASSUME NEW S, GoodRows(S), NEW opt \in Seq(S), NEW es, es = OptList(opt)
  PROVE  {[style |-> e.name, score |-> e.score, runs |-> e.runs] : e \in ToSet(es)}
           = {StyleLine(opt, k) : k \in StylesScored(opt)}
<1>1. PICK ss \in Seq({r.style : r \in S}) : ss = WithStyles(opt) /\ ToSet(ss) = StylesScored(opt)
  BY WithStylesAre
<1>2. es = [i \in DOMAIN ss |-> OptEntry(opt, ss[i], SubSeq(ss, 1, i - 1))]
  BY <1>1 DEF OptList
<1>3. ASSUME NEW i \in DOMAIN ss
      PROVE  [style |-> es[i].name, score |-> es[i].score, runs |-> es[i].runs] = StyleLine(opt, ss[i])
  <2>1. es[i] = OptEntry(opt, ss[i], SubSeq(ss, 1, i - 1))
    BY <1>2
  <2> QED BY <2>1, OptEntryIs DEF StyleLine
<1>4. \A e \in ToSet(es) : \E i \in DOMAIN ss : e = es[i] /\ ss[i] \in ToSet(ss)
  BY <1>2 DEF ToSet
<1>5. \A k \in ToSet(ss) : \E i \in DOMAIN ss : k = ss[i] /\ es[i] \in ToSet(es)
  BY <1>2 DEF ToSet
<1> QED BY <1>1, <1>3, <1>4, <1>5

LEMMA OptSectionHolds == ASSUME FillInv PROVE OptSectionComparesWithPlain
<1>1. rows \in Seq(FillRows) /\ GoodRows(FillRows)
  BY FillRowsAre DEF FillInv
<1> DEFINE opt == OptRows(rows)
           es == OptResults(rows)
<1>2. opt \in Seq(FillRows)
  BY <1>1, OptRowsAre
<1>3. es = <<>> \/ es = OptList(opt)
  BY DEF OptResults, OptList, WithStyles
<1> HIDE DEF opt, es
<1>4. \A i, j \in DOMAIN es : i # j => es[i].name # es[j].name
  <2>1. CASE es = <<>>
    BY <2>1
  <2>2. CASE es = OptList(opt)
    BY <1>1, <1>2, <2>2, OptListIs
  <2> QED BY <1>3, <2>1, <2>2
<1>5. es # <<>> => {[style |-> e.name, score |-> e.score, runs |-> e.runs] : e \in ToSet(es)}
                     = {StyleLine(opt, k) : k \in StylesScored(opt)}
  BY <1>1, <1>2, <1>3, OptListTells
<1> DEFINE Optimizer(e) == Metadata(opt, <<[name |-> e.name, baseline |-> plain]>>)[1]
<1>6. ASSUME NEW j \in DOMAIN es, es[j].status = "analyzed"
      PROVE  /\ PlainMet(es, j) => es[j] = Optimizer(es[j])
             /\ ~PlainMet(es, j) => es[j].baseline_score = Zero /\ Same(es[j].delta, es[j].score)
             /\ Same(es[j].delta, Optimizer(es[j]).delta)
                  <=> PlainMet(es, j) \/ Same(ScoreIn(opt, Style, plain), Zero)
  <2>1. es = OptList(opt)
    BY <1>3, <1>6
  <2>2. PICK c : c = [name |-> es[j].name, baseline |-> plain]
    OBVIOUS
  <2>3. IsCompared(es, j, opt)
    BY <1>1, <1>2, <1>6, <2>1, OptListIs
  <2>4. DOMAIN <<c>> = {1} /\ <<c>>[1] = c /\ c.name = es[j].name /\ c.baseline = plain
    BY <2>2
  <2>5. Metadata(opt, <<c>>)[1] = Measured(opt, c, "analyzed")
    BY <2>3, <2>4 DEF Metadata, IsCompared
  <2>6. Optimizer(es[j]) = Measured(opt, c, "analyzed")
    BY <2>2, <2>5
  <2>7. PICK x \in Fraction, y \in Fraction : x = StyleMean(opt, plain) /\ y = StyleMean(opt, es[j].name)
    BY <1>1, <1>2, StyleGroups DEF Average
  <2>8. Optimizer(es[j]).delta = Minus(y, x)
    BY <2>4, <2>6, <2>7, MeasuredIs
  <2>9. ScoreIn(opt, Style, plain) = x
    BY <2>7 DEF StyleMean, ScoreIn
  <2>10. CASE PlainMet(es, j)
    <3>1. es[j] = Optimizer(es[j])
      BY <2>2, <2>3, <2>6, <2>10 DEF IsCompared
    <3>2. Minus(y, x) \in Fraction
      BY <2>7, MinusFraction
    <3>3. Same(Minus(y, x), Minus(y, x))
      BY <3>2, LeTotal
    <3> QED BY <2>8, <2>10, <3>1, <3>3
  <2>11. CASE ~PlainMet(es, j)
    <3>1. es[j].baseline_score = Zero /\ es[j].delta = Minus(y, Zero) /\ es[j].score = y
      BY <2>3, <2>7, <2>11 DEF IsCompared
    <3> QED BY <2>7, <2>8, <2>9, <2>11, <3>1, TakingOff
  <2> QED BY <2>10, <2>11
<1>7. es # <<>> => {[style |-> e.name, score |-> e.score, runs |-> e.runs] : e \in ToSet(es)}
        = {[style |-> k, score |-> ScoreIn(opt, Style, k), runs |-> Len(Scored(Group(opt, Style, k)))] :
             k \in {r.style : r \in ToSet(Scored(opt))}}
  BY <1>5 DEF StyleLine, StyleMean, ScoreIn, StylesScored
<1> QED BY <1>4, <1>6, <1>7 DEF OptSectionComparesWithPlain, PlainMet, opt, es

(* Whatever was recorded and added to the registry, a comparison is of the *)
(* candidates added last under their names; it lists each once, and what it*)
(* adopts stands above its baseline; and the section of v2 agrees with it  *)
(* except on candidates met before a plain that scored.                    *)
THEOREM ComparisonsAreFounded == OptSpec => []CandidatesAreCompared
<1>1. FillInv /\ RegistryInv => CandidatesAreCompared
  BY LastWins, ComparisonsHold, OptSectionHolds DEF CandidatesAreCompared
<1> QED BY <1>1, OptFillInv, RegistryHolds, PTL

-----------------------------------------------------------------------------
(* The margins of a ranking: none is negative, and they add up.            *)
LEMMA GapIs ==
  ASSUME NEW a \in Fraction, NEW b \in Fraction, NEW c \in Fraction
  PROVE  /\ Le(b, a) => Le(Zero, Minus(a, b))
         /\ Le(c, b) => Le(Minus(a, b), Minus(a, c))
<1>1. PICK p \in Int, q \in Nat \ {0} : a = [num |-> p, den |-> q]
  BY DEF Fraction
<1>2. PICK r \in Int, s \in Nat \ {0} : b = [num |-> r, den |-> s]
  BY DEF Fraction
<1>3. PICK t \in Int, u \in Nat \ {0} : c = [num |-> t, den |-> u]
  BY DEF Fraction
<1>4. Le(b, a) => Le(Zero, Minus(a, b))
  <2>1. PICK x \in Int, y \in Int : x = p * s /\ y = r * q
    OBVIOUS
  <2>2. Le(b, a) <=> y <= x
    BY <1>1, <1>2, <2>1 DEF Le
  <2>3. Minus(a, b) = [num |-> x - y, den |-> q * s]
    BY <1>1, <1>2, <2>1 DEF Minus
  <2>4. q * s \in Nat /\ 0 * (q * s) = 0
    OBVIOUS
  <2> QED BY <2>1, <2>2, <2>3, <2>4 DEF Le, Zero
<1>5. ASSUME Le(c, b) PROVE Le(Minus(a, b), Minus(a, c))
  <2>1. t * s <= r * u
    BY <1>2, <1>3, <1>5 DEF Le
  <2>2. (t * s) * (q * q) <= (r * u) * (q * q)
    <3>1. PICK x \in Int, y \in Int : x = t * s /\ y = r * u
      OBVIOUS
    <3>2. PICK z \in Nat : z = q * q
      OBVIOUS
    <3>3. x * z <= y * z
      BY <2>1, <3>1
    <3> QED BY <3>1, <3>2, <3>3
  <2>3. (p * s - r * q) * (q * u) = (p * s) * (q * u) - (r * u) * (q * q)
    OBVIOUS
  <2>4. (p * u - t * q) * (q * s) = (p * s) * (q * u) - (t * s) * (q * q)
    OBVIOUS
  <2>5. (p * s - r * q) * (q * u) <= (p * u - t * q) * (q * s)
    <3>1. PICK x \in Int, y \in Int, z \in Int :
            x = (t * s) * (q * q) /\ y = (r * u) * (q * q) /\ z = (p * s) * (q * u)
      OBVIOUS
    <3>2. z - y <= z - x
      BY <2>2, <3>1
    <3> QED BY <2>3, <2>4, <3>1, <3>2
  <2> QED BY <1>1, <1>2, <1>3, <2>5 DEF Le, Minus
<1> QED BY <1>4, <1>5

(* What is gained up to b, and then from b to c.                           *)
LEMMA GapAdds ==
  ASSUME NEW a \in Fraction, NEW b \in Fraction, NEW c \in Fraction, NEW g \in Fraction,
         Same(g, Minus(a, b)), NEW h, h = Minus(g, Minus(Zero, Minus(b, c)))
  PROVE  h \in Fraction /\ Same(h, Minus(a, c))
<1>1. PICK p \in Int, q \in Nat \ {0} : a = [num |-> p, den |-> q]
  BY DEF Fraction
<1>2. PICK r \in Int, s \in Nat \ {0} : b = [num |-> r, den |-> s]
  BY DEF Fraction
<1>3. PICK t \in Int, u \in Nat \ {0} : c = [num |-> t, den |-> u]
  BY DEF Fraction
<1>4. PICK x \in Int, y \in Nat \ {0} : g = [num |-> x, den |-> y]
  BY DEF Fraction
<1>5. Minus(Zero, Minus(b, c)) = Minus(c, b)
  BY LossIs
<1>6. h = [num |-> x * (u * s) - (t * s - r * u) * y, den |-> y * (u * s)]
  BY <1>2, <1>3, <1>4, <1>5 DEF Minus
<1>7. h \in Fraction
  BY <1>5, MinusFraction
<1>8. x * (q * s) = (p * s - r * q) * y
  BY <1>1, <1>2, <1>4 DEF Same, Minus
<1>9. (x * (u * s) - (t * s - r * u) * y) * (q * u) = (p * u - t * q) * (y * (u * s))
  <2>1. (x * (u * s) - (t * s - r * u) * y) * (q * u)
          = (x * (q * s)) * (u * u) - (t * s - r * u) * y * (q * u)
    OBVIOUS
  <2>2. (x * (q * s)) * (u * u) = ((p * s - r * q) * y) * (u * u)
    BY <1>8
  <2>3. ((p * s - r * q) * y) * (u * u) - (t * s - r * u) * y * (q * u)
          = (p * u - t * q) * (y * (u * s))
    OBVIOUS
  <2> QED BY <2>1, <2>2, <2>3
<1> QED BY <1>1, <1>3, <1>6, <1>7, <1>9 DEF Same, Minus

AreGaps(g, h, i, n) ==
  g = [j \in i..n |-> IF j = i THEN Zero ELSE Minus(g[j-1], Minus(Zero, h[j-1]))]
Steps(v, h, n) == \A j \in 1..n : j + 1 <= n => h[j] = Minus(v[j], v[j + 1])

LEMMA GapsExist ==
  ASSUME NEW n \in Nat, NEW i \in 1..n, NEW h \in [1..n -> Fraction]
  PROVE  \E g \in [i..n -> Fraction] : AreGaps(g, h, i, n)
<1>1. PICK m \in Nat : m = n - i
  OBVIOUS
<1>2. PICK k : k = [l \in 1..m |-> [x \in Fraction |-> Minus(x, Minus(Zero, h[i + l - 1]))]]
  OBVIOUS
<1>3. Zero \in Fraction
  BY ZeroIs DEF Average
<1>4. \A l \in 1..m : \A x \in Fraction : /\ k[l][x] = Minus(x, Minus(Zero, h[i + l - 1]))
                                          /\ Minus(x, Minus(Zero, h[i + l - 1])) \in Fraction
  <2> SUFFICES ASSUME NEW l \in 1..m, NEW x \in Fraction
               PROVE  /\ k[l][x] = Minus(x, Minus(Zero, h[i + l - 1]))
                      /\ Minus(x, Minus(Zero, h[i + l - 1])) \in Fraction
    OBVIOUS
  <2>1. i + l - 1 \in 1..n
    BY <1>1
  <2>2. h[i + l - 1] \in Fraction
    BY <2>1
  <2>3. Minus(Zero, h[i + l - 1]) \in Fraction
    BY <1>3, <2>2, MinusFraction
  <2> QED BY <1>2, <2>3, MinusFraction
<1>5. k \in [1..m -> [Fraction -> Fraction]]
  <2>1. \A l \in 1..m : k[l] = [x \in Fraction |-> Minus(x, Minus(Zero, h[i + l - 1]))]
    BY <1>2
  <2>2. \A l \in 1..m : k[l] \in [Fraction -> Fraction]
    BY <1>4, <2>1
  <2>3. k = [l \in 1..m |-> k[l]]
    BY <1>2
  <2> QED BY <2>2, <2>3
<1>6. PICK f \in [0..m -> Fraction] : Passes(f, m, Zero, k)
  BY <1>3, <1>5, PassesExist
<1>7. PICK g : g = [j \in i..n |-> f[j - i]]
  OBVIOUS
<1>8. \A j \in i..n : j - i \in 0..m /\ g[j] = f[j - i] /\ g[j] \in Fraction
  BY <1>1, <1>7
<1>9. ASSUME NEW j \in i..n
      PROVE  g[j] = IF j = i THEN Zero ELSE Minus(g[j-1], Minus(Zero, h[j-1]))
  <2>1. CASE j = i
    BY <1>6, <1>8, <2>1 DEF Passes
  <2>2. CASE j # i
    <3>1. j - i \in 1..m /\ j - 1 \in i..n /\ (j - 1) - i = (j - i) - 1 /\ i + (j - i) - 1 = j - 1
      BY <1>1, <2>2
    <3>2. f[j - i] = k[j - i][f[(j - i) - 1]]
      BY <1>6, <3>1 DEF Passes
    <3>3. f[(j - i) - 1] = g[j - 1] /\ g[j - 1] \in Fraction
      BY <1>8, <3>1
    <3>4. k[j - i][g[j - 1]] = Minus(g[j - 1], Minus(Zero, h[j - 1]))
      BY <1>4, <3>1, <3>3
    <3> QED BY <1>8, <2>2, <3>2, <3>3, <3>4
  <2> QED BY <2>1, <2>2
<1>10. g \in [i..n -> Fraction]
  BY <1>7, <1>8
<1>11. g = [j \in i..n |-> IF j = i THEN Zero ELSE Minus(g[j-1], Minus(Zero, h[j-1]))]
  BY <1>7, <1>9
<1> QED BY <1>10, <1>11 DEF AreGaps

LEMMA GapsAdd ==
  ASSUME NEW n \in Nat, NEW i \in 1..n, NEW v \in [1..n -> Fraction], NEW h, Steps(v, h, n),
         NEW g, AreGaps(g, h, i, n)
  PROVE  \A j \in i..n : g[j] \in Fraction /\ Same(g[j], Minus(v[i], v[j]))
<1>1. \A j \in i..n : g[j] = IF j = i THEN Zero ELSE Minus(g[j-1], Minus(Zero, h[j-1]))
  <2>1. PICK k : k = [j \in i..n |-> IF j = i THEN Zero ELSE Minus(g[j-1], Minus(Zero, h[j-1]))]
    OBVIOUS
  <2>2. g = k
    BY <2>1 DEF AreGaps
  <2>3. \A j \in i..n : k[j] = IF j = i THEN Zero ELSE Minus(g[j-1], Minus(Zero, h[j-1]))
    BY <2>1
  <2> QED BY <2>2, <2>3
<1> DEFINE Good == {m \in Nat : i + m <= n => g[i + m] \in Fraction /\ Same(g[i + m], Minus(v[i], v[i + m]))}
<1>2. 0 \in Good
  <2>1. i \in i..n /\ i + 0 = i
    OBVIOUS
  <2>2. g[i] = Zero
    BY <1>1, <2>1
  <2>3. Same(Zero, Minus(v[i], v[i])) /\ Zero \in Fraction
    <3>1. PICK p \in Int, q \in Nat \ {0} : v[i] = [num |-> p, den |-> q]
      BY DEF Fraction
    <3>2. p * q - p * q = 0 /\ q * q \in Nat /\ 0 * (q * q) = 0
      OBVIOUS
    <3> QED BY <3>1, <3>2, ZeroIs DEF Same, Minus, Zero, Average
  <2> QED BY <2>1, <2>2, <2>3
<1>3. ASSUME NEW m \in Nat, m \in Good PROVE m + 1 \in Good
  <2> SUFFICES ASSUME i + (m + 1) <= n
               PROVE  g[i + (m + 1)] \in Fraction /\ Same(g[i + (m + 1)], Minus(v[i], v[i + (m + 1)]))
    OBVIOUS
  <2>1. PICK j \in 1..n : j = i + m /\ i + (m + 1) = j + 1 /\ j + 1 \in i..n /\ j + 1 \in 1..n
                          /\ j + 1 # i /\ j + 1 <= n
    OBVIOUS
  <2>2. g[j] \in Fraction /\ Same(g[j], Minus(v[i], v[j]))
    BY <1>3, <2>1
  <2>3. g[j + 1] = Minus(g[j], Minus(Zero, h[j]))
    BY <1>1, <2>1
  <2>4. h[j] = Minus(v[j], v[j + 1])
    BY <2>1 DEF Steps
  <2>5. v[i] \in Fraction /\ v[j] \in Fraction /\ v[j + 1] \in Fraction
    BY <2>1
  <2>6. g[j + 1] \in Fraction /\ Same(g[j + 1], Minus(v[i], v[j + 1]))
    BY <2>2, <2>3, <2>4, <2>5, GapAdds
  <2> QED BY <2>1, <2>6
<1> HIDE DEF Good
<1>4. Nat \subseteq Good
  BY <1>2, <1>3, NumberInduction
<1>5. ASSUME NEW j \in i..n PROVE g[j] \in Fraction /\ Same(g[j], Minus(v[i], v[j]))
  <2>1. PICK m \in Nat : m = j - i /\ i + m = j
    OBVIOUS
  <2>2. m \in Good
    BY <1>4
  <2> QED BY <2>1, <2>2 DEF Good
<1> QED BY <1>5

-----------------------------------------------------------------------------
(* A ranking with its margins.                                             *)
AreMargins(r, t) ==
  /\ DOMAIN r = DOMAIN t /\ Len(r) = Len(t)
  /\ \A i \in DOMAIN t : /\ r[i].style = t[i].style /\ r[i].score = t[i].score /\ r[i].runs = t[i].runs
                         /\ i + 1 \in DOMAIN t => r[i].margin = Minus(t[i].score, t[i + 1].score)
                         /\ i + 1 \notin DOMAIN t => r[i].margin = Minus(t[i].score, t[i].score)

LEMMA MarginsAre ==
  ASSUME NEW T, NEW t \in Seq(T), NEW r, r = WithMargins(t) PROVE AreMargins(r, t)
<1>1. PICK n \in Nat : n = Len(t) /\ DOMAIN t = 1..n
  OBVIOUS
<1>2. r = [i \in 1..n |-> Margined(t[i], Minus(t[i].score, t[IF i < n THEN i + 1 ELSE i].score))]
  BY <1>1 DEF WithMargins
<1>3. DOMAIN r = 1..n /\ Len(r) = n
  <2>1. DOMAIN r = 1..n
    BY <1>2
  <2>2. r \in Seq({r[i] : i \in 1..n})
    <3>1. r \in [1..n -> {r[i] : i \in 1..n}]
      BY <1>2
    <3> QED BY <3>1
  <2> QED BY <2>1, <2>2
<1>4. ASSUME NEW i \in 1..n
      PROVE  /\ r[i].style = t[i].style /\ r[i].score = t[i].score /\ r[i].runs = t[i].runs
             /\ i + 1 \in 1..n => r[i].margin = Minus(t[i].score, t[i + 1].score)
             /\ i + 1 \notin 1..n => r[i].margin = Minus(t[i].score, t[i].score)
  <2>1. r[i] = Margined(t[i], Minus(t[i].score, t[IF i < n THEN i + 1 ELSE i].score))
    BY <1>2
  <2>2. i + 1 \in 1..n <=> i < n
    OBVIOUS
  <2>3. /\ r[i].style = t[i].style /\ r[i].score = t[i].score /\ r[i].runs = t[i].runs
        /\ r[i].margin = Minus(t[i].score, t[IF i < n THEN i + 1 ELSE i].score)
    BY <2>1 DEF Margined
  <2> QED BY <2>2, <2>3
<1> QED BY <1>1, <1>3, <1>4 DEF AreMargins

(* The averages of a list of styles fall.                                  *)
AreFalling(t) ==
  /\ \A i \in DOMAIN t : t[i].score \in Fraction
  /\ \A i, j \in DOMAIN t : i <= j => Le(t[j].score, t[i].score)

LEMMA MarginsHold ==
  ASSUME NEW T, NEW t \in Seq(T), AreFalling(t), NEW r, AreMargins(r, t), NEW i \in DOMAIN r,
         NEW g, g = CHOOSE x : AreGaps(x, [j \in DOMAIN t |-> r[j].margin], i, Len(r))
  PROVE  /\ Le(Zero, r[i].margin)
         /\ \A j \in i..Len(r) : Same(g[j], Minus(r[i].score, r[j].score))
<1>1. PICK n \in Nat : n = Len(t) /\ DOMAIN t = 1..n /\ n = Len(r) /\ DOMAIN r = 1..n
  <2>1. DOMAIN r = DOMAIN t /\ Len(r) = Len(t)
    BY DEF AreMargins
  <2>2. Len(t) \in Nat /\ DOMAIN t = 1..Len(t)
    OBVIOUS
  <2> QED BY <2>1, <2>2
<1>2. PICK v : v = [j \in 1..n |-> t[j].score]
  OBVIOUS
<1>3. PICK h : h = [j \in 1..n |-> r[j].margin]
  OBVIOUS
<1>4. v \in [1..n -> Fraction]
  BY <1>1, <1>2 DEF AreFalling
<1>5. \A j \in 1..n : /\ j + 1 \in 1..n => h[j] = Minus(v[j], v[j + 1])
                      /\ j + 1 \notin 1..n => h[j] = Minus(v[j], v[j])
  BY <1>1, <1>2, <1>3 DEF AreMargins
<1>6. h \in [1..n -> Fraction]
  <2>1. ASSUME NEW j \in 1..n PROVE h[j] \in Fraction
    <3>1. v[j] \in Fraction /\ (j + 1 \in 1..n => v[j + 1] \in Fraction)
      BY <1>4
    <3> QED BY <1>5, <3>1, MinusFraction
  <2> QED BY <1>3, <2>1
<1>7. Steps(v, h, n)
  <2>1. \A j \in 1..n : j + 1 <= n => j + 1 \in 1..n
    OBVIOUS
  <2> QED BY <1>5, <2>1 DEF Steps
<1>8. AreGaps(g, h, i, n)
  <2>1. \E f : AreGaps(f, h, i, n)
    BY <1>1, <1>6, GapsExist
  <2>2. AreGaps(CHOOSE f : AreGaps(f, h, i, n), h, i, n)
    BY <2>1
  <2> QED BY <1>1, <1>3, <2>2
<1>9. \A j \in i..n : Same(g[j], Minus(v[i], v[j]))
  BY <1>1, <1>4, <1>7, <1>8, GapsAdd
<1>10. \A j \in 1..n : r[j].score = v[j]
  BY <1>1, <1>2 DEF AreMargins
<1>11. Le(Zero, r[i].margin)
  <2>1. r[i].margin = h[i]
    BY <1>1, <1>3
  <2>2. CASE i + 1 \in 1..n
    <3>1. Le(v[i + 1], v[i])
      BY <1>1, <1>2, <2>2 DEF AreFalling
    <3>2. v[i] \in Fraction /\ v[i + 1] \in Fraction
      BY <1>1, <1>4, <2>2
    <3> QED BY <1>1, <1>5, <2>1, <2>2, <3>1, <3>2, GapIs
  <2>3. CASE i + 1 \notin 1..n
    <3>1. v[i] \in Fraction
      BY <1>1, <1>4
    <3> QED BY <1>1, <1>5, <2>1, <2>3, <3>1, GapIs, LeTotal
  <2> QED BY <2>2, <2>3
<1>12. i \in 1..n /\ \A j \in i..n : j \in 1..n
  BY <1>1
<1> QED BY <1>1, <1>9, <1>10, <1>11, <1>12

LEMMA AveragesFall ==
  ASSUME NEW S, NEW rs, NEW t, AreAverages(t, rs, S)
  PROVE  t \in Seq(StyleLines(S)) /\ AreFalling(t)
<1>1. t \in Seq(StyleLines(S)) /\ \A i, j \in DOMAIN t : i <= j => Le(t[j].score, t[i].score)
  BY DEF AreAverages
<1>2. \A i \in DOMAIN t : t[i] \in StyleLines(S)
  BY <1>1
<1>3. \A i \in DOMAIN t : t[i].score \in Fraction
  BY <1>2 DEF StyleLines
<1> QED BY <1>1, <1>3 DEF AreFalling

LEMMA FamilyGroup ==
  ASSUME NEW S, NEW rs \in Seq(S), NEW f PROVE Group(rs, Family, f) \in Seq(S)
<1>1. PICK g : g = FamilyIn(S)
  OBVIOUS
<1>2. DOMAIN g = S
  BY <1>1 DEF FamilyIn
<1>3. Group(rs, Family, f) = GroupBy(rs, g, f)
  BY <1>1, FamilyBy
<1> QED BY <1>2, <1>3, GroupByIs

LEMMA MarginsAdd == ASSUME FillInv PROVE MarginsAddUp
<1>1. rows \in Seq(FillRows) /\ GoodRows(FillRows)
  BY FillRowsAre DEF FillInv
<1>2. ASSUME NEW f, NEW r, r = Ranking(rows, f), NEW i \in DOMAIN r
      PROVE  LET gap[j \in i..Len(r)] ==
                   IF j = i THEN Zero ELSE Minus(gap[j-1], Minus(Zero, r[j-1].margin))
             IN /\ Le(Zero, r[i].margin)
                /\ \A j \in i..Len(r) : Same(gap[j], Minus(r[i].score, r[j].score))
  <2>1. PICK of \in Seq(FillRows) : of = Group(rows, Family, f)
    BY <1>1, FamilyGroup
  <2>2. PICK t \in Seq(StyleLines(FillRows)) : t = StyleAverages(of) /\ AreFalling(t)
    BY <1>1, AveragesAre, AveragesFall
  <2>3. AreMargins(r, t)
    BY <1>2, <2>1, <2>2, MarginsAre DEF Ranking
  <2>4. PICK h : h = [j \in DOMAIN t |-> r[j].margin]
    OBVIOUS
  <2>5. PICK n : n = Len(r)
    OBVIOUS
  <2>6. PICK g : g = CHOOSE x : AreGaps(x, h, i, n)
    OBVIOUS
  <2>7. /\ Le(Zero, r[i].margin)
        /\ \A j \in i..n : Same(g[j], Minus(r[i].score, r[j].score))
    BY <2>2, <2>3, <2>4, <2>5, <2>6, MarginsHold
  <2>8. \A j \in i..n : j # i => h[j - 1] = r[j - 1].margin
    <3>1. n \in Nat /\ DOMAIN t = 1..n /\ i \in 1..n
      BY <1>2, <2>3, <2>5 DEF AreMargins
    <3>2. \A j \in i..n : j # i => j - 1 \in 1..n
      BY <3>1
    <3> QED BY <2>4, <3>1, <3>2
  <2>9. \A x : AreGaps(x, h, i, n) <=>
          x = [j \in i..n |-> IF j = i THEN Zero ELSE Minus(x[j-1], Minus(Zero, r[j-1].margin))]
    BY <2>8 DEF AreGaps
  <2>10. g = CHOOSE x : x = [j \in i..n |-> IF j = i THEN Zero ELSE Minus(x[j-1], Minus(Zero, r[j-1].margin))]
    BY <2>6, <2>9
  <2> QED BY <2>5, <2>7, <2>10
<1> QED BY <1>2 DEF MarginsAddUp

-----------------------------------------------------------------------------
(* The styles with enough scored rows, where they stand in the ranking.    *)
Enough(t, min) == Kept(t, LAMBDA s : s.runs >= min)
Drawn(u, t, at, min) ==
  /\ DOMAIN u = 1..Len(u)
  /\ \A a \in DOMAIN u : at[a] \in DOMAIN t /\ u[a] = t[at[a]] /\ t[at[a]].runs >= min
  /\ \A a, b \in DOMAIN u : a < b => at[a] < at[b]
  /\ \A i \in DOMAIN t : t[i].runs >= min => \E a \in DOMAIN u : at[a] = i

LEMMA EnoughIs ==
  ASSUME NEW T, NEW t \in Seq(T), NEW min, NEW u, u = Enough(t, min)
  PROVE  u \in Seq(T) /\ \E at : Drawn(u, t, at, min)
<1>1. PICK J : J = {i \in DOMAIN t : t[i].runs >= min}
  OBVIOUS
<1>2. IsFiniteSet(J) /\ J \subseteq Int /\ J \subseteq DOMAIN t
  <2>1. IsFiniteSet(DOMAIN t) /\ DOMAIN t = 1..Len(t)
    BY Positions
  <2>2. J \subseteq DOMAIN t
    BY <1>1
  <2> QED BY <2>1, <2>2, FS_Subset
<1>3. u = Part(t, J)
  BY <1>1 DEF Enough, Kept
<1>4. u \in Seq(T)
  <2>1. \A i \in J : t[i] \in T
    BY <1>2
  <2> QED BY <1>2, <1>3, <2>1, PartIsList
<1>5. IsPart(u, t, J)
  BY <1>2, <1>3, PartMembers
<1>6. PICK at : at = [a \in DOMAIN u |-> Nth(J, a)]
  OBVIOUS
<1>7. DOMAIN u = 1..Len(u)
  BY <1>4
<1>8. \A a \in DOMAIN u : at[a] \in J /\ u[a] = t[at[a]]
  BY <1>5, <1>6 DEF IsPart
<1>9. \A a, b \in DOMAIN u : a < b => at[a] < at[b]
  <2>1. DOMAIN u = 1..Cardinality(J)
    BY <1>5 DEF IsPart
  <2>2. \A a, b \in 1..Cardinality(J) : a < b => Nth(J, a) < Nth(J, b)
    BY <1>2, NthGrows
  <2> QED BY <1>6, <2>1, <2>2
<1>10. \A i \in J : \E a \in DOMAIN u : at[a] = i
  BY <1>5, <1>6 DEF IsPart
<1>11. Drawn(u, t, at, min)
  BY <1>1, <1>7, <1>8, <1>9, <1>10 DEF Drawn
<1> QED BY <1>4, <1>11

(* What is drawn first leads what is drawn with a larger minimum, and      *)
(* leads the next one drawn by no less than the next in the ranking.       *)
LEMMA FirstLeads ==
  ASSUME NEW S, NEW t \in Seq(StyleLines(S)), AreFalling(t), NEW min \in Nat,
         NEW u, NEW at, Drawn(u, t, at, min), NEW w, NEW bt, Drawn(w, t, bt, min + 1), 1 \in DOMAIN w
  PROVE  1 \in DOMAIN u /\ Le(w[1].score, u[1].score)
<1>1. bt[1] \in DOMAIN t /\ w[1] = t[bt[1]] /\ t[bt[1]].runs >= min + 1
  BY DEF Drawn
<1>2. t[bt[1]].runs \in Nat
  <2>1. t[bt[1]] \in StyleLines(S)
    BY <1>1
  <2> QED BY <2>1 DEF StyleLines
<1>3. t[bt[1]].runs >= min
  BY <1>1, <1>2
<1>4. PICK a \in DOMAIN u : at[a] = bt[1]
  BY <1>1, <1>3 DEF Drawn
<1>5. 1 \in DOMAIN u /\ (a = 1 \/ 1 < a)
  <2>1. DOMAIN u = 1..Len(u)
    BY DEF Drawn
  <2>2. a \in Int /\ 1 <= a /\ a <= Len(u)
    BY <1>4, <2>1
  <2>3. 1 \in DOMAIN u
    BY <2>1, <2>2
  <2> QED BY <2>2, <2>3
<1>6. at[1] \in DOMAIN t /\ u[1] = t[at[1]] /\ (a = 1 \/ at[1] < at[a])
  BY <1>5 DEF Drawn
<1>7. DOMAIN t = 1..Len(t)
  OBVIOUS
<1>8. at[1] <= at[a] /\ at[a] \in DOMAIN t
  BY <1>1, <1>4, <1>6, <1>7
<1>9. Le(t[at[a]].score, t[at[1]].score)
  BY <1>6, <1>8 DEF AreFalling
<1> QED BY <1>1, <1>4, <1>5, <1>6, <1>9

LEMMA LeadGrows ==
  ASSUME NEW S, NEW t \in Seq(StyleLines(S)), AreFalling(t), NEW r, AreMargins(r, t), NEW min,
         NEW u \in Seq(StyleLines(S)), NEW at, Drawn(u, t, at, min), 1 \in DOMAIN u,
         NEW b, AreMargins(b, u)
  PROVE  \E i \in DOMAIN r : r[i].style = b[1].style /\ (Len(b) > 1 => Le(r[i].margin, b[1].margin))
<1>1. PICK i \in DOMAIN t : i = at[1] /\ u[1] = t[i]
  BY DEF Drawn
<1>2. i \in DOMAIN r /\ r[i].style = t[i].style /\ b[1].style = u[1].style
  BY <1>1 DEF AreMargins
<1>3. ASSUME Len(b) > 1 PROVE Le(r[i].margin, b[1].margin)
  <2>1. 2 \in DOMAIN u
    <3>1. Len(u) \in Nat /\ DOMAIN u = 1..Len(u) /\ Len(b) = Len(u)
      BY DEF AreMargins
    <3> QED BY <1>3, <3>1
  <2>2. PICK k \in DOMAIN t : k = at[2] /\ u[2] = t[k] /\ i < k
    BY <1>1, <2>1 DEF Drawn
  <2>3. i + 1 \in DOMAIN t /\ i + 1 <= k
    <3>1. DOMAIN t = 1..Len(t)
      OBVIOUS
    <3> QED BY <2>2, <3>1
  <2>4. b[1].margin = Minus(t[i].score, t[k].score)
    <3>1. 1 + 1 \in DOMAIN u
      BY <2>1
    <3>2. b[1].margin = Minus(u[1].score, u[1 + 1].score)
      BY <3>1 DEF AreMargins
    <3> QED BY <1>1, <2>2, <3>2
  <2>5. r[i].margin = Minus(t[i].score, t[i + 1].score)
    BY <2>3 DEF AreMargins
  <2>6. Le(t[k].score, t[i + 1].score)
    BY <2>3 DEF AreFalling
  <2>7. t[i].score \in Fraction /\ t[i + 1].score \in Fraction /\ t[k].score \in Fraction
    BY <2>3 DEF AreFalling
  <2> QED BY <2>4, <2>5, <2>6, <2>7, GapIs
<1> QED BY <1>1, <1>2, <1>3

(* A style with scored rows is a key of the styled ones.                   *)
LEMMA StyledKeys ==
  ASSUME NEW S, GoodRows(S), NEW rs \in Seq(S)
  PROVE  ToSet(Keys(Styled(rs), Style)) = {r.style : r \in ToSet(rs)} \ {None}
<1>1. PICK g : g = StyleIn(S)
  OBVIOUS
<1>2. DOMAIN g = S
  BY <1>1 DEF StyleIn
<1>3. PICK t \in Seq(S) : t = Styled(rs) /\ KeysMet(t, g) = KeysMet(rs, g) \ {None}
  BY <1>1, <1>2, StyledIs, NamedGroups
<1>4. ToSet(Keys(t, Style)) = KeysMet(t, g)
  BY <1>1, StyleKeys
<1>5. \A r \in ToSet(rs) : r \in S
  BY DEF ToSet
<1>6. KeysMet(rs, g) = {r.style : r \in ToSet(rs)}
  BY <1>1, <1>5 DEF KeysMet, StyleIn
<1> QED BY <1>3, <1>4, <1>6

(* Without unscored rows every row of a style counts.                      *)
LEMMA AllCount ==
  ASSUME NEW S, GoodRows(S), NEW rs \in Seq(S), \A r \in ToSet(rs) : r.score # None, NEW k
  PROVE  Scored(Group(rs, Style, k)) = Group(rs, Style, k)
<1>1. PICK t \in Seq(S) : t = Group(rs, Style, k)
  BY StyleGroups
<1>2. \A r \in ToSet(t) : r \in ToSet(rs)
  <2>1. PICK g : g = StyleIn(S)
    OBVIOUS
  <2>2. DOMAIN g = S
    BY <2>1 DEF StyleIn
  <2>3. t = GroupBy(rs, g, k)
    BY <1>1, <2>1, StyleBy
  <2>4. ToSet(t) = RowsWith(rs, g, k)
    BY <2>2, <2>3, GroupByIs
  <2> QED BY <2>4 DEF RowsWith
<1>3. \A i \in DOMAIN t : t[i] \in HasScore(S)
  <2>1. \A i \in DOMAIN t : t[i] \in S /\ t[i] \in ToSet(t)
    BY DEF ToSet
  <2> QED BY <1>2, <2>1 DEF HasScore
<1>4. Having(t, HasScore(S)) = t
  BY <1>3, HavingAll
<1>5. Scored(t) = Having(t, HasScore(S))
  BY ScoredAre
<1> QED BY <1>1, <1>4, <1>5

LEMMA GroupLengths ==
  ASSUME NEW S, NEW rs \in Seq(S), NEW f, NEW k
  PROVE  Len(Group(Group(rs, Family, f), Style, k)) \in Nat
<1>1. PICK of \in Seq(S) : of = Group(rs, Family, f)
  BY FamilyGroup
<1>2. PICK g : g = StyleIn(S)
  OBVIOUS
<1>3. DOMAIN g = S
  BY <1>2 DEF StyleIn
<1>4. Group(of, Style, k) = GroupBy(of, g, k)
  BY <1>2, StyleBy
<1>5. GroupBy(of, g, k) \in Seq(S)
  BY <1>3, GroupByIs
<1> QED BY <1>1, <1>4, <1>5

LEMMA FewerSuffice ==
  ASSUME NEW S, NEW rs \in Seq(S), NEW min \in Nat
  PROVE  Insufficient(rs, min) \subseteq Insufficient(rs, min + 1)
<1>1. ASSUME NEW f, NEW k, Len(Group(Group(rs, Family, f), Style, k)) < min
      PROVE  Len(Group(Group(rs, Family, f), Style, k)) < min + 1
  BY <1>1, GroupLengths
<1> QED BY <1>1 DEF Insufficient

LEMMA EnoughAll ==
  ASSUME NEW S, NEW t \in Seq(StyleLines(S)), NEW min, \A i \in DOMAIN t : t[i].runs >= min
  PROVE  Enough(t, min) = t
<1>1. PICK C : C = {l \in StyleLines(S) : l.runs >= min}
  OBVIOUS
<1>2. \A i \in DOMAIN t : t[i] \in C
  BY <1>1
<1>3. Having(t, C) = t
  BY <1>2, HavingAll
<1>4. {i \in DOMAIN t : t[i].runs >= min} = {i \in DOMAIN t : t[i] \in C}
  BY <1>2
<1> QED BY <1>3, <1>4 DEF Enough, Kept, Having

(* With enough runs of each style, and all scored, nothing is left out.    *)
LEMMA AllAreEnough ==
  ASSUME NEW S, GoodRows(S), NEW of \in Seq(S), \A r \in ToSet(of) : r.score # None, NEW min,
         \A k \in ToSet(Keys(Styled(of), Style)) : ~(Len(Group(of, Style, k)) < min), min \in Nat,
         NEW t, AreAverages(t, of, S)
  PROVE  Enough(t, min) = t
<1>1. t \in Seq(StyleLines(S))
  BY DEF AreAverages
<1>2. ASSUME NEW i \in DOMAIN t PROVE t[i].runs >= min
  <2>1. t[i] = StyleLine(of, t[i].style) /\ t[i].style \in ScoredStyles(of)
    BY DEF AreAverages
  <2>2. PICK k : k = t[i].style
    OBVIOUS
  <2>3. k \in ToSet(Keys(Styled(of), Style))
    BY <2>1, <2>2, StyledKeys DEF ScoredStyles
  <2>4. t[i].runs = Len(Group(of, Style, k))
    BY <2>1, <2>2, AllCount DEF StyleLine
  <2>5. Len(Group(of, Style, k)) \in Nat
    <3>1. PICK q \in Seq(S) : q = Group(of, Style, k)
      BY StyleGroups
    <3> QED BY <3>1
  <2> QED BY <2>3, <2>4, <2>5
<1> QED BY <1>1, <1>2, EnoughAll

NoneEmpty(s) == s # <<>> <=> 1 \in DOMAIN s
LEMMA FirstIsThere == ASSUME NEW T, NEW s \in Seq(T) PROVE NoneEmpty(s)
BY DEF NoneEmpty

LEMMA EmptyMargins ==
  ASSUME NEW T, NEW u \in Seq(T), NEW b, b = WithMargins(u)
  PROVE  /\ NoneEmpty(b) /\ DOMAIN b = DOMAIN u /\ (b # <<>> <=> u # <<>>)
<1>1. DOMAIN b = DOMAIN u /\ DOMAIN u = 1..Len(u) /\ Len(u) \in Nat
  BY DEF WithMargins
<1>2. PICK n \in Nat : n = Len(u) /\ DOMAIN b = 1..n
  BY <1>1
<1>3. b # <<>> <=> 1 \in DOMAIN b
  <2>1. CASE n = 0
    <3>1. b = [i \in 1..0 |-> Margined(u[i], Minus(u[i].score, u[IF i < Len(u) THEN i + 1 ELSE i].score))]
      BY <1>1, <1>2, <2>1 DEF WithMargins
    <3> QED BY <1>2, <2>1, <3>1
  <2>2. CASE n # 0
    <3>1. 1 \in 1..n
      BY <2>2
    <3> QED BY <1>2, <3>1
  <2> QED BY <2>1, <2>2
<1>4. u # <<>> <=> 1 \in DOMAIN u
  BY FirstIsThere DEF NoneEmpty
<1> QED BY <1>1, <1>3, <1>4 DEF NoneEmpty

Narrower(all, best, more) ==
  /\ more # <<>> => best # <<>> /\ Le(more[1].score, best[1].score)
  /\ best # <<>> => \E i \in DOMAIN all : all[i].style = best[1].style /\
       (Len(best) > 1 => Le(all[i].margin, best[1].margin))

LEMMA RankingNarrows ==
  ASSUME NEW S, GoodRows(S), NEW rs \in Seq(S), NEW f \in Families(rs), NEW min \in Nat,
         NEW all, all = Ranking(rs, f), NEW best, best = BestStyle(rs, f, min),
         NEW more, more = BestStyle(rs, f, min + 1)
  PROVE  /\ Narrower(all, best, more)
         /\ f \notin Insufficient(rs, min) /\ Scored(rs) = rs => best = all
<1>1. PICK of \in Seq(S) : of = Group(rs, Family, f)
  BY FamilyGroup
<1>2. PICK t \in Seq(StyleLines(S)) : t = StyleAverages(of) /\ AreAverages(t, of, S) /\ AreFalling(t)
  BY <1>1, AveragesAre, AveragesFall
<1>3. AreMargins(all, t)
  BY <1>1, <1>2, MarginsAre DEF Ranking
<1>4. PICK u \in Seq(StyleLines(S)) : u = Enough(t, min) /\ \E at : Drawn(u, t, at, min)
  BY EnoughIs
<1>5. PICK w \in Seq(StyleLines(S)) : w = Enough(t, min + 1) /\ \E at : Drawn(w, t, at, min + 1)
  BY EnoughIs
<1>6. best = WithMargins(u) /\ more = WithMargins(w)
  BY <1>1, <1>2, <1>4, <1>5 DEF BestStyle, Enough
<1>7. /\ AreMargins(best, u) /\ AreMargins(more, w)
      /\ best # <<>> <=> 1 \in DOMAIN u
      /\ more # <<>> <=> 1 \in DOMAIN w
  BY <1>6, MarginsAre, EmptyMargins DEF NoneEmpty
<1>8. PICK at : Drawn(u, t, at, min)
  BY <1>4
<1>9. PICK bt : Drawn(w, t, bt, min + 1)
  BY <1>5
<1>10. ASSUME more # <<>> PROVE best # <<>> /\ Le(more[1].score, best[1].score)
  <2>1. 1 \in DOMAIN w
    BY <1>7, <1>10
  <2>2. 1 \in DOMAIN u /\ Le(w[1].score, u[1].score)
    BY <1>2, <1>8, <1>9, <2>1, FirstLeads
  <2>3. more[1].score = w[1].score /\ best[1].score = u[1].score
    BY <1>7, <2>1, <2>2 DEF AreMargins
  <2> QED BY <1>7, <2>2, <2>3
<1>11. ASSUME best # <<>>
       PROVE  \E i \in DOMAIN all : all[i].style = best[1].style /\
                (Len(best) > 1 => Le(all[i].margin, best[1].margin))
  <2>1. 1 \in DOMAIN u
    BY <1>7, <1>11
  <2> QED BY <1>2, <1>3, <1>7, <1>8, <2>1, LeadGrows, SMTT(30)
<1>12. ASSUME f \notin Insufficient(rs, min), Scored(rs) = rs PROVE best = all
  <2>1. \A k \in ToSet(Keys(Styled(of), Style)) : ~(Len(Group(of, Style, k)) < min)
    BY <1>1, <1>12 DEF Insufficient
  <2>2. \A r \in ToSet(rs) : r.score # None
    <3>1. ToSet(Scored(rs)) = {r \in ToSet(rs) : r.score # None}
      BY ScoredAre
    <3> QED BY <1>12, <3>1
  <2>3. \A r \in ToSet(of) : r \in ToSet(rs)
    <3>1. PICK g : g = FamilyIn(S)
      OBVIOUS
    <3>2. DOMAIN g = S
      BY <3>1 DEF FamilyIn
    <3>3. of = GroupBy(rs, g, f)
      BY <1>1, <3>1, FamilyBy
    <3>4. ToSet(of) = RowsWith(rs, g, f)
      BY <3>2, <3>3, GroupByIs
    <3> QED BY <3>4 DEF RowsWith
  <2>4. u = t
    BY <1>2, <1>4, <2>1, <2>2, <2>3, AllAreEnough
  <2> QED BY <1>1, <1>2, <1>6, <2>4 DEF Ranking
<1> QED BY <1>10, <1>11, <1>12 DEF Narrower

LEMMA NarrowsHold == ASSUME FillInv PROVE MinRunsNarrows
<1>1. rows \in Seq(FillRows) /\ GoodRows(FillRows)
  BY FillRowsAre DEF FillInv
<1>2. \A min \in 1..2 : min \in Nat /\ Insufficient(rows, min) \subseteq Insufficient(rows, min + 1)
  BY <1>1, FewerSuffice
<1>3. ASSUME NEW min \in 1..2, NEW f \in Families(rows)
      PROVE  LET all == Ranking(rows, f)
                 best == BestStyle(rows, f, min)
                 more == BestStyle(rows, f, min + 1)
             IN /\ more # <<>> => best # <<>> /\ Le(more[1].score, best[1].score)
                /\ best # <<>> => \E i \in DOMAIN all : all[i].style = best[1].style /\
                     (Len(best) > 1 => Le(all[i].margin, best[1].margin))
                /\ f \notin Insufficient(rows, min) /\ Scored(rows) = rows => best = all
  <2> DEFINE all == Ranking(rows, f)
             best == BestStyle(rows, f, min)
             more == BestStyle(rows, f, min + 1)
  <2>1. min \in Nat
    OBVIOUS
  <2>2. all = Ranking(rows, f) /\ best = BestStyle(rows, f, min) /\ more = BestStyle(rows, f, min + 1)
    OBVIOUS
  <2> HIDE DEF all, best, more
  <2>3. /\ Narrower(all, best, more)
        /\ f \notin Insufficient(rows, min) /\ Scored(rows) = rows => best = all
    BY <1>1, <2>1, <2>2, RankingNarrows
  <2> QED BY <2>3 DEF Narrower, all, best, more
<1> QED BY <1>2, <1>3 DEF MinRunsNarrows

-----------------------------------------------------------------------------
(* The style report finds the best style of a family where the analysis    *)
(* finds it.                                                               *)
IsBestOf(c, of) ==
  /\ c.who # None <=> ScoredStyles(of) # {}
  /\ c.who # None => /\ c.value \in Fraction /\ \E k \in ScoredStyles(of) : c.value = StyleMean(of, k)
                     /\ \A k \in ScoredStyles(of) : Le(StyleMean(of, k), c.value)

IsStyledPart(st, of, g, S) ==
  /\ st \in Seq(S)
  /\ ToSet(st) = {r \in ToSet(of) : r.style # None}
  /\ \A k : k # None => GroupBy(st, g, k) = Group(of, Style, k)

LEMMA StyledOfFamily ==
  ASSUME NEW S, NEW rs \in Seq(S), NEW fam, NEW of, of = Group(rs, Family, fam),
         NEW g, g = StyleIn(S), NEW st, st = Having(rs, OfFamily(S, g, fam))
  PROVE  IsStyledPart(st, of, g, S)
<1>1. PICK F : F = FamilyIn(S)
  OBVIOUS
<1>2. DOMAIN g = S /\ DOMAIN F = S
  BY <1>1 DEF StyleIn, FamilyIn
<1>3. of = GroupBy(rs, F, fam)
  BY <1>1, FamilyBy
<1>4. of \in Seq(S) /\ ToSet(of) = RowsWith(rs, F, fam)
  BY <1>2, <1>3, GroupByIs
<1>5. st \in Seq(S) /\ ToSet(st) = ToSet(rs) \cap OfFamily(S, g, fam)
  BY HavingFilters, HavingMembers
<1>6. \A r \in ToSet(rs) : r \in S
  BY DEF ToSet
<1>7. ToSet(st) = {r \in ToSet(of) : r.style # None}
  BY <1>1, <1>4, <1>5, <1>6 DEF OfFamily, RowsWith, FamilyIn, StyleIn
<1>8. ASSUME NEW k, k # None PROVE GroupBy(st, g, k) = Group(of, Style, k)
  <2>1. PICK D : D = OfFamily(S, g, fam) \cap With(g, k)
    OBVIOUS
  <2>2. D = With(F, fam) \cap With(g, k)
    BY <1>1, <1>8, <2>1 DEF OfFamily, With, FamilyIn, StyleIn
  <2>3. GroupBy(st, g, k) = Having(rs, D)
    <3>1. Having(Having(rs, OfFamily(S, g, fam)), With(g, k)) = Having(rs, OfFamily(S, g, fam) \cap With(g, k))
      BY HavingTwice
    <3> QED BY <2>1, <3>1 DEF GroupBy
  <2>4. GroupBy(of, g, k) = Having(rs, D)
    <3>1. Having(Having(rs, With(F, fam)), With(g, k)) = Having(rs, With(F, fam) \cap With(g, k))
      BY HavingTwice
    <3> QED BY <1>3, <2>2, <3>1 DEF GroupBy
  <2>5. Group(of, Style, k) = GroupBy(of, g, k)
    BY <1>4, StyleBy
  <2> QED BY <2>3, <2>4, <2>5
<1> QED BY <1>5, <1>7, <1>8 DEF IsStyledPart

LEMMA BestInFamily ==
  ASSUME NEW S, GoodRows(S), NamedRows(S), NEW rs \in Seq(S), NEW fam, NEW of, of = Group(rs, Family, fam),
         NEW c, c = BestBy(S, rs, StyleIn(S), fam)
  PROVE  IsBestOf(c, of)
<1>1. PICK g : g = StyleIn(S)
  OBVIOUS
<1>2. PICK st : st = Having(rs, OfFamily(S, g, fam)) /\ IsStyledPart(st, of, g, S)
  BY <1>1, StyledOfFamily
<1>2a. /\ st \in Seq(S)
       /\ ToSet(st) = {r \in ToSet(of) : r.style # None}
       /\ \A k : k # None => GroupBy(st, g, k) = Group(of, Style, k)
  BY <1>2 DEF IsStyledPart
<1>3. of \in Seq(S)
  BY FamilyGroup
<1>4. PICK A : A = ToSet(Alphabet)
  OBVIOUS
<1>5. PICK ns : ns = NamesIn(st, g)
  OBVIOUS
<1>6. ns \in Seq(A) /\ ToSet(ns) = {j \in A : j \in KeysMet(st, g) /\ Scored(GroupBy(st, g, j)) # <<>>}
  BY <1>4, <1>5, NamesInAre, <1>2a
<1>7. \A r \in ToSet(of) : r \in S /\ g[r] = r.style /\ (r.style \in A \/ r.style = None)
  <2>1. \A r \in ToSet(of) : r \in S
    BY <1>3 DEF ToSet
  <2> QED BY <1>1, <1>4, <2>1 DEF StyleIn, NamedRows
<1>8. ToSet(ns) = ScoredStyles(of)
  <2>1. ASSUME NEW k \in ToSet(ns) PROVE k \in ScoredStyles(of)
    <3>1. PICK r \in ToSet(st) : k = g[r]
      BY <1>6, <2>1 DEF KeysMet
    <3>2. r \in ToSet(of) /\ k = r.style /\ k # None
      BY <1>2, <1>2a, <1>7, <3>1
    <3>3. Scored(Group(of, Style, k)) # <<>>
      BY <1>2, <1>2a, <1>6, <2>1, <3>2
    <3> QED BY <3>2, <3>3 DEF ScoredStyles, HasStyle
  <2>2. ASSUME NEW k \in ScoredStyles(of) PROVE k \in ToSet(ns)
    <3>1. PICK r \in ToSet(of) : k = r.style /\ k # None /\ HasStyle(of, k)
      BY <2>2 DEF ScoredStyles
    <3>2. r \in ToSet(st) /\ k = g[r] /\ k \in A
      BY <1>2, <1>2a, <1>7, <3>1
    <3>3. k \in KeysMet(st, g)
      BY <3>2 DEF KeysMet
    <3>4. Scored(GroupBy(st, g, k)) # <<>>
      BY <1>2, <1>2a, <3>1 DEF HasStyle
    <3> QED BY <1>6, <3>2, <3>3, <3>4
  <2> QED BY <2>1, <2>2
<1>9. PICK v : v = Means(st, g, ns)
  OBVIOUS
<1>10. \A k \in ToSet(ns) : k # None /\ v[k] = StyleMean(of, k) /\ v[k] \in Fraction /\ Lt(Whole(-1), v[k])
  <2> SUFFICES ASSUME NEW k \in ToSet(ns)
               PROVE  k # None /\ v[k] = StyleMean(of, k) /\ v[k] \in Fraction /\ Lt(Whole(-1), v[k])
    OBVIOUS
  <2>1. k # None
    BY <1>8 DEF ScoredStyles
  <2>2. v[k] = StyleMean(of, k)
    BY <1>2, <1>2a, <1>9, <2>1 DEF Means, StyleMean
  <2>3. StyleMean(of, k) \in Fraction /\ Le(Zero, StyleMean(of, k))
    BY <1>3, StyleGroups DEF Average
  <2> QED BY <2>1, <2>2, <2>3, BelowZero
<1>11. c = Champion(ns, v, Whole(-1))
  BY <1>1, <1>2, <1>2a, <1>5, <1>9 DEF BestBy
<1>12. Whole(-1) \in Fraction
  BY DEF Whole, Fraction
<1>13. CASE ns = <<>>
  <2>1. c \in Titles(ns)
    BY <1>6, <1>10, <1>11, <1>12, ChampionLeads
  <2>2. ToSet(ns) = {}
    BY <1>6, <1>13, NoMembers
  <2>3. c.who = None
    BY <2>1, <2>2 DEF Titles
  <2> QED BY <1>8, <2>2, <2>3 DEF IsBestOf
<1>14. CASE ns # <<>>
  <2>1. IsGreatest(c, ns, v)
    BY <1>6, <1>10, <1>11, <1>12, <1>14, ChampionIsGreatest
  <2>2. /\ c.who \in ToSet(ns) /\ c.value = v[c.who] /\ c.value \in Fraction
        /\ \A k \in ToSet(ns) : Le(v[k], c.value)
    BY <2>1 DEF IsGreatest
  <2> QED BY <1>8, <1>10, <2>2 DEF IsBestOf
<1> QED BY <1>13, <1>14

LEMMA AnalysisBest ==
  ASSUME NEW S, GoodRows(S), NEW rs \in Seq(S), NEW f, NEW of, of = Group(rs, Family, f),
         NEW c, IsBestOf(c, of), NEW b, b = BestStyle(rs, f, 1)
  PROVE  /\ b # <<>> <=> c.who # None
         /\ b # <<>> => Same(b[1].score, c.value)
<1>1. of \in Seq(S)
  BY FamilyGroup
<1>2. PICK t \in Seq(StyleLines(S)) : t = StyleAverages(of) /\ AreAverages(t, of, S) /\ AreFalling(t)
  BY <1>1, AveragesAre, AveragesFall
<1>3. ASSUME NEW i \in DOMAIN t PROVE t[i].runs >= 1
  <2>1. t[i] = StyleLine(of, t[i].style) /\ t[i].style \in ScoredStyles(of)
    BY <1>2 DEF AreAverages
  <2>2. PICK q \in Seq(HasScore(S)) : q = Scored(Group(of, Style, t[i].style))
    BY <1>1, StyleGroups
  <2>3. q # <<>>
    BY <2>1, <2>2 DEF ScoredStyles, HasStyle
  <2>4. t[i].runs = Len(q)
    BY <2>1, <2>2 DEF StyleLine
  <2> QED BY <2>3, <2>4
<1>4. Enough(t, 1) = t
  BY <1>2, <1>3, EnoughAll
<1>5. b = WithMargins(t)
  BY <1>2, <1>4 DEF BestStyle, Enough
<1>6. AreMargins(b, t) /\ (b # <<>> <=> t # <<>>) /\ (t # <<>> <=> 1 \in DOMAIN t)
  BY <1>5, MarginsAre, EmptyMargins, FirstIsThere DEF NoneEmpty
<1>7. t # <<>> <=> ScoredStyles(of) # {}
  <2>1. ASSUME 1 \in DOMAIN t PROVE ScoredStyles(of) # {}
    BY <1>2, <2>1 DEF AreAverages
  <2>2. ASSUME ScoredStyles(of) # {} PROVE t # <<>>
    <3>1. PICK k : k \in ScoredStyles(of)
      BY <2>2
    <3>2. PICK i \in DOMAIN t : t[i].style = k
      BY <1>2, <3>1 DEF AreAverages
    <3>3. DOMAIN t = 1..Len(t)
      OBVIOUS
    <3>4. 1 \in DOMAIN t
      BY <3>2, <3>3
    <3> QED BY <1>6, <3>4
  <2> QED BY <1>6, <2>1, <2>2
<1>8. ASSUME b # <<>> PROVE Same(b[1].score, c.value)
  <2>1. 1 \in DOMAIN t /\ c.who # None
    BY <1>6, <1>7, <1>8 DEF IsBestOf
  <2>2. /\ c.value \in Fraction
        /\ \A k \in ScoredStyles(of) : Le(StyleMean(of, k), c.value)
    BY <2>1 DEF IsBestOf
  <2>3. PICK k \in ScoredStyles(of) : c.value = StyleMean(of, k)
    BY <2>1 DEF IsBestOf
  <2>4. \A i \in DOMAIN t : t[i].score = StyleMean(of, t[i].style) /\ t[i].style \in ScoredStyles(of)
    BY <1>2 DEF AreAverages, StyleLine
  <2>5. PICK i \in DOMAIN t : t[i].style = k
    BY <1>2, <2>3 DEF AreAverages
  <2>6. 1 <= i
    <3>1. DOMAIN t = 1..Len(t)
      OBVIOUS
    <3> QED BY <3>1
  <2>7. Le(t[i].score, t[1].score)
    BY <1>2, <2>1, <2>6 DEF AreFalling
  <2>8. t[i].score = c.value
    BY <2>3, <2>4, <2>5
  <2>9. Le(t[1].score, c.value)
    BY <2>1, <2>2, <2>4
  <2>10. t[1].score \in Fraction
    BY <1>2, <2>1 DEF AreFalling
  <2>11. Same(t[1].score, c.value)
    BY <2>2, <2>7, <2>8, <2>9, <2>10, LeTotal
  <2>12. b[1].score = t[1].score
    BY <1>6, <2>1 DEF AreMargins
  <2> QED BY <2>11, <2>12
<1> QED BY <1>6, <1>7, <1>8 DEF IsBestOf

(* The best style overall is unbeaten among the scored styles.             *)
LEMMA BestOverall ==
  ASSUME NEW S, GoodRows(S), NEW rs \in Seq(S), NEW k, k # None, HasStyle(rs, k),
         NEW t, t = StyleAverages(rs)
  PROVE  t # <<>> /\ Le(StyleMean(rs, k), StyleMean(rs, t[1].style))
<1>1. t \in Seq(StyleLines(S)) /\ AreAverages(t, rs, S) /\ AreFalling(t)
  BY AveragesAre, AveragesFall
<1>2. PICK i \in DOMAIN t : t[i].style = k /\ t[i].score = StyleMean(rs, k)
  BY StyleIsRanked
<1>3. 1 \in DOMAIN t /\ 1 <= i
  <2>1. DOMAIN t = 1..Len(t)
    BY <1>1
  <2>2. i \in Int /\ 1 <= i /\ i <= Len(t)
    BY <1>2, <2>1
  <2> QED BY <2>1, <2>2
<1>4. Le(t[i].score, t[1].score)
  BY <1>1, <1>3 DEF AreFalling
<1>5. t[1].score = StyleMean(rs, t[1].style)
  BY <1>1, <1>3 DEF AreAverages, StyleLine
<1>6. t # <<>>
  BY <1>1, <1>3, FirstIsThere DEF NoneEmpty
<1> QED BY <1>2, <1>4, <1>5, <1>6

LEMMA AnalysisHolds == ASSUME FillInv PROVE AnalysisIsTheReport
<1>1. PICK S : S = FillRows
  OBVIOUS
<1>2. GoodRows(S) /\ NamedRows(S) /\ rows \in Seq(S)
  BY <1>1, FillRowsAre, FillRowsNamed DEF FillInv
<1> DEFINE a == Analysed(rows, 1)
<1>3. DOMAIN a.best = {f \in Families(rows) : BestStyle(rows, f, 1) # <<>>}
  BY DEF Analysed
<1>4. \A f \in DOMAIN a.best : a.best[f] = BestStyle(rows, f, 1)[1]
  BY DEF Analysed
<1>5. StyleAverages(rows) # <<>> => a.overall = StyleAverages(rows)[1].style
  BY DEF Analysed
<1> HIDE DEF a
<1>6. ASSUME NEW b \in BestStyleByFamily(rows)
      PROVE  /\ b.family \in DOMAIN a.best <=> b.best.who # None
             /\ b.family \in DOMAIN a.best => Same(a.best[b.family].score, b.best.value)
  <2>1. PICK f \in Families(rows) : b = [family |-> f, best |-> BestOfFamily(rows, Style, f)]
    BY DEF BestStyleByFamily
  <2>2. PICK c : c = BestBy(S, rows, StyleIn(S), f)
    OBVIOUS
  <2>3. b.family = f /\ b.best = c
    BY <1>2, <2>1, <2>2, BestStyleIs
  <2>4. PICK of : of = Group(rows, Family, f)
    OBVIOUS
  <2>5. IsBestOf(c, of)
    BY <1>2, <2>2, <2>4, BestInFamily
  <2>6. PICK w : w = BestStyle(rows, f, 1)
    OBVIOUS
  <2>7. (w # <<>> <=> c.who # None) /\ (w # <<>> => Same(w[1].score, c.value))
    BY <1>2, <2>4, <2>5, <2>6, AnalysisBest
  <2> QED BY <1>3, <1>4, <2>3, <2>6, <2>7
<1>7. ASSUME NEW e \in StyleSummary(rows), HasStyle(rows, e.style)
      PROVE  Le(e.score, ScoreIn(rows, Style, a.overall))
  <2>1. PICK k \in ToSet(Keys(Styled(rows), Style)) : e.style = k /\ e.score = ScoreIn(rows, Style, k)
    BY DEF StyleSummary
  <2>2. k # None
    BY <1>2, StyledKeys
  <2>3. PICK t : t = StyleAverages(rows)
    OBVIOUS
  <2>4. t # <<>> /\ Le(StyleMean(rows, k), StyleMean(rows, t[1].style))
    BY <1>2, <1>7, <2>1, <2>2, <2>3, BestOverall
  <2> QED BY <1>5, <2>1, <2>3, <2>4 DEF StyleMean, ScoreIn
<1> QED BY <1>6, <1>7 DEF AnalysisIsTheReport, a

(* Whatever is stored, the analysis and the style report choose alike, the *)
(* margins of a ranking add up, and more runs asked for only narrow it.    *)
THEOREM RankingHolds == OptSpec => []RankingIsSound
<1>1. FillInv => RankingIsSound
  BY AnalysisHolds, MarginsAdd, NarrowsHold DEF RankingIsSound
<1> QED BY <1>1, OptFillInv, PTL
=============================================================================
