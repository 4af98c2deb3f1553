---------------------------- MODULE CliRunProofs ----------------------------
(***************************************************************************)
(* Proofs about CliRun for any number of invocations, any jobs and any     *)
(* interleaving.  The store's consistency rests on one observation: the    *)
(* four commits of a result happen while it is the head of its             *)
(* invocation's fresh list, so a partly stored record can only be that     *)
(* head.  IInv says how far the head has come for each value of pc.        *)
(* What the loops run, and the refinement of RunLedger, are in the second  *)
(* part.                                                                   *)
(***************************************************************************)
EXTENDS CliRun, Integers, FiniteSetTheorems, TLAPS

Storing == {"saveRun", "saveTiming", "saveDetails", "append", "appendRest"}

(* Fresh results are numbered consecutively after the recorded ones.       *)
FreshAt(i) ==
  /\ Len(fresh[i]) <= executed[i]
  /\ \A k \in 1..Len(fresh[i]) :
       /\ fresh[i][k].key = <<i, Recorded(i) + k>>
       /\ fresh[i][k].suite = Jobs[i].suite

(* How much of the head of fresh is stored at each step.                   *)
HeadAt(i) ==
  /\ pc[i] \in Storing => fresh[i] # <<>>
  /\ pc[i] \in Storing \ {"saveRun"} => Current(i) \in runs
  /\ pc[i] \in {"saveDetails", "append", "appendRest"} =>
       Current(i).key \in timings
  /\ pc[i] = "saveDetails" =>
       \A name \in Current(i).details \ left[i] :
         <<Current(i).key, name>> \in details
  /\ pc[i] \in {"append", "appendRest"} => HasDetails(Current(i))

(* A row beyond the recorded ones is the head of fresh, in the middle of   *)
(* being stored; the recorded ones are stored everywhere.                  *)
RowAt(r) ==
  LET i == r.key[1] IN
  /\ r.suite = Jobs[i].suite
  /\ r.key[2] <= Recorded(i) + 1
  /\ r.key[2] = Recorded(i) + 1 =>
       /\ fresh[i] # <<>> /\ r = Current(i)
       /\ pc[i] \in (Storing \ {"saveRun"}) \cup {"dead"}
  /\ r.key[2] <= Recorded(i) => Complete(r)

FreshInv == \A i \in Invocations : FreshAt(i)
HeadInv == \A i \in Invocations : HeadAt(i)
RowInv == \A r \in runs : RowAt(r)

(* Once its rows are read, an invocation adds no more.                     *)
Covers(text) == \A r \in runs : r.key[1] = text.by => r \in text.rows
ReportInv ==
  /\ \A i \in Invocations : pc[i] \in {"openReport"} \cup Writing => Covers(Text(i))
  /\ report # None =>
       \A text \in ({report.head} \ {None}) \cup report.rest :
         pc[text.by] \in {"writeRest", "done", "dead"} /\ Covers(text)

(* How far the only one that may write the file has come in it.            *)
FileAt(i) ==
  /\ pc[i] = "writeHead" => report.rest = {}
  /\ pc[i] = "writeRest" => report.head = Text(i) /\ report.rest = {}
  /\ pc[i] = "done" => report.head = Text(i) /\ report.rest = {Text(i)}
FileInv ==
  /\ \A i \in Invocations : pc[i] \in Writing => report # None /\ i \in report.writers
  /\ \A i \in Invocations : report # None /\ report.writers = {i} => FileAt(i)

IInv == TypeOK /\ FreshInv /\ HeadInv /\ RowInv /\ StoreOrder /\ ReportInv /\ FileInv

-----------------------------------------------------------------------------
LEMMA InitTypeOK == Init => TypeOK
BY JobsAssumption, ModelsAssumption
   DEF Init, TypeOK, Active, Final, Stamps, Keys, Writes, RunRows

LEMMA CurrentType ==
  ASSUME TypeOK, NEW i \in Invocations, fresh[i] # <<>>
  PROVE  /\ Current(i) \in RunRows /\ Current(i) = fresh[i][1]
         /\ Tail(fresh[i]) \in Seq(RunRows)
         /\ Len(Tail(fresh[i])) = Len(fresh[i]) - 1
         /\ \A k \in 1..(Len(fresh[i]) - 1) : Tail(fresh[i])[k] = fresh[i][k + 1]
BY DEF TypeOK, Current

LEMMA OutcomeFields ==
  ASSUME TypeOK, NEW i \in Invocations
  PROVE  /\ <<i, executed[i] + 1>> \in Keys
         /\ Jobs[i].suite \in Suites
         /\ [alias |-> at[i].alias, task |-> at[i].task, run |-> at[i].run,
             variant |-> Len(fresh[i]) + 1] \in Cell
         /\ stamp[i] \in Stamps /\ served \in Stamps /\ None \in Stamps
<1>1. Jobs[i].suite \in Suites
  BY JobsAssumption DEF JobType
<1> QED BY <1>1 DEF TypeOK, Keys, Cell, Stamps

LEMMA OutcomeType ==
  ASSUME TypeOK, NEW i \in Invocations, NEW kind, NEW r \in Results(kind)
  PROVE  Outcome(i, r) \in RunRows
<1>1. r.status \in Statuses /\ r.details \in SUBSET Scorers
  BY DEF Results
<1> QED BY <1>1, OutcomeFields DEF Outcome, RunRows

LEMMA SweepErrorType ==
  ASSUME TypeOK, NEW i \in Invocations
  PROVE  SweepError(i) \in RunRows
<1>1. Outcome(i, [status |-> "error", details |-> {}]) \in RunRows
  BY OutcomeFields DEF Outcome, RunRows, Statuses
<1> QED BY <1>1, OutcomeFields DEF SweepError, RunRows

(* What Execute appends: a row of the invocation, numbered next.           *)
LEMMA ExecuteAppends ==
  ASSUME TypeOK, NEW i \in Invocations, Execute(i)
  PROVE  \E result \in RunRows :
           /\ fresh' = [fresh EXCEPT ![i] = Append(@, result)]
           /\ result.key = <<i, executed[i] + 1>>
           /\ result.suite = Jobs[i].suite
<1>1. PICK result \in { Outcome(i, r) : r \in Results(Jobs[i].kinds[at[i].task]) }
                      \cup (IF Variants(i) > 1 THEN {SweepError(i)} ELSE {}) :
        fresh' = [fresh EXCEPT ![i] = Append(@, result)]
  BY DEF Execute
<1>2. CASE result = SweepError(i)
  <2>1. result.key = <<i, executed[i] + 1>> /\ result.suite = Jobs[i].suite
    BY <1>2 DEF SweepError, Outcome
  <2> QED BY <1>1, <1>2, <2>1, SweepErrorType
<1>3. CASE \E r \in Results(Jobs[i].kinds[at[i].task]) : result = Outcome(i, r)
  <2>1. PICK r \in Results(Jobs[i].kinds[at[i].task]) : result = Outcome(i, r)
    BY <1>3
  <2>2. result.key = <<i, executed[i] + 1>> /\ result.suite = Jobs[i].suite
    BY <2>1 DEF Outcome
  <2> QED BY <1>1, <2>1, <2>2, OutcomeType
<1> QED BY <1>1, <1>2, <1>3

LEMMA AdvanceType ==
  ASSUME TypeOK, NEW i \in Invocations, fresh[i] # <<>>, Advance(i)
  PROVE  /\ pc' \in [Invocations -> Active \cup Final]
         /\ at' \in [Invocations -> [alias : Nat, task : Nat, run : Nat]]
         /\ fresh' \in [Invocations -> Seq(RunRows)]
<1>1. fresh' \in [Invocations -> Seq(RunRows)]
  BY CurrentType DEF TypeOK, Advance
<1>2. NextAlias(i) \in [alias : Nat, task : Nat, run : Nat]
  BY DEF TypeOK, NextAlias
<1>3. AfterAlias(i) \in Active
  BY DEF AfterAlias, Active
<1>4. at' \in [Invocations -> [alias : Nat, task : Nat, run : Nat]]
  <2> DEFINE Pos == [alias : Nat, task : Nat, run : Nat]
  <2>1. at \in [Invocations -> Pos] /\ at[i] \in Pos
    BY DEF TypeOK
  <2>2. [at[i] EXCEPT !.run = @ + 1] \in Pos
    BY <2>1
  <2>3. [alias |-> at[i].alias, task |-> at[i].task + 1, run |-> 1] \in Pos
    BY <2>1
  <2>4. \/ at' = at
        \/ at' = [at EXCEPT ![i] = [at[i] EXCEPT !.run = @ + 1]]
        \/ at' = [at EXCEPT ![i] = [alias |-> at[i].alias, task |-> at[i].task + 1, run |-> 1]]
        \/ at' = [at EXCEPT ![i] = NextAlias(i)]
    BY <2>1 DEF Advance
  <2> HIDE DEF Pos
  <2> QED BY <1>2, <2>1, <2>2, <2>3, <2>4 DEF Pos
<1>5. pc' \in [Invocations -> Active \cup Final]
  BY <1>3 DEF TypeOK, Advance, Goto, Active
<1> QED BY <1>1, <1>4, <1>5

LEMMA StepTypeOK ==
  ASSUME TypeOK, FreshInv, HeadInv, FileInv, [Next]_vars
  PROVE  TypeOK'
<1> USE DEF Active, Final, Goto
<1>1. ASSUME NEW i \in Invocations, Open(i) PROVE TypeOK'
  BY <1>1 DEF TypeOK, Open, store, backend
<1>2. ASSUME NEW i \in Invocations, SkipAlias(i) PROVE TypeOK'
  BY <1>2 DEF TypeOK, SkipAlias, AfterAlias, NextAlias, store, backend
<1>3. ASSUME NEW i \in Invocations, Identify(i) PROVE TypeOK'
  BY <1>3 DEF TypeOK, Identify, Stamps, store, backend
<1>4. ASSUME NEW i \in Invocations, Execute(i) PROVE TypeOK'
  <2>1. \E result \in RunRows : fresh' = [fresh EXCEPT ![i] = Append(@, result)]
    BY <1>4, ExecuteAppends
  <2>2. fresh' \in [Invocations -> Seq(RunRows)]
    BY <2>1 DEF TypeOK
  <2> QED BY <1>4, <2>2 DEF TypeOK, Execute, store, backend
<1>5. ASSUME NEW i \in Invocations, SaveRun(i) PROVE TypeOK'
  <2>1. Current(i) \in RunRows
    BY <1>5, CurrentType DEF SaveRun, HeadInv, HeadAt, Storing
  <2> QED BY <1>5, <2>1 DEF TypeOK, SaveRun, backend
<1>6. ASSUME NEW i \in Invocations, SaveTiming(i) PROVE TypeOK'
  <2>1. Current(i) \in RunRows
    BY <1>6, CurrentType DEF SaveTiming, HeadInv, HeadAt, Storing
  <2>2. Current(i).key \in Keys /\ Current(i).details \in SUBSET Scorers
    BY <2>1 DEF RunRows
  <2> QED BY <1>6, <2>2 DEF TypeOK, SaveTiming, backend
<1>7. ASSUME NEW i \in Invocations, SaveDetail(i) PROVE TypeOK'
  <2>1. Current(i).key \in Keys
    BY <1>7, CurrentType DEF SaveDetail, HeadInv, HeadAt, Storing, RunRows
  <2>2. PICK name \in left[i] :
          /\ details' = details \cup {<<Current(i).key, name>>}
          /\ left' = [left EXCEPT ![i] = @ \ {name}]
          /\ pc' = [pc EXCEPT ![i] = IF left[i] = {name} THEN "append"
                                     ELSE "saveDetails"]
    BY <1>7 DEF SaveDetail
  <2>3. name \in Scorers
    BY <2>2 DEF TypeOK
  <2>4. <<Current(i).key, name>> \in Keys \X Scorers
    BY <2>1, <2>3
  <2> QED BY <1>7, <2>2, <2>4 DEF TypeOK, SaveDetail, backend
<1>8. ASSUME NEW i \in Invocations, NEW part \in {"line", "head", "tail"},
             pc[i] \in Storing
      PROVE  Append(jsonl, [key |-> Current(i).key, part |-> part]) \in Seq(Writes)
  <2>1. Current(i).key \in Keys
    BY <1>8, CurrentType DEF HeadInv, HeadAt, RunRows
  <2>2. [key |-> Current(i).key, part |-> part] \in Writes
    BY <2>1 DEF Writes
  <2> QED BY <2>2 DEF TypeOK
<1>9. ASSUME NEW i \in Invocations, AppendLine(i) PROVE TypeOK'
  <2>1. jsonl' \in Seq(Writes)
    BY <1>8, <1>9 DEF AppendLine, Storing
  <2>2. fresh[i] # <<>> /\ Advance(i)
    BY <1>9 DEF AppendLine, HeadInv, HeadAt, Storing
  <2> QED BY <1>9, <2>1, <2>2, AdvanceType DEF TypeOK, AppendLine, backend
<1>10. ASSUME NEW i \in Invocations, AppendHead(i) PROVE TypeOK'
  <2>1. jsonl' \in Seq(Writes)
    BY <1>8, <1>10 DEF AppendHead, Storing
  <2> QED BY <1>10, <2>1 DEF TypeOK, AppendHead, backend
<1>11. ASSUME NEW i \in Invocations, AppendRest(i) PROVE TypeOK'
  <2>1. jsonl' \in Seq(Writes)
    BY <1>8, <1>11 DEF AppendRest, Storing
  <2>2. fresh[i] # <<>> /\ Advance(i)
    BY <1>11 DEF AppendRest, HeadInv, HeadAt, Storing
  <2> QED BY <1>11, <2>1, <2>2, AdvanceType DEF TypeOK, AppendRest, backend
<1>12. ASSUME NEW i \in Invocations, ReadRows(i) PROVE TypeOK'
  BY <1>12 DEF TypeOK, ReadRows, store, backend
<1>13. ASSUME NEW i \in Invocations, OpenReport(i) \/ WriteHead(i) \/ WriteRest(i)
       PROVE  TypeOK'
  <2>1. Text(i) \in Texts
    BY JobsAssumption DEF JobType, Text, Texts, TypeOK
  <2>2. CASE OpenReport(i)
    <3>1. report' \in ReportFiles
      BY <2>2 DEF OpenReport, ReportFiles
    <3> QED BY <2>2, <3>1 DEF TypeOK, OpenReport, store, backend
  <2>3. report \in ReportFiles \/ OpenReport(i)
    BY <1>13 DEF FileInv, WriteHead, WriteRest, TypeOK, Writing
  <2>4. CASE WriteHead(i) /\ report \in ReportFiles
    <3>1. report' \in ReportFiles
      BY <2>1, <2>4 DEF WriteHead, ReportFiles
    <3> QED BY <2>4, <3>1 DEF TypeOK, WriteHead, store, backend
  <2>5. CASE WriteRest(i) /\ report \in ReportFiles
    <3>1. report' \in ReportFiles
      BY <2>1, <2>5 DEF WriteRest, ReportFiles
    <3> QED BY <2>5, <3>1 DEF TypeOK, WriteRest, store, backend
  <2> QED BY <1>13, <2>2, <2>3, <2>4, <2>5
<1>14. ASSUME NEW i \in Invocations, Die(i) PROVE TypeOK'
  BY <1>14 DEF TypeOK, Die, store, backend
<1>15. CASE SwapModel
  BY <1>15, ModelsAssumption DEF TypeOK, SwapModel, store
<1>16. CASE UNCHANGED vars
  BY <1>16 DEF TypeOK, vars, store, backend
<1> QED
  BY <1>1, <1>2, <1>3, <1>4, <1>5, <1>6, <1>7, <1>9, <1>10, <1>11, <1>12,
     <1>13, <1>14, <1>15, <1>16 DEF Next, Step, Terminated

-----------------------------------------------------------------------------
(* Locality: a step of one invocation leaves the others' variables alone.  *)
Local(i) ==
  \A j \in Invocations \ {i} :
    /\ pc'[j] = pc[j] /\ fresh'[j] = fresh[j] /\ executed'[j] = executed[j]
    /\ left'[j] = left[j] /\ rows'[j] = rows[j]

LEMMA StepIsLocal ==
  ASSUME TypeOK, NEW i \in Invocations, Step(i) \/ Die(i)
  PROVE  Local(i)
<1> USE DEF TypeOK, Local, Goto, store, backend
<1>1. CASE Open(i)        BY <1>1 DEF Open
<1>2. CASE SkipAlias(i)   BY <1>2 DEF SkipAlias
<1>3. CASE Identify(i)    BY <1>3 DEF Identify
<1>4. CASE Execute(i)     BY <1>4 DEF Execute
<1>5. CASE SaveRun(i)     BY <1>5 DEF SaveRun
<1>6. CASE SaveTiming(i)  BY <1>6 DEF SaveTiming
<1>7. CASE SaveDetail(i)  BY <1>7 DEF SaveDetail
<1>8. CASE AppendLine(i)  BY <1>8 DEF AppendLine, Advance
<1>9. CASE AppendHead(i)  BY <1>9 DEF AppendHead
<1>10. CASE AppendRest(i) BY <1>10 DEF AppendRest, Advance
<1>11. CASE ReadRows(i)   BY <1>11 DEF ReadRows
<1>12. CASE OpenReport(i) \/ WriteHead(i) \/ WriteRest(i)
  BY <1>12 DEF OpenReport, WriteHead, WriteRest
<1>13. CASE Die(i)        BY <1>13 DEF Die
<1> QED
  BY <1>1, <1>2, <1>3, <1>4, <1>5, <1>6, <1>7, <1>8, <1>9, <1>10, <1>11,
     <1>12, <1>13 DEF Step

(* Durability: nothing that was committed disappears.                      *)
Grows ==
  /\ runs \subseteq runs' /\ timings \subseteq timings' /\ details \subseteq details'
  /\ \A k \in DOMAIN jsonl : k \in DOMAIN jsonl' /\ jsonl'[k] = jsonl[k]

LEMMA StepGrows ==
  ASSUME TypeOK, [Next]_vars
  PROVE  Grows
<1> USE DEF TypeOK, Grows, store, backend
<1>1. ASSUME NEW w, jsonl' = Append(jsonl, w)
      PROVE  \A k \in DOMAIN jsonl : k \in DOMAIN jsonl' /\ jsonl'[k] = jsonl[k]
  BY <1>1
<1>2. ASSUME NEW i \in Invocations, Step(i) \/ Die(i) PROVE Grows
  <2>1. CASE UNCHANGED store
    BY <2>1
  <2>2. CASE SaveRun(i)    BY <2>2 DEF SaveRun
  <2>3. CASE SaveTiming(i) BY <2>3 DEF SaveTiming
  <2>4. CASE SaveDetail(i) BY <2>4 DEF SaveDetail
  <2>5. CASE AppendLine(i) BY <2>5, <1>1 DEF AppendLine
  <2>6. CASE AppendHead(i) BY <2>6, <1>1 DEF AppendHead
  <2>7. CASE AppendRest(i) BY <2>7, <1>1 DEF AppendRest
  <2> QED
    BY <1>2, <2>1, <2>2, <2>3, <2>4, <2>5, <2>6, <2>7
       DEF Step, Open, SkipAlias, Identify, Execute, ReadRows, OpenReport, WriteHead, WriteRest, Die
<1>3. CASE SwapModel BY <1>3 DEF SwapModel
<1>4. CASE UNCHANGED vars BY <1>4 DEF vars
<1> QED BY <1>2, <1>3, <1>4 DEF Next, Terminated

LEMMA CompleteStays ==
  ASSUME Grows, NEW r
  PROVE  /\ HasDetails(r) => HasDetails(r)'
         /\ Complete(r) => Complete(r)'
BY DEF Grows, HasDetails, HasLine, Complete

(* The parts of IInv about an invocation survive the steps of the others.  *)
LEMMA HeadFrame ==
  ASSUME NEW j \in Invocations, HeadAt(j), Grows, fresh'[j] = fresh[j],
         left'[j] = left[j], pc'[j] = pc[j] \/ pc'[j] \notin Storing
  PROVE  HeadAt(j)'
<1>1. Current(j)' = Current(j)
  BY DEF Current
<1>2. HasDetails(Current(j)) => HasDetails(Current(j))'
  BY <1>1, CompleteStays DEF HasDetails
<1> QED BY <1>1, <1>2 DEF HeadAt, Grows, Storing

LEMMA FreshFrame ==
  ASSUME NEW j \in Invocations, FreshAt(j), fresh'[j] = fresh[j],
         executed'[j] = executed[j]
  PROVE  FreshAt(j)' /\ Recorded(j)' = Recorded(j)
BY DEF FreshAt, Recorded

-----------------------------------------------------------------------------
(* Moving to the next result: the head of fresh becomes a recorded one.    *)
LEMMA AdvanceEffect ==
  ASSUME TypeOK, NEW i \in Invocations, FreshAt(i), fresh[i] # <<>>, Advance(i),
         executed' = executed
  PROVE  /\ FreshAt(i)' /\ Recorded(i)' = Recorded(i) + 1
         /\ Recorded(i) \in Nat
         /\ pc'[i] \in {"saveRun", "execute", "alias", "report"}
         /\ pc'[i] = "saveRun" => fresh'[i] # <<>>
<1>1. fresh'[i] = Tail(fresh[i])
  BY DEF TypeOK, Advance
<1>2. /\ fresh[i] \in Seq(RunRows) /\ executed[i] \in Nat
      /\ Len(fresh[i]) \in Nat \ {0}
  BY DEF TypeOK
<1>3. Recorded(i)' = Recorded(i) + 1 /\ Recorded(i) \in Nat
  BY <1>1, <1>2, CurrentType DEF Recorded, FreshAt
<1>4. FreshAt(i)'
  BY <1>1, <1>2, <1>3, CurrentType DEF FreshAt
<1>5. pc'[i] \in {"saveRun", "execute", "alias", "report"}
  BY DEF TypeOK, Advance, Goto, AfterAlias
<1>6. ASSUME pc'[i] = "saveRun" PROVE fresh'[i] # <<>>
  <2>1. Len(fresh[i]) > 1
    BY <1>6 DEF TypeOK, Advance, Goto, AfterAlias
  <2>2. Len(fresh'[i]) > 0
    BY <1>1, <1>2, <2>1, CurrentType
  <2>3. Len(<<>>) = 0
    OBVIOUS
  <2> QED BY <2>2, <2>3
<1> QED BY <1>3, <1>4, <1>5, <1>6

LEMMA HeadKey ==
  ASSUME TypeOK, NEW i \in Invocations, FreshAt(i), fresh[i] # <<>>
  PROVE  /\ Current(i) \in RunRows /\ Current(i).key = <<i, Recorded(i) + 1>>
         /\ Current(i).suite = Jobs[i].suite
<1>1. fresh \in [Invocations -> Seq(RunRows)]
  BY DEF TypeOK
<1>2. Len(fresh[i]) \in Nat \ {0}
  BY <1>1
<1> QED BY <1>1, <1>2, CurrentType DEF FreshAt

LEMMA StepFresh ==
  ASSUME TypeOK, FreshInv, HeadInv, [Next]_vars
  PROVE  FreshInv'
<1>1. ASSUME NEW i \in Invocations, Step(i) \/ Die(i) PROVE FreshInv'
  <2>1. FreshAt(i)'
    <3>1. CASE Execute(i)
      <4>1. PICK result \in RunRows :
              /\ fresh' = [fresh EXCEPT ![i] = Append(@, result)]
              /\ result.key = <<i, executed[i] + 1>>
              /\ result.suite = Jobs[i].suite
        BY <3>1, ExecuteAppends
      <4>2. executed' = [executed EXCEPT ![i] = @ + 1]
        BY <3>1 DEF Execute
      <4>3. /\ fresh'[i] = Append(fresh[i], result)
            /\ executed'[i] = executed[i] + 1
            /\ fresh[i] \in Seq(RunRows) /\ executed[i] \in Nat
        BY <4>1, <4>2 DEF TypeOK
      <4>4. Recorded(i)' = Recorded(i) /\ FreshAt(i)
        BY <4>3 DEF Recorded, FreshInv
      <4> QED BY <4>1, <4>3, <4>4 DEF FreshAt, Recorded
    <3>2. CASE AppendLine(i) \/ AppendRest(i)
      <4>1. /\ fresh[i] # <<>> /\ Advance(i) /\ executed' = executed
        BY <3>2 DEF AppendLine, AppendRest, HeadInv, HeadAt, Storing
      <4> QED BY <4>1, AdvanceEffect DEF FreshInv
    <3>3. CASE UNCHANGED <<fresh, executed>>
      BY <3>3, FreshFrame DEF FreshInv
    <3> QED
      BY <1>1, <3>1, <3>2, <3>3 DEF Step, Open, SkipAlias, Identify, SaveRun,
         SaveTiming, SaveDetail, AppendHead, ReadRows, OpenReport, WriteHead, WriteRest, Die
  <2>2. \A j \in Invocations \ {i} : FreshAt(j)'
    BY <1>1, StepIsLocal, FreshFrame DEF Local, FreshInv
  <2> QED BY <2>1, <2>2 DEF FreshInv
<1>2. CASE SwapModel
  BY <1>2, FreshFrame DEF SwapModel, FreshInv
<1>3. CASE UNCHANGED vars
  BY <1>3, FreshFrame DEF vars, FreshInv
<1> QED BY <1>1, <1>2, <1>3 DEF Next, Terminated

LEMMA StepHead ==
  ASSUME TypeOK, FreshInv, HeadInv, [Next]_vars
  PROVE  HeadInv'
<1>0. Grows
  BY StepGrows
<1>1. ASSUME NEW i \in Invocations, Step(i) \/ Die(i) PROVE HeadInv'
  <2> USE DEF TypeOK, Goto, Storing
  <2>1. HeadAt(i) /\ FreshAt(i)
    BY DEF HeadInv, FreshInv
  <2>2. HeadAt(i)'
    <3>1. CASE Execute(i)
      <4>1. PICK result \in RunRows : fresh' = [fresh EXCEPT ![i] = Append(@, result)]
        BY <3>1, ExecuteAppends
      <4>2. fresh'[i] = Append(fresh[i], result) /\ fresh[i] \in Seq(RunRows)
        BY <4>1
      <4>3. fresh'[i] # <<>>
        <5>1. Len(fresh'[i]) > 0
          BY <4>2
        <5>2. Len(<<>>) = 0
          OBVIOUS
        <5> QED BY <5>1, <5>2
      <4>4. pc'[i] \in {"execute", "saveRun"}
        BY <3>1 DEF Execute
      <4> QED BY <4>2, <4>3, <4>4 DEF HeadAt
    <3>2. CASE AppendLine(i) \/ AppendRest(i)
      <4>1. /\ fresh[i] # <<>> /\ Advance(i) /\ executed' = executed
        BY <2>1, <3>2 DEF AppendLine, AppendRest, HeadAt
      <4> QED BY <2>1, <4>1, AdvanceEffect DEF HeadAt
    <3>3. CASE SaveRun(i)
      <4>1. Current(i)' = Current(i) /\ fresh'[i] = fresh[i]
        BY <3>3 DEF SaveRun, Current
      <4> QED BY <2>1, <3>3, <4>1 DEF SaveRun, HeadAt
    <3>4. CASE SaveTiming(i)
      <4>1. Current(i)' = Current(i) /\ fresh'[i] = fresh[i]
        BY <3>4 DEF SaveTiming, Current
      <4>2. left'[i] = Current(i).details /\ Current(i).key \in timings'
        BY <3>4 DEF SaveTiming
      <4>3. /\ fresh[i] # <<>> /\ Current(i) \in runs'
            /\ pc'[i] = IF Current(i).details = {} THEN "append" ELSE "saveDetails"
        BY <2>1, <3>4 DEF SaveTiming, HeadAt
      <4> QED BY <4>1, <4>2, <4>3 DEF HeadAt, HasDetails
    <3>5. CASE SaveDetail(i)
      <4>1. Current(i)' = Current(i) /\ fresh'[i] = fresh[i]
        BY <3>5 DEF SaveDetail, Current
      <4>2. PICK name \in left[i] :
              /\ details' = details \cup {<<Current(i).key, name>>}
              /\ left'[i] = left[i] \ {name}
              /\ pc'[i] = IF left[i] = {name} THEN "append" ELSE "saveDetails"
        BY <3>5 DEF SaveDetail
      <4>3. /\ fresh[i] # <<>> /\ Current(i) \in runs'
            /\ Current(i).key \in timings'
            /\ \A d \in Current(i).details \ left[i] :
                 <<Current(i).key, d>> \in details
        BY <2>1, <3>5 DEF SaveDetail, HeadAt
      <4>4. \A d \in Current(i).details \ left'[i] :
              <<Current(i).key, d>> \in details'
        BY <4>2, <4>3
      <4>5. pc'[i] = "append" => left'[i] = {}
        BY <4>2
      <4>6. pc'[i] = "append" => HasDetails(Current(i))'
        BY <4>1, <4>4, <4>5 DEF HasDetails
      <4> QED BY <4>1, <4>2, <4>3, <4>4, <4>6 DEF HeadAt
    <3>6. CASE AppendHead(i)
      <4>1. Current(i)' = Current(i) /\ fresh'[i] = fresh[i]
        BY <3>6 DEF AppendHead, Current
      <4> QED BY <2>1, <3>6, <4>1 DEF AppendHead, HeadAt, HasDetails
    <3>7. CASE pc'[i] \notin Storing
      BY <3>7 DEF HeadAt
    <3> QED
      BY <1>1, <3>1, <3>2, <3>3, <3>4, <3>5, <3>6, <3>7 DEF Step, Open,
         SkipAlias, Identify, ReadRows, OpenReport, WriteHead, WriteRest, Die, AfterAlias
  <2>3. \A j \in Invocations \ {i} : HeadAt(j)'
    BY <1>0, <1>1, StepIsLocal, HeadFrame DEF Local, HeadInv
  <2> QED BY <2>2, <2>3 DEF HeadInv
<1>2. CASE SwapModel
  BY <1>0, <1>2, HeadFrame DEF SwapModel, HeadInv
<1>3. CASE UNCHANGED vars
  BY <1>0, <1>3, HeadFrame DEF vars, HeadInv
<1> QED BY <1>1, <1>2, <1>3 DEF Next, Terminated

-----------------------------------------------------------------------------
LEMMA RowFields ==
  ASSUME TypeOK, NEW r \in runs
  PROVE  /\ r \in RunRows /\ r.key[1] \in Invocations /\ r.key[2] \in Nat
         /\ r.key = <<r.key[1], r.key[2]>>
BY DEF TypeOK, RunRows, Keys

LEMMA RecordedInt ==
  ASSUME TypeOK, NEW i \in Invocations
  PROVE  Recorded(i) \in Int
BY DEF TypeOK, Recorded

LEMMA RowFrame ==
  ASSUME TypeOK, NEW r \in runs, RowAt(r), Grows,
         fresh'[r.key[1]] = fresh[r.key[1]],
         executed'[r.key[1]] = executed[r.key[1]],
         pc'[r.key[1]] = pc[r.key[1]] \/
           pc'[r.key[1]] \in (Storing \ {"saveRun"}) \cup {"dead"}
  PROVE  RowAt(r)'
<1>1. /\ Recorded(r.key[1])' = Recorded(r.key[1])
      /\ Current(r.key[1])' = Current(r.key[1])
  BY DEF Recorded, Current
<1> QED BY <1>1, CompleteStays DEF RowAt

LEMMA StepRow ==
  ASSUME TypeOK, FreshInv, HeadInv, RowInv, [Next]_vars
  PROVE  RowInv'
<1>0. Grows
  BY StepGrows
<1>1. ASSUME NEW i \in Invocations, Step(i) \/ Die(i) PROVE RowInv'
  <2>1. HeadAt(i) /\ FreshAt(i) /\ \A r \in runs : RowAt(r)
    BY DEF HeadInv, FreshInv, RowInv
  <2>2. ASSUME NEW r \in runs, r.key[1] # i PROVE RowAt(r)'
    BY <1>0, <1>1, <2>1, <2>2, RowFields, RowFrame, StepIsLocal DEF Local
  <2>3. CASE SaveRun(i)
    <3>1. /\ pc[i] = "saveRun" /\ pc'[i] = "saveTiming" /\ fresh[i] # <<>>
          /\ fresh' = fresh /\ executed' = executed
          /\ runs' = runs \cup {Current(i)}
      BY <2>1, <2>3 DEF SaveRun, Goto, TypeOK, HeadAt, Storing
    <3>2. Recorded(i)' = Recorded(i) /\ Current(i)' = Current(i)
      BY <3>1 DEF Recorded, Current
    <3>3. ASSUME NEW r, r = Current(i) PROVE RowAt(r)'
      <4>1. r.key = <<i, Recorded(i) + 1>> /\ r.suite = Jobs[i].suite
        BY <2>1, <3>1, <3>3, HeadKey
      <4>2. r.key[1] = i /\ r.key[2] = Recorded(i) + 1
        BY <4>1
      <4> QED BY <3>1, <3>2, <3>3, <4>1, <4>2, RecordedInt DEF RowAt, Storing
    <3>4. ASSUME NEW r \in runs, r.key[1] = i PROVE RowAt(r)'
      <4>1. RowAt(r) /\ r.key[2] # Recorded(i) + 1
        BY <2>1, <3>1, <3>4 DEF RowAt, Storing
      <4> QED BY <1>0, <3>2, <3>4, <4>1, CompleteStays DEF RowAt
    <3> QED BY <2>2, <3>1, <3>3, <3>4 DEF RowInv
  <2>4. CASE AppendLine(i) \/ AppendRest(i)
    <3>1. /\ runs' = runs /\ timings' = timings /\ details' = details
          /\ executed' = executed /\ Advance(i) /\ fresh[i] # <<>>
          /\ Current(i).key \in timings /\ HasDetails(Current(i))
      BY <2>1, <2>4 DEF AppendLine, AppendRest, HeadAt, Storing
    <3>2. Recorded(i)' = Recorded(i) + 1 /\ Recorded(i) \in Nat
      BY <2>1, <3>1, AdvanceEffect
    <3>3. ASSUME NEW r \in runs, r.key[1] = i PROVE RowAt(r)'
      <4>1. RowAt(r) /\ r.key[2] \in Nat
        BY <2>1, RowFields
      <4>2. r = Current(i) \/ r.key[2] <= Recorded(i)
        BY <3>2, <3>3, <4>1 DEF RowAt
      <4>3. Complete(r)'
        <5>1. CASE r = Current(i)
          <6>1. PICK part \in {"line", "tail"} :
                  jsonl' = Append(jsonl, [key |-> r.key, part |-> part])
            BY <2>4, <5>1 DEF AppendLine, AppendRest
          <6>2. /\ Len(jsonl) + 1 \in DOMAIN jsonl'
                /\ jsonl'[Len(jsonl) + 1] = [key |-> r.key, part |-> part]
            BY <6>1 DEF TypeOK
          <6>3. HasLine(r)'
            BY <6>2 DEF HasLine
          <6>4. HasDetails(r)'
            BY <1>0, <3>1, <5>1, CompleteStays
          <6> QED BY <3>1, <5>1, <6>3, <6>4 DEF Complete
        <5>2. CASE r.key[2] <= Recorded(i)
          BY <1>0, <3>3, <4>1, <5>2, CompleteStays DEF RowAt
        <5> QED BY <4>2, <5>1, <5>2
      <4> QED BY <2>1, <3>1, <3>2, <3>3, <4>1, <4>2, <4>3, HeadKey DEF RowAt
    <3> QED BY <2>2, <3>1, <3>3 DEF RowInv
  <2>5. CASE ~SaveRun(i) /\ ~AppendLine(i) /\ ~AppendRest(i)
    <3>1. runs' = runs
      BY <1>1, <2>5 DEF Step, Open, SkipAlias, Identify, Execute, SaveTiming,
         SaveDetail, AppendHead, ReadRows, OpenReport, WriteHead, WriteRest, Die, store
    <3>2. ASSUME NEW r \in runs, r.key[1] = i PROVE RowAt(r)'
      <4>1. CASE Execute(i)
        <5>1. /\ fresh' = [fresh EXCEPT ![i] = fresh'[i]]
              /\ executed'[i] = executed[i] + 1 /\ pc[i] = "execute"
              /\ Len(fresh'[i]) = Len(fresh[i]) + 1
              /\ Len(fresh[i]) \in Nat /\ executed[i] \in Nat
          BY <4>1 DEF Execute, TypeOK
        <5>2. Recorded(i)' = Recorded(i)
          BY <5>1 DEF Recorded
        <5>3. r.key[2] <= Recorded(i) /\ RowAt(r) /\ r.key[2] \in Nat
          BY <2>1, <3>2, <5>1, RowFields, RecordedInt DEF RowAt, Storing
        <5> QED BY <1>0, <3>2, <5>2, <5>3, RecordedInt, CompleteStays DEF RowAt
      <4>2. CASE ~Execute(i)
        <5>1. fresh' = fresh /\ executed' = executed
          BY <1>1, <2>5, <4>2 DEF Step, Open, SkipAlias, Identify, SaveTiming,
             SaveDetail, AppendHead, ReadRows, OpenReport, WriteHead, WriteRest, Die
        <5>2. CASE r.key[2] = Recorded(i) + 1
          <6>1. pc[i] \in (Storing \ {"saveRun"}) \cup {"dead"}
            BY <2>1, <3>2, <5>2 DEF RowAt
          <6>2. pc'[i] \in (Storing \ {"saveRun"}) \cup {"dead"}
            BY <1>1, <2>5, <4>2, <6>1 DEF Step, Open, SkipAlias, Identify,
               SaveTiming, SaveDetail, AppendHead, ReadRows, OpenReport, WriteHead, WriteRest, Die,
               Storing, Goto, TypeOK, Active
          <6> QED BY <1>0, <2>1, <3>2, <5>1, <6>2, RowFrame
        <5>3. CASE r.key[2] # Recorded(i) + 1
          <6>1. Recorded(i)' = Recorded(i)
            BY <5>1 DEF Recorded
          <6> QED BY <1>0, <2>1, <3>2, <5>3, <6>1, CompleteStays DEF RowAt
        <5> QED BY <5>2, <5>3
      <4> QED BY <4>1, <4>2
    <3> QED BY <2>2, <3>1, <3>2 DEF RowInv
  <2> QED BY <2>3, <2>4, <2>5
<1>2. CASE SwapModel
  BY <1>0, <1>2, RowFields, RowFrame DEF SwapModel, store, RowInv
<1>3. CASE UNCHANGED vars
  BY <1>0, <1>3, RowFields, RowFrame DEF vars, store, RowInv
<1> QED BY <1>1, <1>2, <1>3 DEF Next, Terminated

LEMMA StepStoreOrder ==
  ASSUME TypeOK, HeadInv, StoreOrder, [Next]_vars
  PROVE  StoreOrder'
<1>0. Grows
  BY StepGrows
<1>1. ASSUME UNCHANGED <<timings, details, jsonl>> PROVE StoreOrder'
  BY <1>0, <1>1, CompleteStays DEF StoreOrder, Grows
<1>2. ASSUME NEW i \in Invocations, SaveTiming(i) PROVE StoreOrder'
  <2>1. /\ timings' = timings \cup {Current(i).key} /\ Current(i) \in runs
        /\ UNCHANGED <<runs, details, jsonl>>
    BY <1>2 DEF SaveTiming, HeadInv, HeadAt, Storing
  <2> QED BY <1>0, <2>1, CompleteStays DEF StoreOrder, Grows
<1>3. ASSUME NEW i \in Invocations, SaveDetail(i) PROVE StoreOrder'
  <2>1. PICK name \in left[i] : details' = details \cup {<<Current(i).key, name>>}
    BY <1>3 DEF SaveDetail
  <2>2. Current(i).key \in timings /\ UNCHANGED <<runs, timings, jsonl>>
    BY <1>3 DEF SaveDetail, HeadInv, HeadAt, Storing
  <2> QED BY <1>0, <2>1, <2>2, CompleteStays DEF StoreOrder, Grows
<1>4. ASSUME NEW i \in Invocations, NEW part,
             pc[i] \in {"append", "appendRest"},
             jsonl' = Append(jsonl, [key |-> Current(i).key, part |-> part]),
             UNCHANGED <<runs, timings, details>>
      PROVE  StoreOrder'
  <2>1. PICK r \in runs : r = Current(i) /\ r.key \in timings /\ HasDetails(r)
    BY <1>4 DEF HeadInv, HeadAt, Storing
  <2>2. HasDetails(r)'
    BY <1>0, <2>1, CompleteStays
  <2>3. ASSUME NEW k \in DOMAIN jsonl'
        PROVE  \E s \in runs : s.key = jsonl'[k].key /\ s.key \in timings
                               /\ HasDetails(s)'
    <3>1. CASE k \in DOMAIN jsonl
      BY <1>0, <3>1, CompleteStays DEF StoreOrder, Grows
    <3>2. CASE k = Len(jsonl) + 1
      <4>1. jsonl'[k].key = r.key
        BY <1>4, <2>1, <3>2 DEF TypeOK
      <4> QED BY <2>1, <2>2, <4>1
    <3>3. k \in DOMAIN jsonl \/ k = Len(jsonl) + 1
      BY <1>4, <2>3 DEF TypeOK
    <3> QED BY <3>1, <3>2, <3>3
  <2> QED BY <1>4, <2>3 DEF StoreOrder
<1>5. ASSUME NEW i \in Invocations, Step(i) \/ Die(i) PROVE StoreOrder'
  <2>1. CASE AppendLine(i) \/ AppendHead(i) \/ AppendRest(i)
    BY <1>4, <2>1 DEF AppendLine, AppendHead, AppendRest
  <2>2. CASE SaveTiming(i) \/ SaveDetail(i)
    BY <1>2, <1>3, <2>2
  <2>3. CASE UNCHANGED <<timings, details, jsonl>>
    BY <1>1, <2>3
  <2> QED
    BY <1>5, <2>1, <2>2, <2>3 DEF Step, Open, SkipAlias, Identify, Execute,
       SaveRun, ReadRows, OpenReport, WriteHead, WriteRest, Die, store
<1>6. CASE SwapModel BY <1>1, <1>6 DEF SwapModel, store
<1>7. CASE UNCHANGED vars BY <1>1, <1>7 DEF vars, store
<1> QED BY <1>5, <1>6, <1>7 DEF Next, Terminated

LEMMA StepReport ==
  ASSUME TypeOK, FreshInv, HeadInv, RowInv, ReportInv, FileInv, [Next]_vars
  PROVE  ReportInv'
<1> USE DEF Writing
<1>1. ASSUME NEW i \in Invocations, Step(i) \/ Die(i) PROVE ReportInv'
  <2>1. Local(i)
    BY <1>1, StepIsLocal
  <2>2. ASSUME NEW j \in Invocations, rows'[j] = rows[j] PROVE Text(j)' = Text(j)
    BY <2>2 DEF Text
  <2>3. CASE SaveRun(i)
    <3>1. /\ runs' = runs \cup {Current(i)} /\ pc[i] = "saveRun"
          /\ pc'[i] = "saveTiming" /\ UNCHANGED <<rows, report>>
      BY <2>3 DEF SaveRun, Goto, TypeOK
    <3>2. Current(i).key = <<i, Recorded(i) + 1>>
      BY <3>1, HeadKey DEF FreshInv, HeadInv, HeadAt, Storing
    <3>3. Current(i).key[1] = i
      BY <3>2
    <3>4. ASSUME NEW text, Covers(text), text.by # i PROVE Covers(text)'
      BY <3>1, <3>3, <3>4 DEF Covers
    <3>5. ASSUME NEW j \in Invocations, pc'[j] \in {"openReport"} \cup Writing
          PROVE  Covers(Text(j))'
      <4>1. j # i /\ pc[j] = pc'[j]
        BY <2>1, <3>1, <3>5 DEF Local
      <4>2. Covers(Text(j)) /\ Text(j).by = j
        BY <3>5, <4>1 DEF ReportInv, Text
      <4>3. Covers(Text(j))'
        BY <3>1, <3>3, <4>1, <4>2 DEF Covers, Text
      <4> QED BY <4>3
    <3>6. ASSUME report # None, NEW text \in ({report.head} \ {None}) \cup report.rest
          PROVE  pc'[text.by] \in {"writeRest", "done", "dead"} /\ Covers(text)'
      <4>1. pc[text.by] \in {"writeRest", "done", "dead"} /\ Covers(text)
        BY <3>6 DEF ReportInv
      <4>2. text.by \in Invocations
        BY <3>6 DEF TypeOK, ReportFiles, Texts
      <4>3. text.by # i
        BY <3>1, <4>1
      <4> QED BY <2>1, <3>4, <4>1, <4>2, <4>3 DEF Local
    <3> QED BY <3>1, <3>5, <3>6 DEF ReportInv
  <2>4. CASE ReadRows(i)
    <3>1. /\ runs' = runs /\ report' = report /\ pc[i] = "report"
          /\ pc'[i] = "openReport"
          /\ rows'[i] = {r \in runs : r.suite = Jobs[i].suite}
      BY <2>4 DEF ReadRows, Goto, TypeOK, store
    <3>2. \A r \in runs : r.key[1] = i => r \in rows'[i]
      BY <3>1 DEF RowInv, RowAt
    <3>3. Covers(Text(i))'
      BY <3>1, <3>2 DEF Covers, Text
    <3> QED BY <2>1, <3>1, <3>3 DEF ReportInv, Local, TypeOK, ReportFiles, Texts, Covers, Text
  <2>5. CASE OpenReport(i) \/ WriteHead(i) \/ WriteRest(i)
    <3>1. /\ UNCHANGED <<runs, rows>> /\ Covers(Text(i))
      BY <2>5 DEF OpenReport, WriteHead, WriteRest, ReportInv, store
    <3>2. ASSUME NEW j \in Invocations, pc'[j] \in {"openReport"} \cup Writing
          PROVE  Covers(Text(j))'
      <4>1. pc[j] \in {"openReport"} \cup Writing
        BY <2>1, <2>5, <3>2 DEF Local, OpenReport, WriteHead, WriteRest
      <4> QED BY <3>1, <4>1 DEF ReportInv, Covers, Text
    <3>3. pc'[i] \in {"writeHead", "writeRest", "done"}
      BY <2>5 DEF OpenReport, WriteHead, WriteRest, Goto, TypeOK
    <3>4. ASSUME NEW text \in ({report'.head} \ {None}) \cup report'.rest
          PROVE  \/ text = Text(i) /\ pc'[i] \in {"writeRest", "done"}
                 \/ report # None /\ text \in ({report.head} \ {None}) \cup report.rest
      <4>1. CASE OpenReport(i)
        BY <3>4, <4>1 DEF OpenReport
      <4>2. CASE WriteHead(i) \/ WriteRest(i)
        <5>1. report \in ReportFiles /\ report # None
          BY <4>2 DEF FileInv, WriteHead, WriteRest, TypeOK
        <5>2. /\ report'.head \in {report.head, Text(i)}
              /\ report'.rest \in SUBSET (report.rest \cup {Text(i)})
              /\ pc'[i] \in {"writeRest", "done"}
          <6>1. CASE WriteHead(i)
            BY <6>1, <5>1 DEF WriteHead, ReportFiles, Goto, TypeOK
          <6>2. CASE WriteRest(i)
            BY <6>2, <5>1 DEF WriteRest, ReportFiles, Goto, TypeOK
          <6> QED BY <4>2, <6>1, <6>2
        <5> QED BY <3>4, <5>1, <5>2
      <4> QED BY <2>5, <4>1, <4>2
    <3>5. ASSUME NEW text \in ({report'.head} \ {None}) \cup report'.rest
          PROVE  pc'[text.by] \in {"writeRest", "done", "dead"} /\ Covers(text)'
      <4>1. CASE text = Text(i) /\ pc'[i] \in {"writeRest", "done"}
        BY <3>1, <4>1 DEF Covers, Text
      <4>2. CASE report # None /\ text \in ({report.head} \ {None}) \cup report.rest
        <5>1. pc[text.by] \in {"writeRest", "done", "dead"} /\ Covers(text)
          BY <4>2 DEF ReportInv
        <5>2. text.by \in Invocations
          BY <4>2 DEF TypeOK, ReportFiles, Texts
        <5>3. pc'[text.by] \in {"writeRest", "done", "dead"}
          BY <2>1, <2>5, <5>1, <5>2 DEF Local, OpenReport, WriteHead, WriteRest, Goto, TypeOK
        <5> QED BY <3>1, <5>1, <5>3 DEF Covers
      <4> QED BY <3>4, <3>5, <4>1, <4>2
    <3> QED BY <3>2, <3>5 DEF ReportInv
  <2>6. CASE /\ ~SaveRun(i) /\ ~ReadRows(i) /\ ~OpenReport(i) /\ ~WriteHead(i)
             /\ ~WriteRest(i)
    <3>1. UNCHANGED <<runs, rows, report>> /\ pc'[i] \notin {"openReport"} \cup Writing
      BY <1>1, <2>6 DEF Step, Open, SkipAlias, Identify, Execute, SaveTiming,
         SaveDetail, AppendLine, AppendHead, AppendRest, Advance, AfterAlias,
         Die, Goto, TypeOK, store
    <3>2. pc[i] \in {"writeRest", "done", "dead"} => pc'[i] \in {"writeRest", "done", "dead"}
      BY <1>1, <2>6 DEF Step, Open, SkipAlias, Identify, Execute, SaveTiming,
         SaveDetail, AppendLine, AppendHead, AppendRest, Die, Active, Goto, TypeOK
    <3> QED BY <2>1, <3>1, <3>2 DEF ReportInv, Local, TypeOK, ReportFiles, Texts, Covers, Text
  <2> QED BY <2>3, <2>4, <2>5, <2>6
<1>2. CASE SwapModel BY <1>2 DEF SwapModel, store, ReportInv, Covers, Text
<1>3. CASE UNCHANGED vars BY <1>3 DEF vars, store, ReportInv, Covers, Text
<1> QED BY <1>1, <1>2, <1>3 DEF Next, Terminated

(* The file of a report that only one invocation may write.                *)
LEMMA StepFile ==
  ASSUME TypeOK, FileInv, [Next]_vars
  PROVE  FileInv'
<1> USE DEF Writing
<1>1. ASSUME NEW i \in Invocations, Step(i) \/ Die(i) PROVE FileInv'
  <2>1. Local(i)
    BY <1>1, StepIsLocal
  <2>2. ASSUME NEW j \in Invocations \ {i}, report' = report, FileAt(j) PROVE FileAt(j)'
    BY <2>1, <2>2 DEF Local, FileAt, Text
  <2>3. CASE OpenReport(i)
    <3>1. /\ report' = [head |-> None, rest |-> {},
                        writers |-> {i} \cup {j \in Invocations : pc[j] \in Writing}]
          /\ pc'[i] = "writeHead"
      BY <2>3 DEF OpenReport, Goto, TypeOK
    <3>2. report' # None /\ report' \in ReportFiles
      BY <3>1, NoFileAssumption DEF ReportFiles
    <3>3. \A j \in Invocations : pc'[j] \in Writing => j \in report'.writers
      BY <2>1, <3>1 DEF Local
    <3>4. \A j \in Invocations : report'.writers = {j} => j = i /\ FileAt(i)'
      BY <3>1 DEF FileAt
    <3> QED BY <3>2, <3>3, <3>4 DEF FileInv
  <2>4. CASE WriteHead(i) \/ WriteRest(i)
    <3>1. report \in ReportFiles /\ report # None /\ i \in report.writers
      BY <2>4 DEF FileInv, WriteHead, WriteRest, TypeOK
    <3>3. report' # None /\ report'.writers = report.writers
      <4>1. Text(i) \in Texts
        BY JobsAssumption DEF JobType, Text, Texts, TypeOK
      <4>2. report' \in ReportFiles /\ report'.writers = report.writers
        BY <2>4, <3>1, <4>1 DEF WriteHead, WriteRest, ReportFiles
      <4> QED BY <4>2, NoFileAssumption
    <3>4. pc[i] \in Writing /\ Text(i)' = Text(i)
      BY <2>4 DEF WriteHead, WriteRest, Text
    <3>5. \A j \in Invocations : pc'[j] \in Writing => j \in report'.writers
      <4>1. \A j \in Invocations : pc'[j] \in Writing => pc[j] \in Writing
        BY <2>1, <3>4 DEF Local
      <4> QED BY <3>3, <4>1 DEF FileInv
    <3>6. ASSUME FileAt(i) PROVE FileAt(i)'
      <4>1. CASE WriteHead(i)
        <5>1. /\ report'.head = Text(i) /\ report'.rest = report.rest /\ report.rest = {}
              /\ pc'[i] = "writeRest"
          BY <3>1, <3>6, <4>1 DEF WriteHead, FileAt, ReportFiles, Goto, TypeOK
        <5> QED BY <3>4, <5>1 DEF FileAt
      <4>2. CASE WriteRest(i)
        <5>1. /\ report'.head = Text(i) /\ report'.rest = {Text(i)} /\ pc'[i] = "done"
          BY <3>1, <3>6, <4>2 DEF WriteRest, FileAt, ReportFiles, Goto, TypeOK
        <5> QED BY <3>4, <5>1 DEF FileAt
      <4> QED BY <2>4, <4>1, <4>2
    <3>7. ASSUME NEW j \in Invocations, report'.writers = {j} PROVE FileAt(j)'
      <4>1. j = i /\ FileAt(i)
        BY <3>1, <3>3, <3>7 DEF FileInv
      <4> QED BY <3>6, <4>1
    <3> QED BY <3>3, <3>5, <3>7 DEF FileInv
  <2>5. CASE ~OpenReport(i) /\ ~WriteHead(i) /\ ~WriteRest(i)
    <3>1. report' = report /\ pc'[i] \notin {"writeHead", "writeRest", "done"}
      BY <1>1, <2>5 DEF Step, Open, SkipAlias, Identify, Execute, SaveRun, SaveTiming,
         SaveDetail, AppendLine, AppendHead, AppendRest, Advance, AfterAlias,
         ReadRows, Die, Goto, TypeOK
    <3>2. FileAt(i)'
      BY <3>1 DEF FileAt
    <3>3. \A j \in Invocations : pc'[j] \in Writing => pc[j] \in Writing
      BY <2>1, <3>1 DEF Local
    <3> QED BY <2>2, <3>1, <3>2, <3>3 DEF FileInv
  <2> QED BY <2>3, <2>4, <2>5
<1>2. CASE SwapModel BY <1>2 DEF SwapModel, store, FileInv, FileAt, Text
<1>3. CASE UNCHANGED vars BY <1>3 DEF vars, store, FileInv, FileAt, Text
<1> QED BY <1>1, <1>2, <1>3 DEF Next, Terminated

-----------------------------------------------------------------------------
LEMMA InitIInv == Init => IInv
<1> SUFFICES ASSUME Init PROVE IInv
  OBVIOUS
<1>1. TypeOK
  BY InitTypeOK
<1>2. FreshInv
  BY DEF Init, FreshInv, FreshAt
<1>3. HeadInv
  BY DEF Init, HeadInv, HeadAt, Storing
<1>4. RowInv /\ StoreOrder
  BY DEF Init, RowInv, StoreOrder
<1>5. ReportInv
  BY DEF Init, ReportInv, Writing
<1>6. FileInv
  BY DEF Init, FileInv, Writing
<1> QED BY <1>1, <1>2, <1>3, <1>4, <1>5, <1>6 DEF IInv

LEMMA StepIInv == IInv /\ [Next]_vars => IInv'
BY StepTypeOK, StepFresh, StepHead, StepRow, StepStoreOrder, StepReport, StepFile DEF IInv

LEMMA Invariance == Spec => []IInv
BY InitIInv, StepIInv, PTL DEF Spec

(* Every variable keeps its type: in particular the key of each row names  *)
(* an invocation and the position of a result it produced.                 *)
THEOREM TypeCorrect == Spec => []TypeOK
<1>1. IInv => TypeOK
  BY DEF IInv
<1> QED BY Invariance, <1>1, PTL

(* save_run and save_run_artifact keep their order under any number of     *)
(* invocations and kills: no line of runs.jsonl without its database rows, *)
(* no timing without its run, no score without its timing.                 *)
THEOREM StoreIsOrdered == Spec => []StoreOrder
<1>1. IInv => StoreOrder
  BY DEF IInv
<1> QED BY Invariance, <1>1, PTL

(* However many invocations share the directory, and whichever of them     *)
(* die, a run that is not stored everywhere is the one result its          *)
(* invocation was storing.                                                 *)
THEOREM PartialIsCurrent == Spec => []OnlyTheCurrentIsPartial
<1>1. IInv => OnlyTheCurrentIsPartial
  <2> SUFFICES ASSUME IInv, NEW r \in runs, ~Complete(r)
               PROVE  /\ r.key[2] = Recorded(r.key[1]) + 1
                      /\ pc[r.key[1]] \in {"saveTiming", "saveDetails", "append",
                                           "appendRest", "dead"}
    BY DEF OnlyTheCurrentIsPartial
  <2>1. RowAt(r) /\ r.key[1] \in Invocations /\ r.key[2] \in Nat
        /\ Recorded(r.key[1]) \in Int
    BY RowFields, RecordedInt DEF IInv, RowInv
  <2> QED BY <2>1 DEF RowAt, Storing
<1> QED BY Invariance, <1>1, PTL

(* Whatever of a report is on disk includes every row its author stored,   *)
(* whatever the other invocations did to the database and to the file.     *)
THEOREM ReportIsCurrentForAuthor == Spec => []ReportCoversItsAuthor
<1>1. IInv => ReportCoversItsAuthor
  BY DEF IInv, ReportInv, ReportCoversItsAuthor, Covers
<1> QED BY Invariance, <1>1, PTL

(* A report that was cut or mixed was written by an invocation that died   *)
(* over it, or by two at once: for any number of invocations, the file     *)
(* that only one of them had open since it was emptied is, when that one   *)
(* ended, its text and nothing else.                                       *)
THEOREM ReportIsWhole == Spec => []FinishedReportIsWhole
<1>1. IInv => FinishedReportIsWhole
  BY DEF IInv, FileInv, FileAt, FinishedReportIsWhole
<1> QED BY Invariance, <1>1, PTL

-----------------------------------------------------------------------------
(***************************************************************************)
(* What the four loops of an invocation of CliRun store, proved for any    *)
(* jobs and any interleaving: every result is the cell of the plan that    *)
(* its number says, so an invocation runs each cell once, in order, and    *)
(* stops with its report only when it ran all of them.  That makes the     *)
(* invocations an implementation of RunLedger.                             *)
(*                                                                         *)
(* The argument counts cells: a result's number is the number of cells     *)
(* before its own, and Due, where the loops stand, has as many cells       *)
(* before it as results were executed.  The loops' arithmetic is only that *)
(* one more result leaves one more cell behind (NextVariant) and that the  *)
(* ends of the loops leave out none (the Carry lemmas).                    *)
(***************************************************************************)

Spot(a, t, r, v) == [alias |-> a, task |-> t, run |-> r, variant |-> v]
Position(i, v) == Spot(at[i].alias, at[i].task, at[i].run, v)

(* The cell to execute next, or, while results are stored, the one after   *)
(* the last variant.                                                       *)
Due(i) == Position(i, IF pc[i] \in Storing THEN Variants(i) + 1 ELSE Len(fresh[i]) + 1)

(* Results hold the cell of their number.                                  *)
InPlace(i, r) ==
  r.cell \in Cells(i) /\ Cardinality(Earlier(i, r.cell)) = r.key[2] - 1

(* Where the loops stand at each step.                                     *)
LoopAt(i) ==
  /\ pc[i] \in {"start", "alias", "report", "openReport", "writeHead", "writeRest", "done"} => fresh[i] = <<>>
  /\ pc[i] \in {"start", "alias"} => at[i].task = 1 /\ at[i].run = 1
  /\ pc[i] = "start" => at[i].alias = 1
  /\ pc[i] \in {"alias", "execute"} \cup Storing =>
       /\ at[i].alias \in DOMAIN Jobs[i].aliases
       /\ at[i].task \in DOMAIN Jobs[i].kinds
       /\ at[i].run \in 1..Jobs[i].runs
  /\ pc[i] \in {"execute"} \cup Storing =>
       AliasAt(i) \in Configured
  /\ pc[i] = "execute" => Len(fresh[i]) < Variants(i)
  /\ pc[i] \in {"start", "alias", "execute"} \cup Storing =>
       executed[i] = Cardinality(Earlier(i, Due(i)))
  /\ pc[i] \in {"report", "openReport", "writeHead", "writeRest", "done"} =>
       executed[i] = Cardinality(Cells(i))

LoopInv == \A i \in Invocations : LoopAt(i)
FreshCellInv ==
  \A i \in Invocations : \A k \in 1..Len(fresh[i]) : InPlace(i, fresh[i][k])
RowCellInv == \A r \in runs : InPlace(r.key[1], r)

(* Rows are told apart by their keys, and none is missing.                 *)
RowsUnique == \A r, s \in runs : r.key = s.key => r = s
RowsExist ==
  \A i \in Invocations : \A n \in 1..Recorded(i) : \E r \in runs : r.key = <<i, n>>

(* The lines of a recorded result: one, or two of which the first is not   *)
(* the last line of the file.                                              *)
Begun(key) == \E k \in DOMAIN jsonl : jsonl[k] = [key |-> key, part |-> "head"]
Ended(key) ==
  \E k \in DOMAIN jsonl :
    \/ jsonl[k] = [key |-> key, part |-> "line"]
    \/ /\ jsonl[k] = [key |-> key, part |-> "head"]
       /\ k < Len(jsonl)
LineInv ==
  \A i \in Invocations :
    /\ pc[i] = "appendRest" => Begun(Current(i).key)
    /\ \A n \in 1..Recorded(i) : Ended(<<i, n>>)

PlanInv ==
  LoopInv /\ FreshCellInv /\ RowCellInv /\ RowsUnique /\ RowsExist /\ LineInv

-----------------------------------------------------------------------------
(* The cells of a job: finitely many, and in a strict order.               *)
LEMMA JobFields ==
  ASSUME NEW i \in Invocations
  PROVE  /\ DOMAIN Jobs[i].aliases = 1..Len(Jobs[i].aliases)
         /\ Len(Jobs[i].aliases) \in Nat \ {0}
         /\ DOMAIN Jobs[i].kinds = 1..Len(Jobs[i].kinds)
         /\ Len(Jobs[i].kinds) \in Nat
         /\ Jobs[i].runs \in Nat \ {0} /\ Variants(i) \in Nat \ {0}
<1>1. Jobs[i] \in JobType /\ Jobs[i].aliases # <<>>
  BY JobsAssumption
<1>2. /\ Jobs[i].aliases \in Seq(AliasNames) /\ Jobs[i].kinds \in Seq(TaskKinds)
      /\ Jobs[i].runs \in Nat \ {0} /\ Jobs[i].sizes \in Nat \ {0}
      /\ Jobs[i].styles \in Nat \ {0}
  BY <1>1 DEF JobType
<1>3. Len(Jobs[i].aliases) # 0
  BY <1>1, <1>2
<1> QED BY <1>2, <1>3 DEF Variants

LEMMA CellFields ==
  ASSUME NEW i \in Invocations, NEW c \in Cells(i)
  PROVE  /\ c.alias \in 1..Len(Jobs[i].aliases)
         /\ Jobs[i].aliases[c.alias] \in Configured
         /\ c.task \in 1..Len(Jobs[i].kinds)
         /\ c.run \in 1..Jobs[i].runs /\ c.variant \in 1..Variants(i)
         /\ c.alias \in Nat /\ c.task \in Nat /\ c.run \in Nat /\ c.variant \in Nat
BY JobFields DEF Cells

LEMMA CellsEqual ==
  ASSUME NEW i \in Invocations, NEW c \in Cells(i), NEW d \in Cells(i),
         c.alias = d.alias, c.task = d.task, c.run = d.run, c.variant = d.variant
  PROVE  c = d
BY DEF Cells

LEMMA CellsFinite ==
  ASSUME NEW i \in Invocations
  PROVE  IsFiniteSet(Cells(i))
<1> DEFINE A == {k \in DOMAIN Jobs[i].aliases : Jobs[i].aliases[k] \in Configured}
           T == DOMAIN Jobs[i].kinds
           R == 1..Jobs[i].runs
           V == 1..Variants(i)
           P == (A \X T) \X (R \X V)
           f == [p \in P |-> [alias |-> p[1][1], task |-> p[1][2],
                              run |-> p[2][1], variant |-> p[2][2]]]
<1>1. IsFiniteSet(A) /\ IsFiniteSet(T) /\ IsFiniteSet(R) /\ IsFiniteSet(V)
  <2>1. \A n \in Nat : IsFiniteSet(1..n)
    BY FS_Interval
  <2>2. IsFiniteSet(1..Len(Jobs[i].aliases)) /\ IsFiniteSet(T) /\ IsFiniteSet(R)
        /\ IsFiniteSet(V)
    BY <2>1, JobFields
  <2>3. A \in SUBSET (1..Len(Jobs[i].aliases))
    BY JobFields
  <2>4. IsFiniteSet(A)
    BY <2>2, <2>3, FS_Subset
  <2> QED BY <2>2, <2>4
<1> HIDE DEF A, T, R, V
<1>2. IsFiniteSet(P)
  <2>1. IsFiniteSet(A \X T) /\ IsFiniteSet(R \X V)
    BY <1>1, FS_Product
  <2> QED BY <2>1, FS_Product
<1>3. f \in Surjection(P, [alias : A, task : T, run : R, variant : V])
  <2> DEFINE C == [alias : A, task : T, run : R, variant : V]
  <2>1. f \in [P -> C]
    OBVIOUS
  <2>2. ASSUME NEW c \in C PROVE \E p \in P : f[p] = c
    <3>1. <<<<c.alias, c.task>>, <<c.run, c.variant>>>> \in P
      OBVIOUS
    <3>2. f[<<<<c.alias, c.task>>, <<c.run, c.variant>>>>] = c
      BY <3>1
    <3> QED BY <3>1, <3>2
  <2> QED BY <2>1, <2>2 DEF Surjection
<1>4. IsFiniteSet([alias : A, task : T, run : R, variant : V])
  BY <1>2, <1>3, FS_Surjection
<1> QED BY <1>4 DEF Cells, A, T, R, V

LEMMA EarlierFinite ==
  ASSUME NEW i \in Invocations, NEW c
  PROVE  /\ IsFiniteSet(Earlier(i, c)) /\ Cardinality(Earlier(i, c)) \in Nat
         /\ Cardinality(Cells(i)) \in Nat
         /\ Cardinality(Earlier(i, c)) <= Cardinality(Cells(i))
<1>1. Earlier(i, c) \in SUBSET Cells(i)
  BY DEF Earlier
<1> QED BY <1>1, CellsFinite, FS_Subset, FS_CardinalityType

(* A cell has fewer cells before it than there are, and than any later one.*)
LEMMA EarlierCounts ==
  ASSUME NEW i \in Invocations, NEW c \in Cells(i)
  PROVE  /\ Cardinality(Earlier(i, c)) < Cardinality(Cells(i))
         /\ \A d \in Cells(i) : Before(c, d) =>
              Cardinality(Earlier(i, c)) < Cardinality(Earlier(i, d))
<1>1. c \notin Earlier(i, c)
  BY CellFields DEF Earlier, Before
<1>2. ASSUME NEW S, S \subseteq Cells(i), Earlier(i, c) \subseteq S, c \in S
      PROVE  Cardinality(Earlier(i, c)) < Cardinality(S)
  <2>1. IsFiniteSet(S) /\ Cardinality(S) \in Nat
    BY <1>2, CellsFinite, FS_Subset, FS_CardinalityType
  <2>2. Cardinality(Earlier(i, c)) <= Cardinality(S)
        /\ (Cardinality(S) = Cardinality(Earlier(i, c)) => S = Earlier(i, c))
    BY <1>2, <2>1, FS_Subset
  <2> QED BY <1>1, <1>2, <2>1, <2>2, EarlierFinite
<1>3. Cardinality(Earlier(i, c)) < Cardinality(Cells(i))
  BY <1>2 DEF Earlier
<1>4. ASSUME NEW d \in Cells(i), Before(c, d)
      PROVE  Cardinality(Earlier(i, c)) < Cardinality(Earlier(i, d))
  <2>1. ASSUME NEW b \in Cells(i), Before(b, c) PROVE Before(b, d)
    BY <1>4, <2>1, CellFields DEF Before
  <2>2. Earlier(i, c) \subseteq Earlier(i, d) /\ c \in Earlier(i, d)
        /\ Earlier(i, d) \subseteq Cells(i)
    BY <1>4, <2>1 DEF Earlier
  <2> QED BY <1>2, <2>2
<1> QED BY <1>3, <1>4

(* So the number of cells before it tells a cell.                          *)
LEMMA EarlierTells ==
  ASSUME NEW i \in Invocations, NEW c \in Cells(i), NEW d \in Cells(i),
         Cardinality(Earlier(i, c)) = Cardinality(Earlier(i, d))
  PROVE  c = d
<1>1. ~Before(c, d) /\ ~Before(d, c)
  BY EarlierCounts, EarlierFinite
<1>2. /\ c.alias = d.alias /\ c.task = d.task
      /\ c.run = d.run /\ c.variant = d.variant
  BY <1>1, CellFields DEF Before
<1> QED BY <1>2, CellsEqual

LEMMA PlanOfCell ==
  ASSUME NEW i \in Invocations, NEW c \in Cells(i), NEW n \in Nat,
         Cardinality(Earlier(i, c)) = n - 1
  PROVE  n \in DOMAIN Plan[i] /\ Plan[i][n] = c
<1>1. n \in 1..Cardinality(Cells(i))
  BY EarlierCounts, EarlierFinite
<1>2. \A d \in Cells(i) : Cardinality(Earlier(i, d)) = n - 1 => d = c
  BY EarlierTells
<1>3. c = CHOOSE d \in Cells(i) : Cardinality(Earlier(i, d)) = n - 1
  BY <1>2
<1> QED BY <1>1, <1>3 DEF Plan

-----------------------------------------------------------------------------
(* How the loops move over the cells.                                      *)
LEMMA NextVariant ==
  ASSUME NEW i \in Invocations, NEW a, NEW t, NEW r, NEW v \in Nat,
         Spot(a, t, r, v) \in Cells(i)
  PROVE  Cardinality(Earlier(i, Spot(a, t, r, v + 1)))
           = Cardinality(Earlier(i, Spot(a, t, r, v))) + 1
<1> DEFINE c == Spot(a, t, r, v)
<1>1. Earlier(i, Spot(a, t, r, v + 1)) = Earlier(i, c) \cup {c}
  <2>1. ASSUME NEW d \in Cells(i)
        PROVE  Before(d, Spot(a, t, r, v + 1)) <=> Before(d, c) \/ d = c
    <3>1. d = c <=> d.alias = a /\ d.task = t /\ d.run = r /\ d.variant = v
      BY CellsEqual DEF Spot
    <3>2. d.variant \in Nat
      BY CellFields
    <3>3. d.variant < v + 1 <=> d.variant < v \/ d.variant = v
      BY <3>2
    <3> QED BY <3>1, <3>3 DEF Before, Spot
  <2> QED BY <2>1 DEF Earlier
<1>2. c \notin Earlier(i, c)
  BY CellFields DEF Earlier, Before
<1> QED BY <1>1, <1>2, EarlierFinite, FS_AddElement

(* The ends of the loops.                                                  *)
LEMMA CarryRun ==
  ASSUME NEW i \in Invocations, NEW a \in Nat, NEW t \in Nat, NEW r \in Nat
  PROVE  Earlier(i, Spot(a, t, r, Variants(i) + 1)) = Earlier(i, Spot(a, t, r + 1, 1))
<1>1. ASSUME NEW d \in Cells(i)
      PROVE  Before(d, Spot(a, t, r, Variants(i) + 1)) <=> Before(d, Spot(a, t, r + 1, 1))
  BY CellFields, JobFields DEF Before, Spot
<1> QED BY <1>1 DEF Earlier

LEMMA CarryTask ==
  ASSUME NEW i \in Invocations, NEW a \in Nat, NEW t \in Nat
  PROVE  Earlier(i, Spot(a, t, Jobs[i].runs, Variants(i) + 1))
           = Earlier(i, Spot(a, t + 1, 1, 1))
<1>1. ASSUME NEW d \in Cells(i)
      PROVE  Before(d, Spot(a, t, Jobs[i].runs, Variants(i) + 1))
               <=> Before(d, Spot(a, t + 1, 1, 1))
  BY CellFields, JobFields DEF Before, Spot
<1> QED BY <1>1 DEF Earlier

LEMMA CarryAlias ==
  ASSUME NEW i \in Invocations, NEW a \in Nat
  PROVE  Earlier(i, Spot(a, Len(Jobs[i].kinds), Jobs[i].runs, Variants(i) + 1))
           = Earlier(i, Spot(a + 1, 1, 1, 1))
<1>1. ASSUME NEW d \in Cells(i)
      PROVE  Before(d, Spot(a, Len(Jobs[i].kinds), Jobs[i].runs, Variants(i) + 1))
               <=> Before(d, Spot(a + 1, 1, 1, 1))
  BY CellFields, JobFields DEF Before, Spot
<1> QED BY <1>1 DEF Earlier

LEMMA CarrySkip ==
  ASSUME NEW i \in Invocations, NEW a \in Nat, Jobs[i].aliases[a] \notin Configured
  PROVE  Earlier(i, Spot(a, 1, 1, 1)) = Earlier(i, Spot(a + 1, 1, 1, 1))
<1>1. ASSUME NEW d \in Cells(i)
      PROVE  Before(d, Spot(a, 1, 1, 1)) <=> Before(d, Spot(a + 1, 1, 1, 1))
  <2>1. d.alias # a
    BY CellFields
  <2> QED BY <2>1, CellFields DEF Before, Spot
<1> QED BY <1>1 DEF Earlier

LEMMA CarryEnd ==
  ASSUME NEW i \in Invocations
  PROVE  /\ Earlier(i, Spot(Len(Jobs[i].aliases) + 1, 1, 1, 1)) = Cells(i)
         /\ Earlier(i, Spot(1, 1, 1, 1)) = {}
<1>1. ASSUME NEW d \in Cells(i)
      PROVE  /\ Before(d, Spot(Len(Jobs[i].aliases) + 1, 1, 1, 1))
             /\ ~Before(d, Spot(1, 1, 1, 1))
  BY CellFields, JobFields DEF Before, Spot
<1> QED BY <1>1 DEF Earlier

-----------------------------------------------------------------------------
(* The loop variables are an invocation's own, too.                        *)
LEMMA LoopIsLocal ==
  ASSUME TypeOK, NEW i \in Invocations, Step(i) \/ Die(i)
  PROVE  \A j \in Invocations \ {i} : at'[j] = at[j]
<1>1. CASE at' = at
  BY <1>1
<1>2. CASE SkipAlias(i)
  BY <1>2 DEF SkipAlias, TypeOK
<1>3. CASE Advance(i)
  BY <1>3 DEF Advance, TypeOK
<1> QED
  BY <1>1, <1>2, <1>3 DEF Step, Open, Identify, Execute, SaveRun, SaveTiming,
     SaveDetail, AppendLine, AppendHead, AppendRest, ReadRows, OpenReport, WriteHead, WriteRest, Die

LEMMA DueStays ==
  ASSUME NEW i \in Invocations, at'[i] = at[i],
         \/ {pc[i], pc'[i]} \subseteq Storing
         \/ {pc[i], pc'[i]} \cap Storing = {} /\ fresh'[i] = fresh[i]
  PROVE  Due(i)' = Due(i)
BY DEF Due, Position

LEMMA LoopFrame ==
  ASSUME NEW j \in Invocations, LoopAt(j), fresh'[j] = fresh[j],
         executed'[j] = executed[j], at'[j] = at[j],
         pc'[j] = pc[j] \/ pc'[j] \in {"dead", "refused"}
  PROVE  LoopAt(j)'
<1>1. CASE pc'[j] = pc[j]
  <2>1. Due(j)' = Due(j)
    BY <1>1, DueStays
  <2>2. AliasAt(j)' = AliasAt(j)
    BY DEF AliasAt
  <2> QED BY <1>1, <2>1, <2>2 DEF LoopAt
<1>2. CASE pc'[j] \in {"dead", "refused"}
  BY <1>2 DEF LoopAt, Storing
<1> QED BY <1>1, <1>2

(* Execute appends the cell that is due.                                   *)
LEMMA ExecuteCell ==
  ASSUME TypeOK, NEW i \in Invocations, LoopAt(i), Execute(i)
  PROVE  /\ Due(i) = Position(i, Len(fresh[i]) + 1) /\ Due(i) \in Cells(i)
         /\ fresh'[i] = Append(fresh[i], fresh'[i][Len(fresh[i]) + 1])
         /\ InPlace(i, fresh'[i][Len(fresh[i]) + 1])
<1>1. pc[i] = "execute"
  BY DEF Execute
<1>2. Due(i) = Position(i, Len(fresh[i]) + 1)
  BY <1>1 DEF Due, Storing
<1>3. /\ at[i].alias \in DOMAIN Jobs[i].aliases
      /\ Jobs[i].aliases[at[i].alias] \in Configured
      /\ at[i].task \in DOMAIN Jobs[i].kinds /\ at[i].run \in 1..Jobs[i].runs
      /\ Len(fresh[i]) < Variants(i) /\ Len(fresh[i]) \in Nat
      /\ executed[i] = Cardinality(Earlier(i, Due(i)))
  BY <1>1 DEF LoopAt, AliasAt, TypeOK
<1>4. Len(fresh[i]) + 1 \in 1..Variants(i)
  BY <1>3, JobFields
<1>5. Due(i) \in Cells(i)
  BY <1>2, <1>3, <1>4 DEF Cells, Position, Spot
<1>6. PICK result \in { Outcome(i, r) : r \in Results(Jobs[i].kinds[at[i].task]) }
                      \cup (IF Variants(i) > 1 THEN {SweepError(i)} ELSE {}) :
        fresh' = [fresh EXCEPT ![i] = Append(@, result)]
  BY DEF Execute
<1>7. result.key = <<i, executed[i] + 1>> /\ result.cell = Due(i)
  <2>1. ASSUME NEW r
        PROVE  /\ Outcome(i, r).key = <<i, executed[i] + 1>>
               /\ Outcome(i, r).cell = Due(i)
    BY <1>2 DEF Outcome, Position, Spot
  <2>2. CASE result = SweepError(i)
    <3> DEFINE o == Outcome(i, [status |-> "error", details |-> {}])
    <3>1. o.key = <<i, executed[i] + 1>> /\ o.cell = Due(i)
      BY <2>1
    <3>2. SweepError(i).key = o.key /\ SweepError(i).cell = o.cell
      BY DEF SweepError, Outcome
    <3> QED BY <2>2, <3>1, <3>2
  <2>3. CASE \E r \in Results(Jobs[i].kinds[at[i].task]) : result = Outcome(i, r)
    BY <2>1, <2>3
  <2> QED BY <1>6, <2>2, <2>3
<1>8. fresh'[i] = Append(fresh[i], result) /\ fresh[i] \in Seq(RunRows)
  BY <1>6 DEF TypeOK
<1>9. fresh'[i][Len(fresh[i]) + 1] = result
  BY <1>8
<1>10. result.key[2] - 1 = executed[i]
  BY <1>7 DEF TypeOK
<1>11. InPlace(i, result)
  BY <1>3, <1>5, <1>7, <1>10 DEF InPlace
<1> QED BY <1>2, <1>5, <1>8, <1>9, <1>11

(* Where the loops go on, as many cells are behind as results.             *)
LEMMA AdvanceLoop ==
  ASSUME TypeOK, NEW i \in Invocations, FreshAt(i), LoopAt(i), fresh[i] # <<>>,
         pc[i] \in Storing, Advance(i), executed' = executed
  PROVE  LoopAt(i)'
<1> DEFINE a == at[i].alias
           t == at[i].task
           r == at[i].run
<1>1. /\ a \in 1..Len(Jobs[i].aliases) /\ t \in 1..Len(Jobs[i].kinds)
      /\ r \in 1..Jobs[i].runs /\ a \in Nat /\ t \in Nat /\ r \in Nat
      /\ AliasAt(i) \in Configured
      /\ executed[i] = Cardinality(Earlier(i, Spot(a, t, r, Variants(i) + 1)))
  BY JobFields DEF LoopAt, Due, Position, TypeOK
<1>2. fresh'[i] = Tail(fresh[i]) /\ executed'[i] = executed[i]
      /\ Len(fresh'[i]) = Len(fresh[i]) - 1 /\ Len(fresh[i]) \in Nat \ {0}
      /\ fresh'[i] \in Seq(RunRows)
  BY CurrentType DEF TypeOK, Advance
<1>3. CASE Len(fresh[i]) > 1
  <2>1. pc'[i] = "saveRun" /\ at' = at
    BY <1>3 DEF Advance, Goto, TypeOK
  <2>2. Due(i)' = Due(i)
    BY <2>1, DueStays DEF Storing
  <2> QED BY <1>2, <2>1, <2>2 DEF LoopAt, Storing, AliasAt
<1>4. CASE Len(fresh[i]) = 1
  <2>1. Len(fresh'[i]) = 0 /\ fresh'[i] = <<>>
    <3>1. \A s \in Seq(RunRows) : Len(s) = 1 - 1 => s = <<>> /\ Len(s) = 0
      OBVIOUS
    <3> QED BY <1>2, <1>4, <3>1
  <2>2. pc'[i] \in {"execute", "alias", "report"} =>
          Due(i)' = Spot(at'[i].alias, at'[i].task, at'[i].run, 1)
    BY <2>1 DEF Due, Position, Storing
  <2>3. CASE r < Jobs[i].runs
    <3>1. pc'[i] = "execute" /\ at'[i] = [at[i] EXCEPT !.run = @ + 1]
      BY <1>4, <2>3 DEF Advance, Goto, TypeOK
    <3>2. at'[i].alias = a /\ at'[i].task = t /\ at'[i].run = r + 1
      BY <3>1 DEF TypeOK
    <3>3. executed'[i] = Cardinality(Earlier(i, Due(i)'))
      <4>1. Due(i)' = Spot(a, t, r + 1, 1)
        BY <2>2, <3>1, <3>2
      <4>2. executed[i] = Cardinality(Earlier(i, Spot(a, t, r + 1, 1)))
        BY <1>1, CarryRun
      <4> QED BY <1>2, <4>1, <4>2
    <3>4. r + 1 \in 1..Jobs[i].runs /\ 0 < Variants(i)
      BY <1>1, <2>3, JobFields
    <3>5. AliasAt(i)' = AliasAt(i)
      BY <3>2 DEF AliasAt
    <3> QED BY <1>1, <2>1, <3>1, <3>2, <3>3, <3>4, <3>5, JobFields DEF LoopAt, Storing
  <2>4. CASE ~(r < Jobs[i].runs) /\ t < Len(Jobs[i].kinds)
    <3>1. /\ pc'[i] = "execute"
          /\ at'[i] = [alias |-> a, task |-> t + 1, run |-> 1]
      BY <1>4, <2>4 DEF Advance, Goto, TypeOK
    <3>2. r = Jobs[i].runs
      BY <1>1, <2>4, JobFields
    <3>3. executed'[i] = Cardinality(Earlier(i, Due(i)'))
      <4>1. at'[i].alias = a /\ at'[i].task = t + 1 /\ at'[i].run = 1
        BY <3>1
      <4>2. Due(i)' = Spot(a, t + 1, 1, 1)
        BY <2>2, <3>1, <4>1
      <4>3. executed[i] = Cardinality(Earlier(i, Spot(a, t + 1, 1, 1)))
        BY <1>1, <3>2, CarryTask
      <4> QED BY <1>2, <4>2, <4>3
    <3>4. t + 1 \in 1..Len(Jobs[i].kinds) /\ 1 \in 1..Jobs[i].runs /\ 0 < Variants(i)
      BY <1>1, <2>4, JobFields
    <3>5. AliasAt(i)' = AliasAt(i)
      BY <3>1 DEF AliasAt
    <3> QED BY <1>1, <2>1, <3>1, <3>3, <3>4, <3>5, JobFields DEF LoopAt, Storing
  <2>5. CASE ~(r < Jobs[i].runs) /\ ~(t < Len(Jobs[i].kinds))
    <3>1. pc'[i] = AfterAlias(i) /\ at'[i] = NextAlias(i)
      BY <1>4, <2>5 DEF Advance, Goto, TypeOK
    <3>2. r = Jobs[i].runs /\ t = Len(Jobs[i].kinds)
      BY <1>1, <2>5, JobFields
    <3>3. executed[i] = Cardinality(Earlier(i, Spot(a + 1, 1, 1, 1)))
      BY <1>1, <3>2, CarryAlias
    <3>4. CASE LastAlias(i)
      <4>1. executed[i] = Cardinality(Cells(i))
        BY <3>3, <3>4, CarryEnd DEF LastAlias
      <4> QED BY <1>2, <2>1, <3>1, <3>4, <4>1 DEF LoopAt, AfterAlias, Storing
    <3>5. CASE ~LastAlias(i)
      <4>1. /\ pc'[i] = "alias"
            /\ at'[i].alias = a + 1 /\ at'[i].task = 1 /\ at'[i].run = 1
        BY <3>1, <3>5 DEF AfterAlias, NextAlias
      <4>2. /\ a + 1 \in DOMAIN Jobs[i].aliases /\ 1 \in DOMAIN Jobs[i].kinds
            /\ 1 \in 1..Jobs[i].runs
        BY <1>1, <3>5, JobFields DEF LastAlias
      <4>3. executed'[i] = Cardinality(Earlier(i, Due(i)'))
        BY <1>2, <2>2, <3>3, <4>1
      <4> QED BY <2>1, <4>1, <4>2, <4>3 DEF LoopAt, Storing
    <3> QED BY <3>4, <3>5
  <2> QED BY <2>3, <2>4, <2>5
<1>5. Len(fresh[i]) > 1 \/ Len(fresh[i]) = 1
  <2>1. \A n \in Nat \ {0} : n > 1 \/ n = 1
    OBVIOUS
  <2> QED BY <1>2, <2>1
<1> QED BY <1>3, <1>4, <1>5

LEMMA StepLoop ==
  ASSUME TypeOK, FreshInv, HeadInv, LoopInv, [Next]_vars
  PROVE  LoopInv'
<1>1. ASSUME NEW i \in Invocations, Step(i) \/ Die(i) PROVE LoopInv'
  <2>1. LoopAt(i) /\ FreshAt(i) /\ HeadAt(i)
    BY DEF LoopInv, FreshInv, HeadInv
  <2>2. LoopAt(i)'
    <3> USE DEF Goto, TypeOK
    <3>1. CASE Open(i)
      <4>1. /\ pc[i] = "start" /\ pc'[i] = (IF Jobs[i].slug /\ Runnable(i) THEN "alias" ELSE "refused")
            /\ at'[i] = at[i] /\ fresh'[i] = fresh[i] /\ executed'[i] = executed[i]
        BY <3>1 DEF Open
      <4>2. CASE pc'[i] = "refused"
        BY <2>1, <4>1, <4>2, LoopFrame
      <4>3. CASE pc'[i] = "alias" /\ Runnable(i)
        <5>1. Jobs[i].kinds \in Seq(TaskKinds) /\ Jobs[i].kinds # <<>>
          BY <4>3, JobsAssumption DEF JobType, Runnable
        <5>2. Len(Jobs[i].kinds) # 0
          BY <5>1
        <5>3. /\ 1 \in DOMAIN Jobs[i].aliases /\ 1 \in DOMAIN Jobs[i].kinds
              /\ 1 \in 1..Jobs[i].runs
          BY <5>2, JobFields
        <5>4. Due(i)' = Due(i)
          BY <4>1, <4>3, DueStays DEF Storing
        <5> QED BY <2>1, <4>1, <4>3, <5>3, <5>4 DEF LoopAt, Storing
      <4> QED BY <4>1, <4>2, <4>3
    <3>2. CASE SkipAlias(i)
      <4>1. /\ pc[i] = "alias" /\ AliasAt(i) \notin Configured
            /\ pc'[i] = AfterAlias(i) /\ at'[i] = NextAlias(i)
            /\ fresh'[i] = <<>> /\ executed'[i] = executed[i]
            /\ fresh[i] = <<>>
        BY <2>1, <3>2 DEF SkipAlias, LoopAt
      <4>2. /\ at[i].alias \in 1..Len(Jobs[i].aliases) /\ at[i].alias \in Nat
            /\ at[i].task = 1 /\ at[i].run = 1 /\ 1 \in DOMAIN Jobs[i].kinds
            /\ 1 \in 1..Jobs[i].runs
            /\ Due(i) = Spot(at[i].alias, 1, 1, 1)
            /\ executed[i] = Cardinality(Earlier(i, Due(i)))
        BY <2>1, <4>1, JobFields DEF LoopAt, Due, Position, Storing
      <4>3. executed[i] = Cardinality(Earlier(i, Spot(at[i].alias + 1, 1, 1, 1)))
        BY <4>1, <4>2, CarrySkip DEF AliasAt
      <4>4. CASE LastAlias(i)
        <5>1. executed[i] = Cardinality(Cells(i))
          BY <4>3, <4>4, CarryEnd DEF LastAlias
        <5> QED BY <4>1, <4>4, <5>1 DEF LoopAt, AfterAlias, Storing
      <4>5. CASE ~LastAlias(i)
        <5>1. /\ pc'[i] = "alias" /\ at'[i].alias = at[i].alias + 1
              /\ at'[i].task = 1 /\ at'[i].run = 1
          BY <4>1, <4>5 DEF AfterAlias, NextAlias
        <5>2. at[i].alias + 1 \in DOMAIN Jobs[i].aliases
          BY <4>2, <4>5, JobFields DEF LastAlias
        <5>3. Due(i)' = Spot(at[i].alias + 1, 1, 1, 1)
          BY <4>1, <5>1 DEF Due, Position, Storing
        <5> QED BY <4>1, <4>2, <4>3, <5>1, <5>2, <5>3 DEF LoopAt, Storing
      <4> QED BY <4>4, <4>5
    <3>3. CASE Identify(i)
      <4>1. /\ pc[i] = "alias" /\ pc'[i] = "execute" /\ AliasAt(i) \in Configured
            /\ at'[i] = at[i] /\ fresh'[i] = fresh[i] /\ executed'[i] = executed[i]
        BY <3>3 DEF Identify
      <4>2. Due(i)' = Due(i) /\ AliasAt(i)' = AliasAt(i)
        BY <4>1, DueStays DEF Storing, AliasAt
      <4>3. Len(fresh'[i]) = 0 /\ 0 < Variants(i)
        BY <2>1, <4>1, JobFields DEF LoopAt
      <4> QED BY <2>1, <4>1, <4>2, <4>3 DEF LoopAt, Storing
    <3>4. CASE Execute(i)
      <4>1. /\ pc[i] = "execute" /\ at'[i] = at[i]
            /\ pc'[i] = (IF Len(fresh[i]) + 1 = Variants(i) THEN "saveRun" ELSE "execute")
            /\ executed'[i] = executed[i] + 1
        BY <3>4 DEF Execute
      <4>2. /\ Due(i) = Position(i, Len(fresh[i]) + 1) /\ Due(i) \in Cells(i)
            /\ fresh'[i] = Append(fresh[i], fresh'[i][Len(fresh[i]) + 1])
        BY <2>1, <3>4, ExecuteCell
      <4>3. Len(fresh[i]) \in Nat /\ Len(fresh[i]) < Variants(i)
        BY <2>1, <4>1 DEF LoopAt
      <4>4. Len(fresh'[i]) = Len(fresh[i]) + 1
        <5>1. fresh[i] \in Seq(RunRows) /\ \E x : fresh'[i] = Append(fresh[i], x)
          BY <4>2
        <5>2. \A s \in Seq(RunRows) : \A x : Len(Append(s, x)) = Len(s) + 1
          OBVIOUS
        <5> QED BY <5>1, <5>2
      <4>5. Due(i)' = Position(i, Len(fresh[i]) + 1 + 1)
        BY <4>1, <4>4 DEF Due, Position, Storing
      <4>6. executed'[i] = Cardinality(Earlier(i, Due(i)'))
        <5>1. Len(fresh[i]) + 1 \in Nat
          BY <4>3
        <5>2. Cardinality(Earlier(i, Position(i, Len(fresh[i]) + 1 + 1)))
                = Cardinality(Earlier(i, Due(i))) + 1
          BY <4>2, <5>1, NextVariant DEF Position
        <5> QED BY <2>1, <4>1, <4>5, <5>2 DEF LoopAt
      <4>7. AliasAt(i)' = AliasAt(i)
        BY <4>1 DEF AliasAt
      <4>8. pc'[i] = "execute" => Len(fresh'[i]) < Variants(i)
        BY <4>1, <4>3, <4>4, JobFields
      <4> QED BY <2>1, <4>1, <4>6, <4>7, <4>8 DEF LoopAt, Storing
    <3>5. CASE SaveRun(i) \/ SaveTiming(i) \/ SaveDetail(i) \/ AppendHead(i)
      <4>1. /\ pc[i] \in Storing /\ pc'[i] \in Storing /\ at'[i] = at[i]
            /\ fresh'[i] = fresh[i] /\ executed'[i] = executed[i]
        BY <3>5 DEF SaveRun, SaveTiming, SaveDetail, AppendHead, Storing
      <4>2. Due(i)' = Due(i) /\ AliasAt(i)' = AliasAt(i)
        BY <4>1, DueStays DEF AliasAt
      <4> QED BY <2>1, <4>1, <4>2 DEF LoopAt, Storing
    <3>6. CASE AppendLine(i) \/ AppendRest(i)
      <4>1. /\ pc[i] \in Storing /\ fresh[i] # <<>> /\ Advance(i)
            /\ executed' = executed
        BY <2>1, <3>6 DEF AppendLine, AppendRest, HeadAt, Storing
      <4> QED BY <2>1, <4>1, AdvanceLoop
    <3>7. CASE ReadRows(i) \/ OpenReport(i) \/ WriteHead(i) \/ WriteRest(i)
      <4>1. /\ pc[i] \in {"report", "openReport", "writeHead", "writeRest"}
            /\ pc'[i] \in {"openReport", "writeHead", "writeRest", "done"}
            /\ fresh'[i] = fresh[i] /\ executed'[i] = executed[i]
        BY <3>7 DEF ReadRows, OpenReport, WriteHead, WriteRest, Goto, TypeOK
      <4> QED BY <2>1, <4>1 DEF LoopAt, Storing
    <3>8. CASE Die(i)
      BY <2>1, <3>8, LoopFrame DEF Die
    <3> QED BY <1>1, <3>1, <3>2, <3>3, <3>4, <3>5, <3>6, <3>7, <3>8 DEF Step
  <2>3. \A j \in Invocations \ {i} : LoopAt(j)'
    BY <1>1, StepIsLocal, LoopIsLocal, LoopFrame DEF Local, LoopInv
  <2> QED BY <2>2, <2>3 DEF LoopInv
<1>2. CASE SwapModel
  BY <1>2, LoopFrame DEF SwapModel, LoopInv
<1>3. CASE UNCHANGED vars
  BY <1>3, LoopFrame DEF vars, LoopInv
<1> QED BY <1>1, <1>2, <1>3 DEF Next, Terminated

(* Results stay in place while they wait and when they are stored.         *)
LEMMA StepFreshCell ==
  ASSUME TypeOK, HeadInv, LoopInv, FreshCellInv, [Next]_vars
  PROVE  FreshCellInv'
<1> DEFINE Placed(i) == \A k \in 1..Len(fresh[i]) : InPlace(i, fresh[i][k])
<1>1. ASSUME NEW i \in Invocations, Step(i) \/ Die(i) PROVE FreshCellInv'
  <2>1. Placed(i) /\ LoopAt(i) /\ HeadAt(i) /\ fresh[i] \in Seq(RunRows)
    BY DEF FreshCellInv, LoopInv, HeadInv, TypeOK
  <2>2. Placed(i)'
    <3>1. CASE Execute(i)
      <4> DEFINE n == Len(fresh[i])
                 x == fresh'[i][n + 1]
      <4>1. fresh'[i] = Append(fresh[i], x) /\ InPlace(i, x)
        BY <2>1, <3>1, ExecuteCell
      <4>2. \A s \in Seq(RunRows) : \A y : \A k \in 1..Len(Append(s, y)) :
              \/ k \in 1..Len(s) /\ Append(s, y)[k] = s[k]
              \/ k = Len(s) + 1 /\ Append(s, y)[k] = y
        OBVIOUS
      <4> HIDE DEF x
      <4>3. ASSUME NEW k \in 1..Len(fresh'[i]) PROVE InPlace(i, fresh'[i][k])
        <5>1. k \in 1..Len(Append(fresh[i], x))
          BY <4>1, <4>3
        <5>2. \/ k \in 1..Len(fresh[i]) /\ Append(fresh[i], x)[k] = fresh[i][k]
              \/ Append(fresh[i], x)[k] = x
          BY <2>1, <4>2, <5>1
        <5>3. fresh'[i][k] = Append(fresh[i], x)[k]
          BY <4>1
        <5> QED BY <2>1, <4>1, <5>2, <5>3
      <4> QED BY <4>3
    <3>2. CASE AppendLine(i) \/ AppendRest(i)
      <4>1. fresh[i] # <<>> /\ fresh'[i] = Tail(fresh[i])
        BY <2>1, <3>2 DEF AppendLine, AppendRest, Advance, HeadAt, Storing, TypeOK
      <4>2. \A k \in 1..Len(fresh'[i]) :
              k + 1 \in 1..Len(fresh[i]) /\ fresh'[i][k] = fresh[i][k + 1]
        BY <2>1, <4>1, CurrentType
      <4> QED BY <2>1, <4>2
    <3>3. CASE fresh' = fresh
      BY <2>1, <3>3
    <3> QED
      BY <1>1, <3>1, <3>2, <3>3 DEF Step, Open, SkipAlias, Identify, SaveRun,
         SaveTiming, SaveDetail, AppendHead, ReadRows, OpenReport, WriteHead, WriteRest, Die
  <2>3. \A j \in Invocations \ {i} : Placed(j)'
    BY <1>1, StepIsLocal DEF Local, FreshCellInv
  <2> QED BY <2>2, <2>3 DEF FreshCellInv
<1>2. CASE UNCHANGED fresh
  BY <1>2 DEF FreshCellInv
<1> QED BY <1>1, <1>2 DEF Next, Terminated, SwapModel, vars

LEMMA StepRowCell ==
  ASSUME TypeOK, FreshInv, HeadInv, FreshCellInv, RowCellInv, [Next]_vars
  PROVE  RowCellInv'
<1>1. CASE runs' = runs
  BY <1>1 DEF RowCellInv
<1>2. ASSUME NEW i \in Invocations, SaveRun(i) PROVE RowCellInv'
  <2>1. fresh[i] # <<>> /\ runs' = runs \cup {Current(i)}
    BY <1>2 DEF SaveRun, HeadInv, HeadAt, Storing
  <2>2. Current(i) = fresh[i][1] /\ Current(i).key[1] = i
    BY <2>1, CurrentType, HeadKey DEF FreshInv
  <2>3. 1 \in 1..Len(fresh[i])
    <3>1. fresh[i] \in Seq(RunRows)
      BY DEF TypeOK
    <3> QED BY <2>1, <3>1
  <2>4. InPlace(i, Current(i))
    BY <2>2, <2>3 DEF FreshCellInv
  <2> QED BY <2>1, <2>2, <2>4 DEF RowCellInv
<1> QED
  BY <1>1, <1>2 DEF Next, Terminated, SwapModel, vars, store, Step, Open,
     SkipAlias, Identify, Execute, SaveTiming, SaveDetail, AppendLine,
     AppendHead, AppendRest, ReadRows, OpenReport, WriteHead, WriteRest, Die

LEMMA StepRowsUnique ==
  ASSUME TypeOK, FreshInv, HeadInv, RowInv, RowsUnique, [Next]_vars
  PROVE  RowsUnique'
<1>1. CASE runs' = runs
  BY <1>1 DEF RowsUnique
<1>2. ASSUME NEW i \in Invocations, SaveRun(i) PROVE RowsUnique'
  <2>1. fresh[i] # <<>> /\ runs' = runs \cup {Current(i)} /\ pc[i] = "saveRun"
    BY <1>2 DEF SaveRun, HeadInv, HeadAt, Storing
  <2>2. Current(i).key = <<i, Recorded(i) + 1>>
    BY <2>1, HeadKey DEF FreshInv
  <2>3. ASSUME NEW r \in runs PROVE r.key # Current(i).key
    <3>1. SUFFICES ASSUME r.key = <<i, Recorded(i) + 1>> PROVE FALSE
      BY <2>2
    <3>2. r.key[1] = i /\ r.key[2] = Recorded(i) + 1
      BY <3>1
    <3> QED BY <2>1, <3>2 DEF RowInv, RowAt, Storing
  <2> QED BY <2>1, <2>3 DEF RowsUnique
<1> QED
  BY <1>1, <1>2 DEF Next, Terminated, SwapModel, vars, store, Step, Open,
     SkipAlias, Identify, Execute, SaveTiming, SaveDetail, AppendLine,
     AppendHead, AppendRest, ReadRows, OpenReport, WriteHead, WriteRest, Die

(* How an invocation's count of recorded results changes.                  *)
LEMMA RecordedSteps ==
  ASSUME TypeOK, FreshInv, HeadInv, [Next]_vars
  PROVE  \/ \A i \in Invocations : Recorded(i)' = Recorded(i)
         \/ \E i \in Invocations :
              /\ AppendLine(i) \/ AppendRest(i)
              /\ fresh[i] # <<>> /\ Current(i) \in runs
              /\ Current(i).key = <<i, Recorded(i) + 1>>
              /\ Recorded(i) \in Nat /\ Recorded(i)' = Recorded(i) + 1
              /\ \A j \in Invocations \ {i} : Recorded(j)' = Recorded(j)
<1>1. ASSUME NEW i \in Invocations, AppendLine(i) \/ AppendRest(i)
      PROVE  /\ fresh[i] # <<>> /\ Current(i) \in runs
             /\ Current(i).key = <<i, Recorded(i) + 1>>
             /\ Recorded(i) \in Nat /\ Recorded(i)' = Recorded(i) + 1
             /\ \A j \in Invocations \ {i} : Recorded(j)' = Recorded(j)
  <2>1. /\ fresh[i] # <<>> /\ Current(i) \in runs /\ Advance(i)
        /\ executed' = executed
    BY <1>1 DEF AppendLine, AppendRest, HeadInv, HeadAt, Storing
  <2>2. Recorded(i) \in Nat /\ Recorded(i)' = Recorded(i) + 1
    BY <2>1, AdvanceEffect DEF FreshInv
  <2>3. \A j \in Invocations \ {i} : Recorded(j)' = Recorded(j)
    BY <1>1, StepIsLocal DEF Local, Recorded, Step
  <2> QED BY <2>1, <2>2, <2>3, HeadKey DEF FreshInv
<1>2. ASSUME NEW i \in Invocations, Execute(i)
      PROVE  \A j \in Invocations : Recorded(j)' = Recorded(j)
  <2>1. PICK result \in RunRows : fresh' = [fresh EXCEPT ![i] = Append(@, result)]
    BY <1>2, ExecuteAppends
  <2>2. executed' = [executed EXCEPT ![i] = @ + 1]
    BY <1>2 DEF Execute
  <2>3. Len(fresh'[i]) = Len(fresh[i]) + 1 /\ Len(fresh[i]) \in Nat
        /\ executed'[i] = executed[i] + 1 /\ executed[i] \in Nat
    BY <2>1, <2>2 DEF TypeOK
  <2>4. Recorded(i)' = Recorded(i)
    BY <2>3 DEF Recorded
  <2> QED BY <1>2, <2>4, StepIsLocal DEF Local, Recorded, Step
<1>3. CASE fresh' = fresh /\ executed' = executed
  BY <1>3 DEF Recorded
<1> QED
  BY <1>1, <1>2, <1>3 DEF Next, Terminated, SwapModel, vars, Step, Open,
     SkipAlias, Identify, SaveRun, SaveTiming, SaveDetail, AppendHead, ReadRows,
     OpenReport, WriteHead, WriteRest, Die

LEMMA StepRowsExist ==
  ASSUME TypeOK, FreshInv, HeadInv, RowsExist, [Next]_vars
  PROVE  RowsExist'
<1>0. runs \subseteq runs'
  BY StepGrows DEF Grows
<1>1. CASE \A i \in Invocations : Recorded(i)' = Recorded(i)
  BY <1>0, <1>1 DEF RowsExist
<1>2. ASSUME NEW i \in Invocations, Current(i) \in runs,
             Current(i).key = <<i, Recorded(i) + 1>>, Recorded(i) \in Nat,
             Recorded(i)' = Recorded(i) + 1,
             \A j \in Invocations \ {i} : Recorded(j)' = Recorded(j)
      PROVE  RowsExist'
  <2>1. ASSUME NEW n \in 1..(Recorded(i) + 1) PROVE \E r \in runs' : r.key = <<i, n>>
    <3>1. CASE n = Recorded(i) + 1
      BY <1>0, <1>2, <3>1
    <3>2. CASE n \in 1..Recorded(i)
      BY <1>0, <3>2 DEF RowsExist
    <3> QED BY <1>2, <3>1, <3>2
  <2> QED BY <1>0, <1>2, <2>1 DEF RowsExist
<1> QED BY <1>1, <1>2, RecordedSteps

-----------------------------------------------------------------------------
LEMMA EndedStays ==
  ASSUME TypeOK, NEW key, Grows, jsonl' \in Seq(Writes)
  PROVE  (Begun(key) => Begun(key)') /\ (Ended(key) => Ended(key)')
<1>1. \A k \in DOMAIN jsonl : k \in DOMAIN jsonl' /\ jsonl'[k] = jsonl[k]
  BY DEF Grows
<1>2. ASSUME NEW k \in DOMAIN jsonl, k < Len(jsonl) PROVE k < Len(jsonl')
  <2>1. Len(jsonl) \in DOMAIN jsonl /\ DOMAIN jsonl' = 1..Len(jsonl')
        /\ k \in Nat /\ Len(jsonl) \in Nat /\ Len(jsonl') \in Nat
    BY <1>2 DEF TypeOK
  <2>2. Len(jsonl) \in 1..Len(jsonl')
    BY <1>1, <2>1
  <2> QED BY <1>2, <2>1, <2>2
<1> QED BY <1>1, <1>2 DEF Begun, Ended

LEMMA StepLine ==
  ASSUME TypeOK, TypeOK', FreshInv, HeadInv, LineInv, [Next]_vars
  PROVE  LineInv'
<1>0. Grows /\ jsonl' \in Seq(Writes) /\ jsonl \in Seq(Writes)
  BY StepGrows DEF TypeOK
<1>1. ASSUME NEW i \in Invocations, pc'[i] = "appendRest" PROVE Begun(Current(i).key)'
  <2>1. CASE AppendHead(i)
    <3>1. /\ jsonl' = Append(jsonl, [key |-> Current(i).key, part |-> "head"])
          /\ Current(i)' = Current(i)
      BY <2>1 DEF AppendHead, Current
    <3>2. /\ Len(jsonl) + 1 \in DOMAIN jsonl'
          /\ jsonl'[Len(jsonl) + 1] = [key |-> Current(i).key, part |-> "head"]
      BY <1>0, <3>1
    <3> QED BY <3>1, <3>2 DEF Begun
  <2>2. CASE ~AppendHead(i)
    <3>1. pc[i] = "appendRest" /\ fresh'[i] = fresh[i]
      <4>1. ASSUME NEW j \in Invocations, Step(j) \/ Die(j), j # i
            PROVE  pc'[i] = pc[i] /\ fresh'[i] = fresh[i]
        BY <4>1, StepIsLocal DEF Local
      <4>2. ~Step(i) /\ ~Die(i)
        BY <1>1, <2>2 DEF Step, Open, SkipAlias, Identify, Execute, SaveRun,
           SaveTiming, SaveDetail, AppendLine, AppendRest, Advance, AfterAlias,
           ReadRows, OpenReport, WriteHead, WriteRest, Die, Goto, TypeOK
      <4>3. CASE UNCHANGED <<pc, fresh>>
        BY <1>1, <4>3
      <4> QED BY <1>1, <4>1, <4>2, <4>3 DEF Next, Terminated, SwapModel, vars
    <3>2. Begun(Current(i).key) /\ Current(i)' = Current(i)
      BY <3>1 DEF LineInv, Current
    <3>3. Begun(Current(i).key)' <=> \E k \in DOMAIN jsonl' :
            jsonl'[k] = [key |-> Current(i).key, part |-> "head"]
      BY <3>2 DEF Begun
    <3> QED BY <1>0, <3>2, <3>3 DEF Begun, Grows
  <2> QED BY <2>1, <2>2
<1>2. CASE \A i \in Invocations : Recorded(i)' = Recorded(i)
  BY <1>0, <1>1, <1>2, EndedStays DEF LineInv
<1>3. ASSUME NEW i \in Invocations, AppendLine(i) \/ AppendRest(i), NEW m,
             m = Recorded(i), Current(i).key = <<i, m + 1>>, m \in Nat,
             Recorded(i)' = m + 1,
             \A j \in Invocations \ {i} : Recorded(j)' = Recorded(j)
      PROVE  LineInv'
  <2> DEFINE key == <<i, m + 1>>
  <2>1. Ended(key)'
    <3>1. CASE AppendLine(i)
      <4>1. jsonl' = Append(jsonl, [key |-> key, part |-> "line"])
        BY <1>3, <3>1 DEF AppendLine
      <4>2. /\ Len(jsonl) + 1 \in DOMAIN jsonl'
            /\ jsonl'[Len(jsonl) + 1] = [key |-> key, part |-> "line"]
        BY <1>0, <4>1
      <4> HIDE DEF key
      <4>3. \E k \in DOMAIN jsonl' : jsonl'[k] = [key |-> key, part |-> "line"]
        BY <4>2
      <4> QED BY <4>3 DEF Ended
    <3>2. CASE AppendRest(i)
      <4>1. /\ Begun(key)
            /\ jsonl' = Append(jsonl, [key |-> key, part |-> "tail"])
        BY <1>3, <3>2 DEF AppendRest, LineInv
      <4> HIDE DEF key
      <4>2. PICK k \in DOMAIN jsonl : jsonl[k] = [key |-> key, part |-> "head"]
        BY <4>1 DEF Begun
      <4>3. k \in DOMAIN jsonl' /\ jsonl'[k] = jsonl[k] /\ k < Len(jsonl')
        BY <1>0, <4>1
      <4>4. \E n \in DOMAIN jsonl' :
              jsonl'[n] = [key |-> key, part |-> "head"] /\ n < Len(jsonl')
        BY <4>2, <4>3
      <4> QED BY <4>4 DEF Ended
    <3> QED BY <1>3, <3>1, <3>2
  <2>2. ASSUME NEW n \in 1..(m + 1) PROVE Ended(<<i, n>>)'
    <3>1. CASE n = m + 1
      BY <2>1, <3>1
    <3>2. CASE n \in 1..m
      BY <1>0, <1>3, <3>2, EndedStays DEF LineInv
    <3> QED BY <1>3, <3>1, <3>2
  <2>3. \A j \in Invocations \ {i} : \A n \in 1..Recorded(j)' : Ended(<<j, n>>)'
    BY <1>0, <1>3, EndedStays DEF LineInv
  <2>4. \A n \in 1..Recorded(i)' : Ended(<<i, n>>)'
    BY <1>3, <2>2
  <2> QED BY <1>1, <2>3, <2>4 DEF LineInv
<1> QED BY <1>2, <1>3, RecordedSteps

-----------------------------------------------------------------------------
LEMMA InitPlanInv == Init => PlanInv
<1> SUFFICES ASSUME Init PROVE PlanInv
  OBVIOUS
<1>1. ASSUME NEW i \in Invocations PROVE LoopAt(i)
  <2>1. /\ pc[i] = "start" /\ fresh[i] = <<>> /\ executed[i] = 0
        /\ at[i].alias = 1 /\ at[i].task = 1 /\ at[i].run = 1
    BY DEF Init
  <2>2. Len(fresh[i]) = 0
    BY <2>1
  <2>3. Due(i) = Spot(1, 1, 1, 1)
    BY <2>1, <2>2 DEF Due, Position, Storing
  <2>4. Cardinality(Earlier(i, Due(i))) = 0
    BY <2>3, CarryEnd, FS_EmptySet
  <2> QED BY <2>1, <2>4 DEF LoopAt, Storing
<1>2. ASSUME NEW i \in Invocations
      PROVE  /\ 1..Len(fresh[i]) = {} /\ 1..Recorded(i) = {} /\ pc[i] = "start"
  <2>1. fresh[i] = <<>> /\ executed[i] = 0 /\ pc[i] = "start"
    BY DEF Init
  <2>2. Len(fresh[i]) = 0
    BY <2>1
  <2> QED BY <2>1, <2>2 DEF Recorded
<1>3. runs = {}
  BY DEF Init
<1> QED
  BY <1>1, <1>2, <1>3 DEF PlanInv, LoopInv, FreshCellInv, RowCellInv,
     RowsUnique, RowsExist, LineInv

LEMMA StepPlanInv == IInv /\ IInv' /\ PlanInv /\ [Next]_vars => PlanInv'
BY StepLoop, StepFreshCell, StepRowCell, StepRowsUnique, StepRowsExist, StepLine
   DEF IInv, PlanInv

LEMMA PlanInvariance == Spec => [](IInv /\ PlanInv)
<1>1. Init => IInv /\ PlanInv
  BY InitIInv, InitPlanInv
<1>2. IInv /\ PlanInv /\ [Next]_vars => (IInv /\ PlanInv)'
  BY StepIInv, StepPlanInv
<1> QED BY <1>1, <1>2, PTL DEF Spec

-----------------------------------------------------------------------------
(* What the invariants say of rows: numbered, each holds the cell of the   *)
(* plan that its number says, and a recorded one is everywhere.            *)
LEMMA RowOfPlan ==
  ASSUME IInv, PlanInv, NEW r \in runs
  PROVE  /\ r.key[1] \in Invocations /\ r.key[2] \in Nat
         /\ r.key[2] \in DOMAIN Plan[r.key[1]]
         /\ Plan[r.key[1]][r.key[2]] = r.cell
<1>1. r.key[1] \in Invocations /\ r.key[2] \in Nat
  BY RowFields DEF IInv
<1>2. r.cell \in Cells(r.key[1])
      /\ Cardinality(Earlier(r.key[1], r.cell)) = r.key[2] - 1
  BY DEF PlanInv, RowCellInv, InPlace
<1> QED BY <1>1, <1>2, PlanOfCell

LEMMA RecordedRow ==
  ASSUME IInv, PlanInv, NEW i \in Invocations, NEW n \in 1..Recorded(i)
  PROVE  \E r \in runs :
           /\ r.key = <<i, n>> /\ Complete(r) /\ r.cell = Plan[i][n]
           /\ n \in DOMAIN Plan[i] /\ RecordedCell(i, n) = Plan[i][n]
<1>1. PICK r \in runs : r.key = <<i, n>>
  BY DEF PlanInv, RowsExist
<1>2. r.key[1] = i /\ r.key[2] = n
  BY <1>1
<1>3. n \in DOMAIN Plan[i] /\ Plan[i][n] = r.cell
  BY <1>2, RowOfPlan
<1>4. n <= Recorded(i)
  BY RecordedInt DEF IInv
<1>5. Complete(r)
  BY <1>2, <1>4 DEF IInv, RowInv, RowAt
<1>6. (CHOOSE s \in runs : s.key = <<i, n>>) = r
  BY <1>1 DEF PlanInv, RowsUnique
<1> QED BY <1>1, <1>3, <1>5, <1>6 DEF RecordedCell

(* No invocation, whatever it shares the directory with, stores two        *)
(* results for one model, task, repetition and variant.                    *)
THEOREM CellsAreStoredOnce == Spec => []OneRowPerCell
<1>1. IInv /\ PlanInv => OneRowPerCell
  <2> SUFFICES ASSUME IInv, PlanInv, NEW r \in runs, NEW s \in runs,
                      r.key[1] = s.key[1], r.cell = s.cell
               PROVE  r = s
    BY DEF OneRowPerCell
  <2>1. r.key[2] - 1 = s.key[2] - 1
    BY DEF PlanInv, RowCellInv, InPlace
  <2>2. r.key = <<r.key[1], r.key[2]>> /\ s.key = <<s.key[1], s.key[2]>>
        /\ r.key[2] \in Nat /\ s.key[2] \in Nat
    BY RowFields DEF IInv
  <2>3. r.key[2] = s.key[2]
    BY <2>1, <2>2
  <2> QED BY <2>2, <2>3 DEF PlanInv, RowsUnique
<1> QED BY PlanInvariance, <1>1, PTL

(* An invocation that got to its end stored every cell of its plan in the  *)
(* database and in runs.jsonl: the loops of cli.run skip none.             *)
THEOREM FinishedIsComplete == Spec => []DoneIsComplete
<1>1. IInv /\ PlanInv => DoneIsComplete
  <2> SUFFICES ASSUME IInv, PlanInv, NEW i \in Invocations, pc[i] = "done",
                      NEW n \in DOMAIN Plan[i]
               PROVE  \E r \in runs : r.key[1] = i /\ r.cell = Plan[i][n] /\ Complete(r)
    BY DEF DoneIsComplete
  <2>1. fresh[i] = <<>> /\ executed[i] = Cardinality(Cells(i))
    BY DEF PlanInv, LoopInv, LoopAt
  <2>2. Len(fresh[i]) = 0
    BY <2>1
  <2>3. Recorded(i) = Cardinality(Cells(i))
    BY <2>1, <2>2, EarlierFinite DEF Recorded
  <2>4. n \in 1..Recorded(i)
    BY <2>3 DEF Plan
  <2>5. PICK r \in runs : r.key = <<i, n>> /\ Complete(r) /\ r.cell = Plan[i][n]
    BY <2>4, RecordedRow
  <2>6. r.key[1] = i
    BY <2>5
  <2> QED BY <2>5, <2>6
<1> QED BY PlanInvariance, <1>1, PTL

(* Until a kill or another invocation's write leaves a torn line in        *)
(* runs.jsonl, every recorded result can be read back from it.             *)
THEOREM LossIsTorn == Spec => []UnreadableNeedsATear
<1>1. IInv /\ PlanInv => UnreadableNeedsATear
  <2> SUFFICES ASSUME IInv, PlanInv, NEW r \in runs,
                      r.key[2] <= Recorded(r.key[1]), ~Readable(r.key)
               PROVE  \E k \in DOMAIN jsonl : Torn(k)
    BY DEF UnreadableNeedsATear
  <2>1. /\ r.key[1] \in Invocations /\ r.key[2] \in Nat
        /\ r.key = <<r.key[1], r.key[2]>> /\ Recorded(r.key[1]) \in Int
    BY RowFields, RecordedInt DEF IInv
  <2>2. r.key[2] \in 1..Recorded(r.key[1])
    <3>1. Cardinality(Earlier(r.key[1], r.cell)) = r.key[2] - 1
      BY DEF PlanInv, RowCellInv, InPlace
    <3>2. Cardinality(Earlier(r.key[1], r.cell)) \in Nat
      BY <2>1, EarlierFinite
    <3> QED BY <2>1, <3>1, <3>2
  <2>3. Ended(r.key)
    BY <2>1, <2>2 DEF PlanInv, LineInv
  <2>4. PICK k \in DOMAIN jsonl :
          \/ jsonl[k] = [key |-> r.key, part |-> "line"]
          \/ /\ jsonl[k] = [key |-> r.key, part |-> "head"]
             /\ k < Len(jsonl)
    BY <2>3 DEF Ended
  <2>5. /\ jsonl[k].key = r.key /\ jsonl[k].part \in {"line", "head"}
        /\ jsonl[k].part = "head" => k < Len(jsonl)
    BY <2>4
  <2>6. jsonl \in Seq(Writes) /\ DOMAIN jsonl = 1..Len(jsonl) /\ k \in Nat
        /\ Len(jsonl) \in Nat
    BY DEF IInv, TypeOK
  <2>7. CASE ~StartsLine(k)
    <3>1. k # 1 /\ jsonl[k - 1].part = "head"
      BY <2>7 DEF StartsLine
    <3>2. k - 1 \in DOMAIN jsonl /\ k - 1 < Len(jsonl) /\ (k - 1) + 1 = k
      BY <2>6, <3>1
    <3>3. jsonl[k].part # "tail"
      BY <2>5
    <3>4. jsonl[k] # [key |-> jsonl[k - 1].key, part |-> "tail"]
      BY <3>3
    <3> QED BY <3>1, <3>2, <3>4 DEF Torn
  <2>8. CASE StartsLine(k)
    <3>1. /\ jsonl[k].part = "head" /\ k < Len(jsonl)
          /\ jsonl[k + 1] # [key |-> r.key, part |-> "tail"]
      BY <2>5, <2>8 DEF Readable
    <3> QED BY <2>5, <3>1 DEF Torn
  <2> QED BY <2>7, <2>8
<1> QED BY PlanInvariance, <1>1, PTL

-----------------------------------------------------------------------------
(* The refinement: an invocation's ledger is the part of its plan it has   *)
(* recorded, and appending the last part of a line records the next cell.  *)
Prefix(i, m) == [n \in 1..m |-> Plan[i][n]]
LedgerMap ==
  [i \in Invocations |-> [n \in 1..Recorded(i) |-> RecordedCell(i, n)]]
PhaseOf(step) ==
  IF step = "done" THEN "finished" ELSE IF step \in Final THEN "stopped" ELSE "running"
PhaseMap == [i \in Invocations |-> PhaseOf(pc[i])]

LEMMA PlanPrefix ==
  ASSUME NEW i \in Invocations, NEW m \in Nat
  PROVE  /\ Len(Plan[i]) = Cardinality(Cells(i))
         /\ Len(Prefix(i, m)) = m
         /\ Append(Prefix(i, m), Plan[i][m + 1]) = Prefix(i, m + 1)
<1> DEFINE S == {Plan[i][n] : n \in Nat}
<1>1. Prefix(i, m) \in Seq(S) /\ Len(Prefix(i, m)) = m
  BY DEF Prefix
<1>2. Append(Prefix(i, m), Plan[i][m + 1]) = Prefix(i, m + 1)
  BY <1>1 DEF Prefix
<1>3. Len(Plan[i]) = Cardinality(Cells(i))
  <2>1. Cardinality(Cells(i)) \in Nat
    BY EarlierFinite
  <2> QED BY <2>1 DEF Plan
<1> QED BY <1>1, <1>2, <1>3

LEMMA LedgerIsPrefix ==
  IInv /\ PlanInv => LedgerMap = [i \in Invocations |-> Prefix(i, Recorded(i))]
<1> SUFFICES ASSUME IInv, PlanInv, NEW i \in Invocations, NEW n \in 1..Recorded(i)
             PROVE  RecordedCell(i, n) = Plan[i][n]
  BY DEF LedgerMap, Prefix
<1> QED BY RecordedRow

LEMMA LedgerStaysPrefix ==
  (IInv /\ PlanInv)' => (LedgerMap = [i \in Invocations |-> Prefix(i, Recorded(i))])'
BY LedgerIsPrefix, PTL

(* Recording stops at the end of the plan, and nothing is left to record   *)
(* when the report is made.                                                *)
LEMMA RoomToRecord ==
  ASSUME IInv, PlanInv, NEW i \in Invocations
  PROVE  /\ Current(i) \in runs /\ Current(i).key = <<i, Recorded(i) + 1>> =>
              Recorded(i) < Cardinality(Cells(i))
         /\ pc[i] \in {"openReport", "writeHead", "writeRest", "done"} => Recorded(i) = Cardinality(Cells(i))
<1>1. Recorded(i) \in Int /\ Cardinality(Cells(i)) \in Nat
  BY RecordedInt, EarlierFinite DEF IInv
<1>2. ASSUME Current(i) \in runs, Current(i).key = <<i, Recorded(i) + 1>>
      PROVE  Recorded(i) < Cardinality(Cells(i))
  <2>1. Recorded(i) + 1 \in DOMAIN Plan[i]
    BY <1>2, RowOfPlan
  <2> QED BY <1>1, <2>1 DEF Plan
<1>3. ASSUME pc[i] \in {"openReport", "writeHead", "writeRest", "done"} PROVE Recorded(i) = Cardinality(Cells(i))
  <2>1. fresh[i] = <<>> /\ executed[i] = Cardinality(Cells(i))
    BY <1>3 DEF PlanInv, LoopInv, LoopAt
  <2> QED BY <1>1, <2>1 DEF Recorded
<1> QED BY <1>2, <1>3

(* What a step does to an invocation's phase: nothing, or it ends it.      *)
LEMMA PhaseSteps ==
  ASSUME TypeOK, [Next]_vars
  PROVE  \/ \A i \in Invocations : PhaseOf(pc[i])' = PhaseOf(pc[i])
         \/ \E i \in Invocations :
              /\ pc[i] \in Active /\ pc'[i] \in Final
              /\ \A j \in Invocations \ {i} : pc'[j] = pc[j]
              /\ pc'[i] = "done" => pc[i] = "writeRest"
              /\ fresh' = fresh /\ executed' = executed
<1> USE DEF TypeOK, Goto, PhaseOf, Final, Active
<1>1. ASSUME NEW i \in Invocations, Step(i) \/ Die(i)
      PROVE  \/ pc[i] \in Active /\ pc'[i] \in Active
             \/ /\ pc[i] \in Active /\ pc'[i] \in Final
                /\ pc'[i] = "done" => pc[i] = "writeRest"
                /\ fresh' = fresh /\ executed' = executed
  <2>1. CASE Open(i)        BY <2>1 DEF Open
  <2>2. CASE SkipAlias(i)   BY <2>2 DEF SkipAlias, AfterAlias
  <2>3. CASE Identify(i)    BY <2>3 DEF Identify
  <2>4. CASE Execute(i)     BY <2>4 DEF Execute
  <2>5. CASE SaveRun(i)     BY <2>5 DEF SaveRun
  <2>6. CASE SaveTiming(i)  BY <2>6 DEF SaveTiming
  <2>7. CASE SaveDetail(i)  BY <2>7 DEF SaveDetail
  <2>8. CASE AppendLine(i)  BY <2>8 DEF AppendLine, Advance, AfterAlias
  <2>9. CASE AppendHead(i)  BY <2>9 DEF AppendHead
  <2>10. CASE AppendRest(i) BY <2>10 DEF AppendRest, Advance, AfterAlias
  <2>11. CASE ReadRows(i)   BY <2>11 DEF ReadRows
  <2>12. CASE OpenReport(i) \/ WriteHead(i) \/ WriteRest(i)
    BY <2>12 DEF OpenReport, WriteHead, WriteRest
  <2>13. CASE Die(i)        BY <2>13 DEF Die
  <2> QED
    BY <1>1, <2>1, <2>2, <2>3, <2>4, <2>5, <2>6, <2>7, <2>8, <2>9, <2>10,
       <2>11, <2>12, <2>13 DEF Step
<1>2. ASSUME NEW i \in Invocations, Step(i) \/ Die(i)
      PROVE  \A j \in Invocations \ {i} : pc'[j] = pc[j]
  BY <1>2, StepIsLocal DEF Local
<1>3. CASE pc' = pc
  BY <1>3
<1> QED BY <1>1, <1>2, <1>3 DEF Next, SwapModel, Terminated, vars

(* The invocations implement the ledger: each records the cells of its     *)
(* plan one at a time, in order, whatever the others do, finishes when     *)
(* there are no more, and a kill leaves what it recorded.                  *)
THEOREM Refinement == Spec => ImplementsLedger
<1>1. Init => Ledger!Init
  <2> SUFFICES ASSUME Init PROVE Ledger!Init
    OBVIOUS
  <2>1. \A i \in Invocations : Recorded(i) = 0 /\ pc[i] = "start"
    BY DEF Init, Recorded
  <2>2. \A i \in Invocations : [n \in 1..Recorded(i) |-> RecordedCell(i, n)] = <<>>
    BY <2>1
  <2> QED BY <2>1, <2>2 DEF Ledger!Init, Final
<1>2. IInv /\ PlanInv /\ (IInv /\ PlanInv)' /\ [Next]_vars
        => [Ledger!Next]_Ledger!ledgerVars
  <2> SUFFICES ASSUME IInv, PlanInv, IInv', PlanInv', [Next]_vars
               PROVE  \/ LedgerMap' = LedgerMap /\ PhaseMap' = PhaseMap
                      \/ \E i \in Invocations :
                           Ledger!Record(i) \/ Ledger!Finish(i) \/ Ledger!Stop(i)
    BY DEF Ledger!Next, Ledger!ledgerVars, LedgerMap, PhaseMap, PhaseOf
  <2>1. /\ LedgerMap = [i \in Invocations |-> Prefix(i, Recorded(i))]
        /\ LedgerMap' = [i \in Invocations |-> Prefix(i, Recorded(i)')]
    BY LedgerIsPrefix, LedgerStaysPrefix DEF Prefix
  <2>2. CASE \A i \in Invocations : Recorded(i)' = Recorded(i)
    <3>1. LedgerMap' = LedgerMap
      BY <2>1, <2>2
    <3>2. CASE \A i \in Invocations : PhaseOf(pc[i])' = PhaseOf(pc[i])
      BY <3>1, <3>2 DEF PhaseMap
    <3>3. ASSUME NEW i \in Invocations, pc[i] \in Active, pc'[i] \in Final,
                 \A j \in Invocations \ {i} : pc'[j] = pc[j],
                 pc'[i] = "done" => pc[i] = "writeRest"
          PROVE  Ledger!Finish(i) \/ Ledger!Stop(i)
      <4>1. /\ PhaseMap[i] = "running"
            /\ PhaseMap' = [PhaseMap EXCEPT ![i] = PhaseOf(pc'[i])]
        BY <3>3 DEF PhaseMap, PhaseOf, Active, Final
      <4>2. CASE pc'[i] = "done"
        <5>1. /\ Recorded(i) = Cardinality(Cells(i)) /\ Recorded(i) \in Nat
              /\ Len(LedgerMap[i]) = Recorded(i)
              /\ Len(Plan[i]) = Cardinality(Cells(i))
          BY <2>1, <3>3, <4>2, RoomToRecord, PlanPrefix, EarlierFinite
        <5> QED
          BY <3>1, <4>1, <4>2, <5>1 DEF Ledger!Finish, LedgerMap, PhaseMap, PhaseOf
      <4>3. CASE pc'[i] # "done"
        BY <3>1, <3>3, <4>1, <4>3 DEF Ledger!Stop, LedgerMap, PhaseMap, PhaseOf
      <4> QED BY <4>2, <4>3
    <3> QED BY <3>2, <3>3, PhaseSteps DEF IInv
  <2>3. ASSUME NEW i \in Invocations, AppendLine(i) \/ AppendRest(i),
               Current(i) \in runs, Current(i).key = <<i, Recorded(i) + 1>>,
               Recorded(i) \in Nat, Recorded(i)' = Recorded(i) + 1,
               \A j \in Invocations \ {i} : Recorded(j)' = Recorded(j)
        PROVE  Ledger!Record(i)
    <3>1. /\ Len(LedgerMap[i]) = Recorded(i)
          /\ Len(LedgerMap[i]) < Len(Plan[i])
      BY <2>1, <2>3, RoomToRecord, PlanPrefix
    <3>2. LedgerMap' = [LedgerMap EXCEPT ![i] = Append(@, Plan[i][Len(@) + 1])]
      <4>1. Prefix(i, Recorded(i)') = Append(LedgerMap[i], Plan[i][Len(LedgerMap[i]) + 1])
        BY <2>1, <2>3, <3>1, PlanPrefix
      <4> QED BY <2>1, <2>3, <4>1
    <3>3. PhaseMap' = PhaseMap /\ PhaseMap[i] = "running"
      <4>1. pc[i] \in Active /\ pc'[i] \in Active
        BY <2>3 DEF IInv, TypeOK, AppendLine, AppendRest, Advance, AfterAlias,
           Goto, Active
      <4>2. \A j \in Invocations \ {i} : pc'[j] = pc[j]
        BY <2>3, StepIsLocal DEF IInv, Step, Local
      <4> QED BY <4>1, <4>2 DEF PhaseMap, PhaseOf, Active, Final
    <3> QED BY <3>1, <3>2, <3>3 DEF Ledger!Record, LedgerMap, PhaseMap, PhaseOf
  <2> QED BY <2>2, <2>3, RecordedSteps DEF IInv
<1> QED BY <1>1, <1>2, PlanInvariance, PTL DEF Spec, ImplementsLedger, Ledger!Spec
=============================================================================
