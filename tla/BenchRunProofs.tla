--------------------------- MODULE BenchRunProofs ---------------------------
(***************************************************************************)
(* Proofs about BenchRun for any invocations, specs and seconds.  What an  *)
(* invocation has written follows from its program counter: Closed(i) are  *)
(* the files it finished, Begun(i) those it opened.  A directory holds at  *)
(* least what the invocations in it began; when one has it to itself, no   *)
(* more than that, and what it closed is whole.                            *)
(***************************************************************************)
EXTENDS BenchRun, TLAPS

Preds == [spec |-> {}, metrics |-> {"spec"}, summary |-> {"spec", "metrics"},
          result |-> {"spec", "metrics", "summary"}]

Closed(i) ==
  IF pc[i] \in {"open", "close"} THEN Preds[file[i]]
  ELSE IF pc[i] \in {"prepare", "launch", "ready", "workload", "failed"}
  THEN {"spec"}
  ELSE IF pc[i] \in {"logs", "done"} THEN FileNames ELSE {}
Begun(i) == Closed(i) \cup (IF pc[i] = "close" THEN {file[i]} ELSE {})

(* A directory is made before anything else, and has files only once made. *)
PlaceAt(i) ==
  /\ dir[i] = None => pc[i] \in {"mkdir", "killed"}
  /\ pc[i] = "mkdir" => dir[i] = None /\ file[i] = "spec"
FreshInv == \A d \in Dirs : \A f \in FileNames :
              Has(d, f) => \E i \in Invocations : dir[i] = d

BegunAt(i) == dir[i] # None => \A f \in Begun(i) : Has(dir[i], f)

(* The result files are written when all requests are answered.            *)
AskedAt(i) ==
  \/ pc[i] \in {"open", "close"} /\ file[i] # "spec"
  \/ pc[i] \in {"logs", "done"}
  => asked[i] = spec[i].requests

AloneAt(i) ==
  dir[i] # None /\ Alone(i) =>
    /\ pc[i] # "killed" => \A f \in FileNames \ Begun(i) : ~Has(dir[i], f)
    /\ pc[i] = "close" => files[dir[i]][file[i]].by = {}
    /\ \A f \in Closed(i) :
         /\ Whole(dir[i], f, i)
         /\ f # "spec" => files[dir[i]][f].requests = spec[i].requests

PlaceInv == \A i \in Invocations : PlaceAt(i)
BegunInv == \A i \in Invocations : BegunAt(i)
AskedInv == \A i \in Invocations : AskedAt(i)
AloneInv == \A i \in Invocations : AloneAt(i)

IInv ==
  /\ TypeOK /\ PlaceInv /\ FreshInv /\ BegunInv /\ AskedInv /\ AloneInv
  /\ FilesInOrder /\ OnlyTheLastIsCut

-----------------------------------------------------------------------------
LEMMA InitIInv == Init => IInv
<1> SUFFICES ASSUME Init PROVE IInv
  OBVIOUS
<1>1. TypeOK
  BY MaxSecondAssumption DEF Init, TypeOK, Active, Final, FileNames
<1>2. PlaceInv /\ BegunInv /\ AloneInv
  BY DEF Init, PlaceInv, PlaceAt, BegunInv, BegunAt, AloneInv, AloneAt
<1>3. AskedInv
  BY DEF Init, AskedInv, AskedAt
<1>4. FreshInv /\ FilesInOrder
  BY DEF Init, FreshInv, FilesInOrder, Has, Before, FileNames
<1>5. OnlyTheLastIsCut
  BY DEF Init, OnlyTheLastIsCut
<1> QED BY <1>1, <1>2, <1>3, <1>4, <1>5 DEF IInv

(* Every step keeps the types.                                             *)
LEMMA StepTypeOK == TypeOK /\ PlaceInv /\ BegunInv /\ [Next]_vars => TypeOK'
<1> SUFFICES ASSUME TypeOK, PlaceInv, BegunInv, [Next]_vars PROVE TypeOK'
  OBVIOUS
<1>1. ASSUME NEW i \in Invocations, CreateRunDir(i) PROVE TypeOK'
  <2>1. spec[i] \in SpecType
    BY SpecsAssumption DEF TypeOK
  <2>2. <<spec[i].name, second>> \in Dirs
    BY <2>1 DEF TypeOK, Dirs, SpecType
  <2> QED BY <1>1, <2>2 DEF TypeOK, CreateRunDir, Goto, Active
<1>2. ASSUME NEW i \in Invocations, OpenFile(i) PROVE TypeOK'
  <2>1. [by |-> {}, requests |-> 0, tags |-> FALSE] \in Content
    BY DEF Content
  <2> QED BY <1>2, <2>1 DEF TypeOK, OpenFile, Goto, memory, Active
<1>3. ASSUME NEW i \in Invocations, CloseFile(i) PROVE TypeOK'
  <2>1. PICK by \in {{i}, files[dir[i]][file[i]].by \cup {i}} :
          files' = [files EXCEPT ![dir[i]][file[i]] = Written(i, by)]
    BY <1>3 DEF CloseFile
  <2>2. dir[i] \in Dirs /\ file[i] \in FileNames
    BY <1>3 DEF TypeOK, PlaceInv, PlaceAt, CloseFile
  <2>3. files[dir[i]][file[i]] \in Content
    BY <1>3, <2>2, NoneAssumption
       DEF TypeOK, BegunInv, BegunAt, Begun, Has, CloseFile
  <2>4. Written(i, by) \in Content
    BY <2>3, <2>1 DEF TypeOK, Written, Content
  <2>5. files' \in [Dirs -> [FileNames -> Content \cup {None}]]
    BY <2>1, <2>2, <2>4 DEF TypeOK
  <2>6. file' \in [Invocations -> FileNames] /\ pc' \in [Invocations -> Active \cup Final]
    BY <1>3 DEF TypeOK, CloseFile, Goto, Active, NextFile, FileNames
  <2> QED BY <1>3, <2>5, <2>6 DEF TypeOK, CloseFile
<1>4. ASSUME NEW i \in Invocations, Prepare(i) PROVE TypeOK'
  BY <1>4 DEF TypeOK, Prepare, Goto, memory, Active, Final
<1>5. ASSUME NEW i \in Invocations, Launch(i) PROVE TypeOK'
  BY <1>5 DEF TypeOK, Launch, Goto, Active, Final
<1>6. ASSUME NEW i \in Invocations, WaitUntilReady(i) PROVE TypeOK'
  BY <1>6 DEF TypeOK, WaitUntilReady, Goto, memory, Final
<1>7. ASSUME NEW i \in Invocations, Request(i) PROVE TypeOK'
  BY <1>7 DEF TypeOK, Request
<1>8. ASSUME NEW i \in Invocations, FinishWorkload(i) PROVE TypeOK'
  BY <1>8 DEF TypeOK, FinishWorkload, Goto, Active, Final, FileNames
<1>9. ASSUME NEW i \in Invocations, CollectLogs(i) PROVE TypeOK'
  BY <1>9 DEF TypeOK, CollectLogs, Goto, memory, Final
<1>10. ASSUME NEW i \in Invocations, Kill(i) PROVE TypeOK'
  BY <1>10 DEF TypeOK, Kill, Goto, memory, Final
<1>11. ASSUME NEW i \in Invocations, ServerExits(i) PROVE TypeOK'
  BY <1>11 DEF TypeOK, ServerExits
<1>12. CASE Tick
  BY <1>12, MaxSecondAssumption DEF TypeOK, Tick, memory
<1>13. CASE ListRuns \/ Summarize \/ Compare \/ CompareV2
  <2>1. \A d, f : Troubles(d, f) \subseteq {"cut", "tags"}
    BY DEF Troubles
  <2>2. \A ds : OfSummarized(ds) \subseteq {"cut", "tags"}
    BY <2>1 DEF OfSummarized
  <2>3. /\ reader' \in {"listed", "refused", "missing", "cut", "tags"}
        /\ UNCHANGED <<spec, second, pc, memory, files>>
    <3>1. CASE ListRuns
      BY <3>1, <2>1 DEF ListRuns, Read
    <3>2. CASE Summarize
      BY <3>2, <2>2 DEF Summarize, Read
    <3>3. CASE Compare
      BY <3>3, <2>2 DEF Compare, Read
    <3>4. CASE CompareV2
      BY <3>4, <2>1 DEF CompareV2, Read
    <3> QED BY <1>13, <3>1, <3>2, <3>3, <3>4
  <2> QED BY <2>3 DEF TypeOK, memory
<1>14. CASE UNCHANGED vars
  BY <1>14 DEF TypeOK, vars
<1> QED
  BY <1>1, <1>2, <1>3, <1>4, <1>5, <1>6, <1>7, <1>8, <1>9, <1>10, <1>11,
     <1>12, <1>13, <1>14 DEF Next, Step

-----------------------------------------------------------------------------
LEMMA BeforeIsPred ==
  \A g \in DOMAIN Before :
    /\ g \in FileNames /\ Before[g] \in FileNames /\ Before[g] # g
    /\ Before[g] \in Preds[g]
BY DEF Before, Preds, FileNames

(* The steps that touch no directory: what an invocation has written stays *)
(* as it is, or is forgotten when it is killed.                            *)
Quiet ==
  \/ \E i \in Invocations :
       \/ Prepare(i) \/ Launch(i) \/ WaitUntilReady(i) \/ Request(i)
       \/ FinishWorkload(i) \/ CollectLogs(i) \/ Kill(i) \/ ServerExits(i)
  \/ Tick \/ ListRuns \/ Summarize \/ Compare \/ CompareV2 \/ UNCHANGED vars

Keeps(j) ==
  /\ PlaceAt(j)' /\ AskedAt(j)'
  /\ Closed(j)' \subseteq Closed(j) /\ Begun(j)' \subseteq Begun(j)
  /\ pc'[j] # "killed" => pc[j] # "killed" /\ Begun(j) \subseteq Begun(j)'
  /\ pc'[j] = "close" => pc[j] = "close" /\ file'[j] = file[j]

LEMMA SameKeeps ==
  ASSUME NEW j \in Invocations, PlaceAt(j), AskedAt(j),
         pc'[j] = pc[j], dir'[j] = dir[j], file'[j] = file[j],
         asked'[j] = asked[j], spec' = spec
  PROVE  Keeps(j)
BY DEF Keeps, PlaceAt, AskedAt, Closed, Begun

LEMMA QuietKeeps ==
  ASSUME IInv, Quiet
  PROVE  /\ UNCHANGED <<spec, dir, files>>
         /\ \A j \in Invocations : Keeps(j)
<1> USE DEF memory
<1>1. \A j \in Invocations : PlaceAt(j) /\ AskedAt(j)
  BY DEF IInv, PlaceInv, AskedInv
<1>2. ASSUME NEW i \in Invocations,
             \/ Prepare(i) \/ Launch(i) \/ WaitUntilReady(i) \/ Request(i)
             \/ FinishWorkload(i) \/ CollectLogs(i) \/ Kill(i) \/ ServerExits(i)
      PROVE  /\ UNCHANGED <<spec, dir, files>>
             /\ \A j \in Invocations : Keeps(j)
  <2>1. UNCHANGED <<spec, dir, files>>
    BY <1>2 DEF Prepare, Launch, WaitUntilReady, Request, FinishWorkload,
                CollectLogs, Kill, ServerExits
  <2>2. ASSUME NEW j \in Invocations, j # i PROVE Keeps(j)
    <3>1. /\ pc'[j] = pc[j] /\ file'[j] = file[j] /\ asked'[j] = asked[j]
      BY <1>2, <2>2 DEF IInv, TypeOK, Prepare, Launch, WaitUntilReady, Request,
           FinishWorkload, CollectLogs, Kill, ServerExits, Goto
    <3> QED BY <1>1, <2>1, <3>1, SameKeeps
  <2>3. Keeps(i)
    <3>1. TypeOK /\ PlaceAt(i) /\ AskedAt(i)
      BY <1>1 DEF IInv
    <3> USE DEF Keeps, PlaceAt, AskedAt, Closed, Begun, Preds, TypeOK, Goto
    <3>2. CASE Prepare(i)
      BY <3>1, <3>2 DEF Prepare
    <3>3. CASE Launch(i)
      BY <3>1, <3>3 DEF Launch
    <3>4. CASE WaitUntilReady(i)
      BY <3>1, <3>4 DEF WaitUntilReady
    <3>5. CASE Request(i)
      BY <3>1, <3>5 DEF Request
    <3>6. CASE FinishWorkload(i)
      BY <3>1, <3>6 DEF FinishWorkload
    <3>7. CASE CollectLogs(i)
      BY <3>1, <3>7 DEF CollectLogs
    <3>8. CASE Kill(i)
      BY <3>1, <3>8 DEF Kill
    <3>9. CASE ServerExits(i)
      BY <3>1, <3>9 DEF ServerExits
    <3> QED BY <1>2, <3>2, <3>3, <3>4, <3>5, <3>6, <3>7, <3>8, <3>9
  <2> QED BY <2>1, <2>2, <2>3
<1>3. ASSUME Tick \/ ListRuns \/ Summarize \/ Compare \/ CompareV2
             \/ UNCHANGED vars
      PROVE  UNCHANGED <<spec, pc, dir, asked, file, files>>
  BY <1>3 DEF Tick, ListRuns, Summarize, Compare, CompareV2, Read, vars
<1> QED BY <1>1, <1>2, <1>3, SameKeeps DEF Quiet

LEMMA QuietIInv ==
  ASSUME IInv, Quiet
  PROVE  /\ PlaceInv' /\ FreshInv' /\ BegunInv' /\ AskedInv' /\ AloneInv'
         /\ FilesInOrder' /\ OnlyTheLastIsCut'
<1>1. UNCHANGED <<spec, dir, files>> /\ \A j \in Invocations : Keeps(j)
  BY QuietKeeps
<1>2. PlaceInv' /\ AskedInv'
  BY <1>1 DEF PlaceInv, AskedInv, Keeps
<1>3. FreshInv' /\ FilesInOrder' /\ OnlyTheLastIsCut'
  BY <1>1 DEF IInv, FreshInv, FilesInOrder, OnlyTheLastIsCut, Has, Whole, Alone
<1>4. BegunInv'
  BY <1>1 DEF IInv, BegunInv, BegunAt, Keeps, Has
<1>5. AloneInv'
  BY <1>1 DEF IInv, AloneInv, AloneAt, Keeps, Has, Whole, Alone
<1> QED BY <1>2, <1>3, <1>4, <1>5
-----------------------------------------------------------------------------
(* A new directory is empty: had it a file, some invocation would be in it *)
(* and the new one not alone.                                              *)
LEMMA CreateRunDirIInv ==
  ASSUME IInv, NEW i \in Invocations, CreateRunDir(i)
  PROVE  /\ PlaceInv' /\ FreshInv' /\ BegunInv' /\ AskedInv' /\ AloneInv'
         /\ FilesInOrder' /\ OnlyTheLastIsCut'
<1>1. /\ TypeOK /\ dir[i] = None /\ file[i] = "spec" /\ file' = file
      /\ files' = files /\ asked' = asked /\ spec' = spec
      /\ pc[i] = "mkdir" /\ pc'[i] = "open"
      /\ \A j \in Invocations \ {i} : dir'[j] = dir[j] /\ pc'[j] = pc[j]
  BY DEF IInv, TypeOK, PlaceInv, PlaceAt, CreateRunDir, Goto
<1>2. dir'[i] \in Dirs /\ dir'[i] # None
  <2>1. spec[i] \in SpecType
    BY <1>1, SpecsAssumption DEF TypeOK
  <2> QED BY <1>1, <2>1, NoneAssumption DEF CreateRunDir, TypeOK, Dirs, SpecType
<1>3. Closed(i)' = {} /\ Begun(i)' = {}
  BY <1>1 DEF Closed, Begun, Preds
<1>4. \A j \in Invocations \ {i} : Closed(j)' = Closed(j) /\ Begun(j)' = Begun(j)
  BY <1>1 DEF Closed, Begun
<1>5. \A j \in Invocations \ {i} : dir[j] # None /\ Alone(j)' => Alone(j)
  BY <1>1 DEF Alone
<1>6. Alone(i)' => \A f \in FileNames : ~Has(dir'[i], f)
  BY <1>1, <1>2 DEF Alone, IInv, FreshInv
<1>7. PlaceInv'
  BY <1>1, <1>2 DEF IInv, PlaceInv, PlaceAt
<1>8. FreshInv'
  BY <1>1, NoneAssumption DEF IInv, FreshInv, Has
<1>9. BegunInv'
  BY <1>1, <1>3, <1>4 DEF IInv, BegunInv, BegunAt, Has
<1>10. AskedInv'
  BY <1>1 DEF IInv, AskedInv, AskedAt
<1>11. AloneInv'
  BY <1>1, <1>3, <1>4, <1>5, <1>6 DEF IInv, AloneInv, AloneAt, Has, Whole
<1>12. FilesInOrder'
  BY <1>1 DEF IInv, FilesInOrder, Has
<1>13. OnlyTheLastIsCut'
  BY <1>1, <1>5, <1>6
     DEF IInv, OnlyTheLastIsCut, Has, Whole, Before, FileNames
<1> QED BY <1>7, <1>8, <1>9, <1>10, <1>11, <1>12, <1>13

(* Opening a file only cuts that file, and nothing later is there when the *)
(* invocation is alone.                                                    *)
LEMMA OpenFileIInv ==
  ASSUME IInv, NEW i \in Invocations, OpenFile(i)
  PROVE  /\ PlaceInv' /\ FreshInv' /\ BegunInv' /\ AskedInv' /\ AloneInv'
         /\ FilesInOrder' /\ OnlyTheLastIsCut'
<1> DEFINE d == dir[i]
           f == file[i]
<1>1. /\ TypeOK /\ UNCHANGED <<spec, dir, asked, file>>
      /\ pc[i] = "open" /\ pc'[i] = "close"
      /\ \A j \in Invocations \ {i} : pc'[j] = pc[j]
  BY DEF IInv, TypeOK, OpenFile, Goto, memory
<1>2. d \in Dirs /\ d # None /\ f \in FileNames
  BY <1>1 DEF IInv, TypeOK, PlaceInv, PlaceAt
<1>3. /\ files'[d][f] = [by |-> {}, requests |-> 0, tags |-> FALSE]
      /\ \A e \in Dirs, g \in FileNames :
           <<e, g>> # <<d, f>> => files'[e][g] = files[e][g]
  BY <1>1, <1>2 DEF TypeOK, OpenFile
<1>4. Has(d, f)'
  <2>1. [by |-> {}, requests |-> 0, tags |-> FALSE] \in Content
    BY DEF Content
  <2> QED BY <1>1, <1>3, <2>1, NoneAssumption DEF Has
<1>5. \A e \in Dirs, g \in FileNames : <<e, g>> # <<d, f>> => (Has(e, g)' <=> Has(e, g))
  BY <1>3 DEF Has
<1>6. \A j \in Invocations : Closed(j)' = Closed(j)
  BY <1>1 DEF Closed
<1>7. /\ Begun(i) = Preds[f] /\ Closed(i) = Preds[f] /\ Begun(i)' = Preds[f] \cup {f}
      /\ \A j \in Invocations \ {i} : Begun(j)' = Begun(j)
  BY <1>1 DEF Closed, Begun
<1>8. \A j \in Invocations : Alone(j)' = Alone(j)
  BY <1>1 DEF Alone
<1>9. \A j \in Invocations : Closed(j) \subseteq FileNames /\ Begun(j) \subseteq FileNames
  BY <1>1 DEF Closed, Begun, Preds, FileNames, TypeOK
<1>10. f \notin Preds[f] /\ Preds[f] \subseteq FileNames
  BY <1>2 DEF FileNames, Preds
<1>11. \A j \in Invocations : dir[j] # None => dir[j] \in Dirs
  BY <1>1 DEF TypeOK
<1>12. \A j \in Invocations \ {i} : Alone(j) => dir[j] # d
  BY DEF Alone
<1>13. PlaceInv'
  BY <1>1, <1>2 DEF IInv, PlaceInv, PlaceAt
<1>14. FreshInv'
  BY <1>1, <1>2, <1>5 DEF IInv, FreshInv
<1>15. BegunInv'
  BY <1>1, <1>4, <1>5, <1>7, <1>9, <1>11 DEF IInv, BegunInv, BegunAt
<1>16. AskedInv'
  BY <1>1 DEF IInv, AskedInv, AskedAt
<1>17. AloneInv'
  <2>1. AloneAt(i)'
    BY <1>1, <1>2, <1>3, <1>5, <1>6, <1>7, <1>8, <1>10
       DEF IInv, AloneInv, AloneAt, Whole
  <2>2. ASSUME NEW j \in Invocations, j # i PROVE AloneAt(j)'
    BY <1>1, <1>3, <1>5, <1>6, <1>7, <1>8, <1>9, <1>11, <1>12, <2>2
       DEF IInv, AloneInv, AloneAt, Whole, TypeOK
  <2> QED BY <2>1, <2>2 DEF AloneInv
<1>18. FilesInOrder'
  <2> SUFFICES ASSUME NEW e \in Dirs, NEW g \in DOMAIN Before, Has(e, g)'
               PROVE  Has(e, Before[g])'
    BY DEF FilesInOrder
  <2>1. CASE <<e, g>> = <<d, f>>
    <3>1. Has(d, Before[g])
      BY <1>2, <1>7, <2>1, BeforeIsPred DEF IInv, BegunInv, BegunAt
    <3> QED BY <1>1, <1>3, <1>4, <2>1, <3>1, BeforeIsPred DEF Has
  <2>2. CASE <<e, g>> # <<d, f>>
    <3>1. Has(e, Before[g])
      BY <1>5, <2>2, BeforeIsPred DEF IInv, FilesInOrder
    <3> QED BY <1>1, <1>3, <1>4, <3>1, BeforeIsPred DEF Has
  <2> QED BY <2>1, <2>2
<1>19. OnlyTheLastIsCut'
  <2> SUFFICES ASSUME NEW j \in Invocations, dir[j] # None, Alone(j),
                      NEW g \in DOMAIN Before, Has(dir[j], g)'
               PROVE  Whole(dir[j], Before[g], j)'
    BY <1>1, <1>8 DEF OnlyTheLastIsCut
  <2>1. CASE j # i
    <3>1. Has(dir[j], g) /\ Whole(dir[j], Before[g], j)
      BY <1>1, <1>3, <1>11, <1>12, <2>1, BeforeIsPred DEF IInv, OnlyTheLastIsCut, Has
    <3> QED BY <1>1, <1>3, <1>11, <1>12, <2>1, <3>1, BeforeIsPred DEF Whole
  <2>2. CASE j = i /\ g = f
    <3>1. Whole(d, Before[g], i)
      BY <1>2, <1>7, <2>2, BeforeIsPred DEF IInv, AloneInv, AloneAt
    <3> QED BY <1>1, <1>2, <1>3, <2>2, <3>1, BeforeIsPred DEF Whole
  <2>3. CASE j = i /\ g # f
    <3>1. Has(d, g)
      BY <1>1, <1>2, <1>3, <2>3, BeforeIsPred DEF Has
    <3>2. Whole(d, Before[g], i)
      BY <2>3, <3>1 DEF IInv, OnlyTheLastIsCut
    <3>3. g \in Preds[f]
      BY <1>1, <1>2, <1>7, <2>3, <3>1, BeforeIsPred DEF IInv, AloneInv, AloneAt
    <3>4. Before[g] # f
      BY <1>2, <3>3 DEF Before, Preds, FileNames
    <3> QED BY <1>1, <1>2, <1>3, <2>3, <3>2, <3>4, BeforeIsPred DEF Whole
  <2> QED BY <2>1, <2>2, <2>3
<1> QED BY <1>13, <1>14, <1>15, <1>16, <1>17, <1>18, <1>19
-----------------------------------------------------------------------------
(* Closing a file makes it whole and moves it from begun to closed.        *)
LEMMA CloseFileIInv ==
  ASSUME IInv, NEW i \in Invocations, CloseFile(i)
  PROVE  /\ PlaceInv' /\ FreshInv' /\ BegunInv' /\ AskedInv' /\ AloneInv'
         /\ FilesInOrder' /\ OnlyTheLastIsCut'
<1> DEFINE d == dir[i]
           f == file[i]
<1>1. /\ TypeOK /\ UNCHANGED <<spec, dir, asked>> /\ pc[i] = "close"
      /\ \A j \in Invocations \ {i} : pc'[j] = pc[j] /\ file'[j] = file[j]
  BY DEF IInv, TypeOK, CloseFile, Goto
<1>2. d \in Dirs /\ d # None /\ f \in FileNames
  BY <1>1 DEF IInv, TypeOK, PlaceInv, PlaceAt
<1>3. PICK by \in {{i}, files[d][f].by \cup {i}} :
        files' = [files EXCEPT ![d][f] = Written(i, by)]
  BY DEF CloseFile
<1>4. /\ files'[d][f] = Written(i, by)
      /\ \A e \in Dirs, g \in FileNames :
           <<e, g>> # <<d, f>> => files'[e][g] = files[e][g]
  BY <1>1, <1>2, <1>3 DEF TypeOK
<1>5. f \in Begun(i) /\ Closed(i) = Preds[f] /\ Begun(i) = Preds[f] \cup {f}
  BY <1>1 DEF Closed, Begun
<1>6. files[d][f] # None /\ files'[d][f] # None
  <2>1. Has(d, f)
    BY <1>2, <1>5 DEF IInv, BegunInv, BegunAt
  <2>2. files[d][f] \in Content
    BY <1>1, <1>2, <2>1 DEF TypeOK, Has
  <2>3. Written(i, by) \in Content
    BY <1>1, <2>2 DEF TypeOK, Written, Content
  <2> QED BY <1>4, <2>1, <2>3, NoneAssumption DEF Has
<1>7. \A e \in Dirs, g \in FileNames : Has(e, g)' <=> Has(e, g)
  BY <1>1, <1>4, <1>6 DEF Has
<1>8. /\ Closed(i)' = Preds[f] \cup {f} /\ Begun(i)' = Preds[f] \cup {f}
      /\ pc'[i] \in {"open", "prepare", "logs"}
      /\ pc'[i] = "open" => f # "spec" /\ file'[i] # "spec"
      /\ pc'[i] = "logs" => f # "spec"
  <2>1. CASE f = "spec"
    BY <1>1, <2>1 DEF TypeOK, CloseFile, NextFile, Goto, Closed, Begun, Preds
  <2>2. CASE f = "metrics"
    BY <1>1, <2>2 DEF TypeOK, CloseFile, NextFile, Goto, Closed, Begun, Preds
  <2>3. CASE f = "summary"
    BY <1>1, <2>3 DEF TypeOK, CloseFile, NextFile, Goto, Closed, Begun, Preds
  <2>4. CASE f = "result"
    BY <1>1, <2>4 DEF TypeOK, CloseFile, NextFile, Goto, Closed, Begun, Preds,
                      FileNames
  <2> QED BY <1>2, <2>1, <2>2, <2>3, <2>4 DEF FileNames
<1>9. \A j \in Invocations \ {i} : Closed(j)' = Closed(j) /\ Begun(j)' = Begun(j)
  BY <1>1 DEF Closed, Begun
<1>10. \A j \in Invocations :
         /\ Alone(j)' = Alone(j)
         /\ Closed(j) \subseteq FileNames /\ Begun(j) \subseteq FileNames
         /\ dir[j] # None => dir[j] \in Dirs
         /\ j # i /\ Alone(j) => dir[j] # d
  BY <1>1 DEF Alone, Closed, Begun, Preds, FileNames, TypeOK
<1>11. ASSUME Alone(i)
       PROVE  /\ files'[d][f].by = {i}
              /\ f # "spec" => files'[d][f].requests = spec[i].requests
  <2>1. f # "spec" => asked[i] = spec[i].requests
    BY <1>1 DEF IInv, AskedInv, AskedAt
  <2>2. by = {i}
    BY <1>1, <1>2, <1>11 DEF IInv, AloneInv, AloneAt
  <2> QED BY <1>4, <2>1, <2>2 DEF Written
<1>12. PlaceInv'
  BY <1>1, <1>2, <1>8 DEF IInv, PlaceInv, PlaceAt
<1>13. FreshInv'
  BY <1>1, <1>7 DEF IInv, FreshInv
<1>14. BegunInv'
  BY <1>1, <1>5, <1>7, <1>8, <1>9, <1>10 DEF IInv, BegunInv, BegunAt
<1>15. AskedInv'
  BY <1>1, <1>8 DEF IInv, AskedInv, AskedAt
<1>16. AloneInv'
  <2>1. AloneAt(i)'
    <3>1. ASSUME Alone(i), NEW g \in FileNames \ (Preds[f] \cup {f})
          PROVE  files'[d][g] = None
      BY <1>1, <1>2, <1>4, <1>5, <3>1 DEF IInv, AloneInv, AloneAt, Has
    <3>2. ASSUME Alone(i), NEW g \in Preds[f] \cup {f}
          PROVE  /\ files'[d][g] # None /\ files'[d][g].by = {i}
                 /\ g # "spec" => files'[d][g].requests = spec[i].requests
      <4>1. CASE g = f
        <5>1. files'[d][g] # None
          BY <1>6, <4>1
        <5>2. files'[d][g].by = {i}
          BY <1>11, <3>2, <4>1
        <5>3. g # "spec" => files'[d][g].requests = spec[i].requests
          BY <1>11, <3>2, <4>1
        <5> QED BY <5>1, <5>2, <5>3
      <4>2. CASE g # f
        <5>1. g \in Closed(i) /\ g \in FileNames
          BY <1>5, <1>10, <3>2, <4>2
        <5>2. files'[d][g] = files[d][g]
          BY <1>2, <1>4, <4>2, <5>1
        <5> QED BY <1>2, <3>2, <5>1, <5>2 DEF IInv, AloneInv, AloneAt, Whole
      <4> QED BY <4>1, <4>2
    <3> QED BY <1>1, <1>8, <1>10, <3>1, <3>2 DEF AloneAt, Has, Whole
  <2>2. ASSUME NEW j \in Invocations, j # i PROVE AloneAt(j)'
    BY <1>1, <1>4, <1>7, <1>9, <1>10, <2>2
       DEF IInv, AloneInv, AloneAt, Whole, TypeOK
  <2> QED BY <2>1, <2>2 DEF AloneInv
<1>17. FilesInOrder'
  BY <1>7, BeforeIsPred DEF IInv, FilesInOrder
<1>18. OnlyTheLastIsCut'
  <2> SUFFICES ASSUME NEW j \in Invocations, dir[j] # None, Alone(j),
                      NEW g \in DOMAIN Before, Has(dir[j], g)'
               PROVE  Whole(dir[j], Before[g], j)'
    BY <1>1, <1>10 DEF OnlyTheLastIsCut
  <2>1. Whole(dir[j], Before[g], j)
    <3>1. Has(dir[j], g)
      BY <1>1, <1>4, <1>6, <1>10, BeforeIsPred DEF Has
    <3> QED BY <3>1 DEF IInv, OnlyTheLastIsCut
  <2>2. CASE j = i /\ Before[g] = f
    <3>1. dir'[j] = d /\ j = i
      BY <1>1, <2>2
    <3>2. files'[d][f] # None /\ files'[d][f].by = {i}
      BY <1>6, <1>11, <2>2
    <3> QED BY <2>2, <3>1, <3>2 DEF Whole
  <2>3. CASE ~(j = i /\ Before[g] = f)
    <3>1. <<dir[j], Before[g]>> # <<d, f>>
      BY <1>10, <2>3
    <3>2. files'[dir[j]][Before[g]] = files[dir[j]][Before[g]]
      BY <1>4, <1>10, <3>1, BeforeIsPred
    <3> QED BY <1>1, <2>1, <3>2 DEF Whole
  <2> QED BY <2>2, <2>3
<1> QED BY <1>12, <1>13, <1>14, <1>15, <1>16, <1>17, <1>18

-----------------------------------------------------------------------------
LEMMA StepIInv == IInv /\ [Next]_vars => IInv'
<1> SUFFICES ASSUME IInv, [Next]_vars PROVE IInv'
  OBVIOUS
<1>1. TypeOK'
  BY StepTypeOK DEF IInv
<1>2. /\ PlaceInv' /\ FreshInv' /\ BegunInv' /\ AskedInv' /\ AloneInv'
      /\ FilesInOrder' /\ OnlyTheLastIsCut'
  <2>1. CASE \E i \in Invocations : CreateRunDir(i)
    BY <2>1, CreateRunDirIInv
  <2>2. CASE \E i \in Invocations : OpenFile(i)
    BY <2>2, OpenFileIInv
  <2>3. CASE \E i \in Invocations : CloseFile(i)
    BY <2>3, CloseFileIInv
  <2>4. CASE Quiet
    BY <2>4, QuietIInv
  <2> QED BY <2>1, <2>2, <2>3, <2>4 DEF Next, Step, Quiet
<1> QED BY <1>1, <1>2 DEF IInv

LEMMA IInvAlways == Spec => []IInv
BY InitIInv, StepIInv, PTL DEF Spec

(* Every variable of BenchRun keeps its type.                              *)
THEOREM TypeCorrect == Spec => []TypeOK
<1>1. IInv => TypeOK
  BY DEF IInv
<1> QED BY <1>1, IInvAlways, PTL

(* write_to_directory's files lie in a run directory in their order, with  *)
(* any number of invocations sharing it or killed in it.                   *)
THEOREM OrderKept == Spec => []FilesInOrder
<1>1. IInv => FilesInOrder
  BY DEF IInv
<1> QED BY <1>1, IInvAlways, PTL

(* A kill cuts at most the last file of a run that has its directory to    *)
(* itself.                                                                 *)
THEOREM CutsOnlyTheLast == Spec => []OnlyTheLastIsCut
<1>1. IInv => OnlyTheLastIsCut
  BY DEF IInv
<1> QED BY <1>1, IInvAlways, PTL

(* A bench-run that ended well and was alone in its directory left there   *)
(* every file, whole, with every request of its workload.                  *)
THEOREM DoneLeavesAll == Spec => []DoneIsOnDisk
<1>1. IInv => DoneIsOnDisk
  <2> SUFFICES ASSUME IInv, NEW i \in Invocations, pc[i] = "done", Alone(i),
                      NEW f \in FileNames
               PROVE  /\ Whole(dir[i], f, i)
                      /\ f # "spec" => files[dir[i]][f].requests = spec[i].requests
    BY DEF DoneIsOnDisk
  <2>1. dir[i] # None
    BY DEF IInv, PlaceInv, PlaceAt
  <2>2. f \in Closed(i)
    BY DEF Closed
  <2> QED BY <2>1, <2>2 DEF IInv, AloneInv, AloneAt
<1> QED BY <1>1, IInvAlways, PTL
=============================================================================
