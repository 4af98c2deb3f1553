------------------------ MODULE ArtifactStoreProofs ------------------------
(***************************************************************************)
(* Proofs about ArtifactStore, for any processes, sources, artifacts and   *)
(* numbers of edits and commands.                                          *)
(*                                                                         *)
(* The heart of the argument is that a stamp tells the bytes: a file that  *)
(* nobody disturbed while it was copied carries the stamp of the version   *)
(* it holds, or none (StampInv).  A copy opens its file with no stamp and  *)
(* gives it one only at the end, so a kill leaves nothing that is skipped; *)
(* that the bytes are still the source's then is what WriteInv carries     *)
(* across every step of the others.                                        *)
(***************************************************************************)
EXTENDS ArtifactStore, TLAPS

Working == {"copy", "write", "list"}
Half(p) == [content |-> p, stamp |-> None]

(* What the program counter says of a process's own variables.             *)
ActorAt(p) ==
  /\ pc[p] \in Active => art[p] \in Artifacts
  /\ pc[p] \in Working => art[p].mode = "managed_copy"
  /\ pc[p] = "link" => art[p].mode = "managed_symlink"
  /\ pc[p] = "list" => todo[p] = {}
  /\ pc[p] = "write" => copy[p] \in Copying /\ copy[p].at # art[p].source

(* A link of the store was made for one of the artifacts.                  *)
Linked(i, s) ==
  \E a \in Artifacts : a.id = i /\ a.mode = "managed_symlink" /\ a.source = s

(* While an undisturbed copy writes, nobody else does, and its source is   *)
(* what it read.                                                           *)
WriteAt(p) ==
  LET c == copy[p]
      s == art[p].source
  IN pc[p] = "write" /\ <<c.at, c.file>> \notin raced =>
       /\ files[c.at][c.file] \in {None, Half(p)}
       /\ <<s, c.file>> \notin raced
       /\ files[s][c.file] # None /\ files[s][c.file].content = c.from

StampAt(d, f) ==
  files[d][f] # None /\ files[d][f].stamp # None /\ <<d, f>> \notin raced =>
    files[d][f].content = files[d][f].stamp

(* A copy leaves the store only through a link of its id.                  *)
ReachAt(p) == pc[p] = "write" /\ copy[p].at \in Sources => Exposed(copy[p].at)

(* What a process that is alone has done about a file of its source.       *)
Handled(p, f) ==
  LET s == art[p].source
      d == Dest(art[p].id)
  IN \/ f \in todo[p] \/ {<<s, f>>, <<d, f>>} \cap raced # {}
     \/ (files[d][f] # None /\ files[d][f].content = files[s][f].content)
AloneAt(p) ==
  alone[p] /\ pc[p] \in Active =>
    /\ \A q \in Processes \ {p} : pc[q] \in Final
    /\ pc[p] = "write" => /\ copy[p].at = Dest(art[p].id)
                          /\ files[copy[p].at][copy[p].file] # None
    /\ pc[p] \in Working => \A f \in Has(art[p].source) : Handled(p, f)

ActorInv == \A p \in Processes : ActorAt(p)
PlaceInv == \A i \in Ids : place[i] \in Sources => Linked(i, place[i])
WriteInv == \A p \in Processes : WriteAt(p)
StampInv == \A d \in Dir, f \in Files : StampAt(d, f)
ReachInv == \A p \in Processes : ReachAt(p)
AloneInv == \A p \in Processes : AloneAt(p)

IInv == /\ TypeOK /\ ActorInv /\ PlaceInv /\ WriteInv /\ StampInv
        /\ ReachInv /\ SourcesKeepTheirFiles /\ AloneInv

-----------------------------------------------------------------------------
LEMMA ArtifactFields ==
  ASSUME NEW a \in Artifacts
  PROVE  /\ a.id \in Ids /\ a.source \in Sources /\ a.source \in Dir
         /\ a.mode \in {"external_path", "managed_copy", "managed_symlink"}
BY ArtifactsAssumption DEF ArtifactType, Dir

LEMMA DestType ==
  ASSUME TypeOK, NEW i \in Ids
  PROVE  /\ Dest(i) \in Dir /\ i \in Dir /\ i \notin Sources
         /\ Dest(i) \in Sources => place[i] = Dest(i)
BY SourcesAssumption DEF TypeOK, Dest, Dir

LEMMA FileType ==
  ASSUME TypeOK, NEW d \in Dir, NEW f \in Files, files[d][f] # None
  PROVE  /\ files[d][f] \in File
         /\ files[d][f].content \in Version \cup Processes \cup {Torn}
         /\ files[d][f].stamp \in Version \cup {None}
BY DEF TypeOK, File

LEMMA HalfType ==
  ASSUME NEW p \in Processes
  PROVE  Half(p) \in File /\ Half(p) # None
         /\ Half(p).content = p /\ Half(p).stamp = None
BY NamesAssumption DEF Half, File

(* What a copy's first step does: it fails, or it opens both files.        *)
OpenFails(p) ==
  pc' = [pc EXCEPT ![p] = "failed"] /\ UNCHANGED <<files, copy, raced>>
Opens(p, f, s, d) ==
  /\ pc' = [pc EXCEPT ![p] = "write"]
  /\ s # d /\ files[s][f] # None
  /\ files' = [files EXCEPT ![d][f] = Half(p)]
  /\ \E c \in Copying :
       /\ copy' = [copy EXCEPT ![p] = c]
       /\ c.at = d /\ c.file = f
       /\ \/ /\ c.from = files[s][f].content /\ <<s, f>> \notin raced
             /\ c.from \notin Processes
             /\ raced' = raced \cup Disturbed(d, f)
          \/ raced' = raced \cup Disturbed(d, f) \cup {<<d, f>>}

LEMMA OpenEffect ==
  ASSUME TypeOK, ActorInv, NEW p \in Processes, NEW f \in Files, OpenCopy(p, f)
  PROVE  /\ art[p] \in Artifacts /\ art[p].mode = "managed_copy"
         /\ art[p].source \in Sources /\ art[p].source \in Dir
         /\ art[p].id \in Ids /\ Dest(art[p].id) \in Dir
         /\ OpenFails(p) \/ Opens(p, f, art[p].source, Dest(art[p].id))
<1> DEFINE i == art[p].id
           s == art[p].source
           d == Dest(i)
<1>1. /\ art[p] \in Artifacts /\ art[p].mode = "managed_copy"
      /\ i \in Ids /\ s \in Sources /\ s \in Dir /\ d \in Dir
  BY ArtifactFields, DestType DEF OpenCopy, ActorInv, ActorAt, Active, Working
<1>2. CASE OpenFails(p)
  BY <1>1, <1>2
<1>3. ASSUME files[s][f] # None, ~IsCurrent(s, f, d)
      PROVE  s # d
  BY <1>1, <1>3, SourcesAssumption DEF IsCurrent, IsPlain
<1>4. CASE ~(files[s][f] = None \/ ~(s \in SingleFiles \/ IsUsable(i)))
  <2> DEFINE whole == files[s][f].content \notin Processes
             c == [file |-> f, from |-> IF whole THEN files[s][f].content ELSE Torn,
                   at |-> d,
                   plain |-> s \in SingleFiles /\ (IsPlain(d) \/ place[i] = "absent")]
  <2>1. /\ files[s][f] # None /\ s # d
        /\ pc' = [pc EXCEPT ![p] = "write"] /\ copy' = [copy EXCEPT ![p] = c]
        /\ files' = [files EXCEPT ![d][f] = Half(p)]
        /\ raced' = raced \cup Disturbed(d, f) \cup
             IF whole /\ <<s, f>> \notin raced THEN {} ELSE {<<d, f>>}
    BY <1>3, <1>4 DEF OpenCopy, Opened, Goto, Half
  <2>2. c \in Copying /\ c.at = d /\ c.file = f
        /\ (whole => c.from = files[s][f].content)
    BY <1>1, <2>1, FileType DEF Copying
  <2>3. CASE whole /\ <<s, f>> \notin raced
    <3>1. raced' = raced \cup Disturbed(d, f) /\ c.from \notin Processes
          /\ c.from = files[s][f].content
      BY <2>1, <2>2, <2>3
    <3> HIDE DEF c
    <3>2. Opens(p, f, s, d)
      BY <2>1, <2>2, <3>1 DEF Opens
    <3> QED BY <1>1, <3>2
  <2>4. CASE ~(whole /\ <<s, f>> \notin raced)
    <3>1. raced' = raced \cup Disturbed(d, f) \cup {<<d, f>>}
      BY <2>1, <2>4
    <3> HIDE DEF c
    <3>2. Opens(p, f, s, d)
      BY <2>1, <2>2, <3>1 DEF Opens
    <3> QED BY <1>1, <3>2
  <2> QED BY <2>3, <2>4
<1>5. CASE files[s][f] = None \/ ~(s \in SingleFiles \/ IsUsable(i))
  BY <1>2, <1>5 DEF OpenCopy, OpenFails, Goto
<1> QED BY <1>4, <1>5

(* What its last step does to the file it wrote and, if the link of the id *)
(* was replaced meanwhile, to the one the path names now.                  *)
Closed(p, c, s, d) ==
  LET f == c.file
      there == files[c.at][f]
      now == files[s][f]
  IN /\ c \in Copying /\ c.at \in Dir /\ f \in Files /\ s # c.at
     /\ c.from \in Version \cup {Torn}
     /\ s \in Sources /\ s \in Dir /\ d \in Dir /\ art[p] \in Artifacts
     /\ pc[p] = "write" /\ art[p].mode = "managed_copy"
     /\ \/ pc' = [pc EXCEPT ![p] = "failed"]
        \/ /\ pc' = [pc EXCEPT ![p] = "copy"]
           /\ d = c.at => now # None /\ there # None
     /\ files' \in [Dir -> [Files -> File \cup {None}]]
     /\ \A e \in Dir, g \in Files :
          (g # f \/ e \notin {c.at, d}) => files'[e][g] = files[e][g]
     /\ there = None => files'[c.at][f] = None
     /\ there # None =>
          /\ files'[c.at][f] # None
          /\ files'[c.at][f].content \in Written(p, there, now)
          /\ files'[c.at][f].stamp # None =>
               now # None /\ files'[c.at][f].stamp = now.stamp
     /\ d # c.at => \/ files'[d][f] = files[d][f]
                    \/ /\ files[d][f] # None /\ files'[d][f] # None
                       /\ files'[d][f].content = files[d][f].content
     /\ raced' = raced \cup {<<copy[q].at, f>> : q \in From(c.at, f)} \cup
          IF d = c.at THEN {} ELSE {<<d, f>>} \cup {<<copy[q].at, f>> : q \in From(d, f)}

LEMMA CloseEffect ==
  ASSUME TypeOK, ActorInv, NEW p \in Processes, CloseCopy(p)
  PROVE  Closed(p, copy[p], art[p].source, Dest(art[p].id))
<1> DEFINE c == copy[p]
           f == c.file
           s == art[p].source
           d == Dest(art[p].id)
           there == files[c.at][f]
           now == files[s][f]
           named == files[d][f] # None /\ (d = c.at \/ (IsPlain(d) <=> c.plain))
           stamps == IF d \in {c.at, s} THEN {now.stamp} ELSE {now.stamp, None}
           filled(x) == IF there = None THEN files
                        ELSE [files EXCEPT ![c.at][f] = [content |-> x, stamp |-> None]]
<1> SUFFICES Closed(p, c, s, d)
  OBVIOUS
<1>1. /\ c \in Copying /\ c.at \in Dir /\ f \in Files /\ s # c.at
      /\ c.from \in Version \cup {Torn}
      /\ s \in Sources /\ s \in Dir /\ d \in Dir /\ art[p] \in Artifacts
      /\ pc[p] = "write" /\ art[p].mode = "managed_copy"
  BY ArtifactFields, DestType
     DEF CloseCopy, ActorInv, ActorAt, Active, Working, Copying
<1>2. \/ pc' = [pc EXCEPT ![p] = "failed"]
      \/ /\ pc' = [pc EXCEPT ![p] = "copy"]
         /\ d = c.at => now # None /\ there # None
  <2>1. ~IsUsable(art[p].id) \/ IsUsable(art[p].id)
    OBVIOUS
  <2> QED BY DEF CloseCopy, Goto
<1>3. PICK x \in Written(p, there, now) :
        IF now # None /\ named
        THEN \E stamp \in stamps : files' = [filled(x) EXCEPT ![d][f].stamp = stamp]
        ELSE files' = filled(x)
  BY DEF CloseCopy
<1>4. x \in Version \cup {Torn}
  BY <1>1, <1>3 DEF Written
<1>5. [content |-> x, stamp |-> None] \in File /\ [content |-> x, stamp |-> None] # None
  BY <1>4, NamesAssumption DEF File
<1>6. /\ filled(x) \in [Dir -> [Files -> File \cup {None}]]
      /\ \A e \in Dir, g \in Files :
           (g # f \/ e # c.at) => filled(x)[e][g] = files[e][g]
      /\ there = None => filled(x)[c.at][f] = None
      /\ there # None => filled(x)[c.at][f] = [content |-> x, stamp |-> None]
  BY <1>1, <1>5 DEF TypeOK
<1>7. raced' = raced \cup {<<copy[q].at, f>> : q \in From(c.at, f)} \cup
        IF d = c.at THEN {} ELSE {<<d, f>>} \cup {<<copy[q].at, f>> : q \in From(d, f)}
  BY DEF CloseCopy
<1>8. CASE ~(now # None /\ named)
  <2> HIDE DEF c, s, d, named, filled
  <2>1. files' = filled(x)
    BY <1>3, <1>8
  <2>2. \A e \in Dir, g \in Files :
          (g # f \/ e \notin {c.at, d}) => files'[e][g] = files[e][g]
    BY <1>6, <2>1
  <2>3. there # None => /\ files'[c.at][f] # None
                        /\ files'[c.at][f].content = x
                        /\ files'[c.at][f].stamp = None
    BY <1>5, <1>6, <2>1
  <2>4. d # c.at => files'[d][f] = files[d][f]
    BY <1>1, <1>6, <2>1
  <2> QED BY <1>1, <1>2, <1>3, <1>6, <1>7, <2>1, <2>2, <2>3, <2>4 DEF Closed
<1>9. CASE now # None /\ named
  <2>1. PICK stamp \in stamps : files' = [filled(x) EXCEPT ![d][f].stamp = stamp]
    BY <1>3, <1>9
  <2>2. stamp \in Version \cup {None}
    BY <1>1, <1>9, FileType
  <2>3. filled(x)[d][f] \in File
    BY <1>1, <1>5, <1>6, <1>9, FileType
  <2> DEFINE new == [filled(x)[d][f] EXCEPT !.stamp = stamp]
  <2>4. /\ new \in File /\ new # None /\ new.stamp = stamp
        /\ new.content = filled(x)[d][f].content
    BY <2>2, <2>3, NamesAssumption DEF File
  <2>5. files' = [filled(x) EXCEPT ![d][f] = new]
    BY <2>1
  <2> HIDE DEF new, filled, stamps
  <2>6. /\ files' \in [Dir -> [Files -> File \cup {None}]]
        /\ \A e \in Dir, g \in Files :
             (g # f \/ e # d) => files'[e][g] = filled(x)[e][g]
        /\ files'[d][f] = new
    BY <1>1, <1>6, <2>4, <2>5
  <2>7. d = c.at => there # None /\ stamp = now.stamp
    BY <1>9, <2>1 DEF stamps
  <2>8. \A e \in Dir, g \in Files :
          (g # f \/ e \notin {c.at, d}) => files'[e][g] = files[e][g]
    BY <1>6, <2>6
  <2>9. there = None => files'[c.at][f] = None
    BY <1>1, <1>6, <2>6, <2>7
  <2>10. there # None =>
           /\ files'[c.at][f] # None
           /\ files'[c.at][f].content = x
           /\ files'[c.at][f].stamp # None => files'[c.at][f].stamp = now.stamp
    <3> SUFFICES ASSUME there # None
                 PROVE  /\ files'[c.at][f] # None
                        /\ files'[c.at][f].content = x
                        /\ files'[c.at][f].stamp # None =>
                             files'[c.at][f].stamp = now.stamp
      OBVIOUS
    <3>1. CASE d = c.at
      BY <1>1, <1>6, <2>4, <2>6, <2>7, <3>1
    <3>2. CASE d # c.at
      BY <1>1, <1>5, <1>6, <2>6, <3>2
    <3> QED BY <3>1, <3>2
  <2>11. d # c.at => /\ files[d][f] # None /\ files'[d][f] # None
                     /\ files'[d][f].content = files[d][f].content
    BY <1>1, <1>6, <1>9, <2>4, <2>6
  <2> HIDE DEF c, s, d, named
  <2>12. /\ \/ pc' = [pc EXCEPT ![p] = "failed"]
            \/ /\ pc' = [pc EXCEPT ![p] = "copy"]
               /\ d = c.at => now # None /\ there # None
         /\ now # None /\ files' \in [Dir -> [Files -> File \cup {None}]]
    BY <1>2, <1>9, <2>6
  <2>13. there # None =>
                 /\ files'[c.at][f] # None
                 /\ files'[c.at][f].content \in Written(p, there, now)
                 /\ files'[c.at][f].stamp # None =>
                      now # None /\ files'[c.at][f].stamp = now.stamp
    BY <1>3, <2>10, <2>12
  <2> QED BY <1>1, <1>7, <2>8, <2>9, <2>11, <2>12, <2>13 DEF Closed
<1> QED BY <1>8, <1>9

-----------------------------------------------------------------------------
LEMMA InitTypeOK == Init => TypeOK
<1> SUFFICES ASSUME Init PROVE TypeOK
  OBVIOUS
<1>1. ASSUME NEW s \in Sources PROVE Fresh(<<s, 0>>) \in File
  BY BoundsAssumption DEF Fresh, File, Version
<1>2. files \in [Dir -> [Files -> File \cup {None}]]
  BY <1>1 DEF Init
<1>3. place \in [Ids -> {"absent", "dir", "file"} \cup Sources]
  BY PlacedAssumption DEF Init
<1> QED BY <1>2, <1>3, BoundsAssumption DEF Init, TypeOK, Final

(* Every change of raced is about files of known directories.              *)
LEMMA DisturbedType ==
  ASSUME ActorInv, NEW d \in Dir, NEW f \in Files
  PROVE  Disturbed(d, f) \subseteq Dir \X Files
<1>1. ASSUME NEW q \in Processes, pc[q] = "write"
      PROVE  <<copy[q].at, f>> \in Dir \X Files
  BY <1>1 DEF ActorInv, ActorAt, Copying
<1> QED BY <1>1 DEF Disturbed, From

LEMMA StepTypeOK ==
  ASSUME TypeOK, ActorInv, [Next]_vars
  PROVE  TypeOK'
<1> USE DEF TypeOK, Goto, Active, Final
<1>1. ASSUME NEW p \in Processes, ManageExternal(p) PROVE TypeOK'
  BY <1>1 DEF ManageExternal, Managed, disk, history
<1>2. ASSUME NEW p \in Processes, BeginCopy(p) PROVE TypeOK'
  <2>1. art[p] \in Artifacts /\ art[p].id \in Ids /\ Dest(art[p].id) \in Dir
    BY <1>2, ArtifactFields, DestType DEF BeginCopy, ActorInv, ActorAt
  <2>2. Has(art[p].source) \subseteq Files /\ listed[Dest(art[p].id)] \subseteq Files
    BY <2>1 DEF Has
  <2>3. /\ place' \in [Ids -> {"absent", "dir", "file"} \cup Sources]
        /\ copied' \in [Processes -> SUBSET Files]
        /\ todo' \in [Processes -> SUBSET Files]
        /\ pc' \in [Processes -> Active \cup Final]
    <3>1. CASE IsUsable(art[p].id)
      <4>1. /\ place' = [place EXCEPT ![art[p].id] = IF @ = "absent" THEN "dir" ELSE @]
            /\ copied' = [copied EXCEPT ![p] = listed[Dest(art[p].id)]]
            /\ todo' = [todo EXCEPT ![p] = Has(art[p].source)]
            /\ pc' = [pc EXCEPT ![p] = IF Exists(art[p].source) THEN "copy" ELSE "failed"]
        BY <1>2, <3>1 DEF BeginCopy
      <4>2. place' \in [Ids -> {"absent", "dir", "file"} \cup Sources]
        BY <2>1, <4>1
      <4>3. /\ copied' \in [Processes -> SUBSET Files]
            /\ todo' \in [Processes -> SUBSET Files]
        BY <2>2, <4>1
      <4>4. pc' \in [Processes -> Active \cup Final]
        BY <4>1
      <4> QED BY <4>2, <4>3, <4>4
    <3>2. CASE ~IsUsable(art[p].id)
      BY <1>2, <3>2 DEF BeginCopy
    <3> QED BY <3>1, <3>2
  <2> QED BY <1>2, <2>3 DEF BeginCopy, history
<1>3. ASSUME NEW p \in Processes, EndCopy(p) PROVE TypeOK'
  BY <1>3 DEF EndCopy, disk, history
<1>4. ASSUME NEW p \in Processes, CloseCopy(p) PROVE TypeOK'
  <2>1. /\ files' \in [Dir -> [Files -> File \cup {None}]]
        /\ copy[p].file \in Files /\ copy[p].at \in Dir /\ Dest(art[p].id) \in Dir
        /\ pc' \in [Processes -> Active \cup Final]
    BY <1>4, CloseEffect DEF Closed
  <2>2. /\ todo' \in [Processes -> SUBSET Files]
        /\ copied' \in [Processes -> SUBSET Files]
        /\ copy' \in [Processes -> Copying \cup {None}]
    BY <1>4, <2>1 DEF CloseCopy
  <2>3. ASSUME NEW d \in Dir
        PROVE  {<<copy[q].at, copy[p].file>> : q \in From(d, copy[p].file)}
                 \subseteq Dir \X Files
    BY <2>1, DisturbedType DEF Disturbed
  <2>4. raced' \subseteq Dir \X Files
    <3> DEFINE c == copy[p]
               d == Dest(art[p].id)
               near == {<<copy[q].at, c.file>> : q \in From(c.at, c.file)}
               far == {<<copy[q].at, c.file>> : q \in From(d, c.file)}
    <3>1. /\ near \subseteq Dir \X Files /\ far \subseteq Dir \X Files
          /\ {<<d, c.file>>} \subseteq Dir \X Files
      BY <2>1, <2>3
    <3>2. raced' = raced \cup near \cup (IF d = c.at THEN {} ELSE {<<d, c.file>>} \cup far)
      BY <1>4 DEF CloseCopy
    <3> HIDE DEF near, far, c, d
    <3> QED BY <3>1, <3>2
  <2> QED BY <1>4, <2>1, <2>2, <2>4 DEF CloseCopy
<1>5. ASSUME NEW p \in Processes, NEW f \in Files, SkipFile(p, f) PROVE TypeOK'
  BY <1>5 DEF SkipFile, disk, history
<1>6. ASSUME NEW p \in Processes, NEW f \in Files, OpenCopy(p, f) PROVE TypeOK'
  <2>1. /\ art[p].id \in Ids /\ Dest(art[p].id) \in Dir
        /\ Disturbed(Dest(art[p].id), f) \subseteq Dir \X Files
    BY <1>6, OpenEffect, ArtifactFields, DisturbedType
  <2>2. place' \in [Ids -> {"absent", "dir", "file"} \cup Sources]
    BY <1>6, <2>1 DEF OpenCopy, Made
  <2>3. Half(p) \in File
    BY HalfType
  <2>4. /\ files' \in [Dir -> [Files -> File \cup {None}]]
        /\ copy' \in [Processes -> Copying \cup {None}]
        /\ pc' \in [Processes -> Active \cup Final]
        /\ raced' \subseteq Dir \X Files
    <3> DEFINE d == Dest(art[p].id)
    <3>1. CASE OpenFails(p)
      BY <3>1 DEF OpenFails
    <3>2. CASE Opens(p, f, art[p].source, d)
      <4>1. files' \in [Dir -> [Files -> File \cup {None}]]
        BY <2>1, <2>3, <3>2 DEF Opens
      <4>2. copy' \in [Processes -> Copying \cup {None}]
        BY <3>2 DEF Opens
      <4>3. raced' \subseteq Dir \X Files
        BY <2>1, <3>2 DEF Opens
      <4> QED BY <3>2, <4>1, <4>2, <4>3 DEF Opens
    <3> QED BY <1>6, <3>1, <3>2, OpenEffect
  <2> QED BY <1>6, <2>2, <2>4 DEF OpenCopy
<1>7. ASSUME NEW p \in Processes, List(p) PROVE TypeOK'
  <2>1. art[p].id \in Ids /\ Dest(art[p].id) \in Dir
    BY <1>7, ArtifactFields, DestType DEF List, ActorInv, ActorAt
  <2>2. /\ listed' \in [Dir -> SUBSET Files]
        /\ pc' \in [Processes -> Active \cup Final]
    BY <1>7, <2>1 DEF List, Managed
  <2> QED BY <1>7, <2>2 DEF List, history
<1>8. ASSUME NEW p \in Processes, Unlink(p) PROVE TypeOK'
  <2>1. files' \in [Dir -> [Files -> File \cup {None}]]
    BY <1>8 DEF Unlink
  <2> QED BY <1>8, <2>1 DEF Unlink, history
<1>9. ASSUME NEW p \in Processes, Link(p) PROVE TypeOK'
  <2>1. art[p].source \in Sources
    BY <1>9, ArtifactFields DEF Link, ActorInv, ActorAt
  <2>2. place' \in [Ids -> {"absent", "dir", "file"} \cup Sources]
    BY <1>9, <2>1 DEF Link
  <2> QED BY <1>9, <2>2 DEF Link, Managed, history
<1>10. ASSUME NEW p \in Processes, Fingerprint(p) PROVE TypeOK'
  BY <1>10 DEF Fingerprint, disk, history
<1>11. ASSUME NEW p \in Processes, Register(p) PROVE TypeOK'
  <2>1. art[p] \in Artifacts
    BY <1>11 DEF Register, ActorInv, ActorAt
  <2>2. registry' \in Seq(Artifacts \cup {None})
    BY <1>11, <2>1 DEF Register
  <2> QED BY <1>11, <2>2 DEF Register, history
<1>12. ASSUME NEW p \in Processes, Kill(p) PROVE TypeOK'
  BY <1>12 DEF Kill, disk, history
<1>13. ASSUME NEW p \in Processes, StartRunner(p) PROVE TypeOK'
  <2>1. registry' \in Seq(Artifacts \cup {None})
    BY <1>13 DEF StartRunner
  <2>2. runs' \in 0..MaxRuns
    BY <1>13, BoundsAssumption DEF StartRunner
  <2> QED BY <1>13, <2>1, <2>2 DEF StartRunner, history
<1>14. ASSUME NEW p \in Processes, NEW a \in Artifacts, Start(p, a) PROVE TypeOK'
  <2>1. runs' \in 0..MaxRuns
    BY <1>14, BoundsAssumption DEF Start
  <2>2. alone' \in [Processes -> BOOLEAN]
    BY <1>14 DEF Start
  <2> QED BY <1>14, <2>1, <2>2 DEF Start, disk
<1>15. ASSUME NEW s \in Sources, NEW f \in Files, Edit(s, f) PROVE TypeOK'
  <2>1. edits' \in 0..MaxEdits
    BY <1>15, BoundsAssumption DEF Edit
  <2>2. Fresh(<<s, edits'>>) \in File
    BY <2>1 DEF Fresh, File, Version
  <2>3. s \in Dir
    BY DEF Dir
  <2>4. files' \in [Dir -> [Files -> File \cup {None}]]
    BY <1>15, <2>2, <2>3 DEF Edit
  <2>5. raced' \subseteq Dir \X Files
    BY <1>15, <2>3, DisturbedType DEF Edit
  <2> QED BY <1>15, <2>1, <2>4, <2>5 DEF Edit, proc
<1>16. CASE UNCHANGED vars
  BY <1>16 DEF vars, disk, proc, history
<1> QED
  BY <1>1, <1>2, <1>3, <1>4, <1>5, <1>6, <1>7, <1>8, <1>9, <1>10, <1>11,
     <1>12, <1>13, <1>14, <1>15, <1>16 DEF Next, Step

-----------------------------------------------------------------------------
(* A process that is still in its copy after the step.                     *)
Writing(q) ==
  /\ pc[q] = "write" /\ pc'[q] = "write"
  /\ copy'[q] = copy[q] /\ art'[q] = art[q]

(* Steps that leave the files of sources and of the store alone, and start *)
(* no copy of a file.                                                      *)
Quiet ==
  /\ files' = files /\ raced' = raced
  /\ \A q \in Processes : pc'[q] = "write" => Writing(q)

LEMMA StepKinds ==
  ASSUME TypeOK, ActorInv, [Next]_vars
  PROVE  \/ Quiet
         \/ \E p \in Processes, f \in Files :
              OpenCopy(p, f) /\ Opens(p, f, art[p].source, Dest(art[p].id))
         \/ \E p \in Processes : CloseCopy(p) \/ Unlink(p)
         \/ \E s \in Sources, f \in Files : Edit(s, f)
<1> USE DEF TypeOK, Goto, Writing
<1>1. ASSUME NEW p \in Processes, NEW f \in Files, OpenCopy(p, f), OpenFails(p)
      PROVE  Quiet
  BY <1>1 DEF OpenCopy, OpenFails, Quiet
<1>2. ASSUME NEW p \in Processes, NEW a \in Artifacts, Start(p, a)
      PROVE  Quiet
  BY <1>2 DEF Start, disk, Quiet
<1>3. ASSUME NEW p \in Processes, NEW f \in Files, SkipFile(p, f)
      PROVE  Quiet
  BY <1>3 DEF SkipFile, disk, history, Quiet
<1>4. ASSUME NEW p \in Processes,
             \/ ManageExternal(p) \/ BeginCopy(p) \/ EndCopy(p) \/ List(p) \/ Link(p)
             \/ Fingerprint(p) \/ Register(p) \/ Kill(p) \/ StartRunner(p)
      PROVE  Quiet
  <2>1. CASE ManageExternal(p) BY <2>1 DEF ManageExternal, Managed, disk, history, Quiet
  <2>2. CASE BeginCopy(p)      BY <2>2 DEF BeginCopy, history, Quiet
  <2>3. CASE EndCopy(p)        BY <2>3 DEF EndCopy, disk, history, Quiet
  <2>4. CASE List(p)           BY <2>4 DEF List, Managed, history, Quiet
  <2>5. CASE Link(p)           BY <2>5 DEF Link, Managed, history, Quiet
  <2>6. CASE Fingerprint(p)    BY <2>6 DEF Fingerprint, disk, history, Quiet
  <2>7. CASE Register(p)       BY <2>7 DEF Register, history, Quiet
  <2>8. CASE Kill(p)           BY <2>8 DEF Kill, disk, history, Quiet
  <2>9. CASE StartRunner(p)    BY <2>9 DEF StartRunner, history, Quiet
  <2> QED BY <1>4, <2>1, <2>2, <2>3, <2>4, <2>5, <2>6, <2>7, <2>8, <2>9
<1>5. CASE UNCHANGED vars
  BY <1>5 DEF vars, disk, proc, history, Quiet
<1> QED BY <1>1, <1>2, <1>3, <1>4, <1>5, OpenEffect DEF Next, Step

LEMMA StepActor ==
  ASSUME TypeOK, ActorInv, [Next]_vars
  PROVE  ActorInv'
<1> USE DEF TypeOK, ActorInv, ActorAt, Goto, Active, Final, Working
<1>1. ASSUME NEW p \in Processes, NEW f \in Files, OpenCopy(p, f) PROVE ActorInv'
  <2>1. /\ art' = art /\ todo' = todo
        /\ art[p] \in Artifacts /\ art[p].mode = "managed_copy"
    BY <1>1, OpenEffect DEF OpenCopy
  <2>2. CASE OpenFails(p)
    BY <2>1, <2>2 DEF OpenFails
  <2>3. CASE Opens(p, f, art[p].source, Dest(art[p].id))
    BY <2>1, <2>3 DEF Opens
  <2> QED BY <1>1, <2>2, <2>3, OpenEffect
<1>2. ASSUME NEW p \in Processes, CloseCopy(p) PROVE ActorInv'
  <2>1. /\ art' = art /\ art[p] \in Artifacts /\ art[p].mode = "managed_copy"
        /\ copy' = [copy EXCEPT ![p] = None]
        /\ pc' = [pc EXCEPT ![p] = "failed"] \/ pc' = [pc EXCEPT ![p] = "copy"]
    BY <1>2, CloseEffect DEF Closed, CloseCopy
  <2>2. \A q \in Processes \ {p} : todo'[q] = todo[q]
    BY <1>2 DEF CloseCopy
  <2> QED BY <2>1, <2>2
<1>3. ASSUME NEW p \in Processes, NEW a \in Artifacts, Start(p, a) PROVE ActorInv'
  BY <1>3 DEF Start
<1>4. ASSUME NEW p \in Processes, NEW f \in Files, SkipFile(p, f) PROVE ActorInv'
  BY <1>4 DEF SkipFile
<1>5. ASSUME NEW s \in Sources, NEW f \in Files, Edit(s, f) PROVE ActorInv'
  BY <1>5 DEF Edit, proc
<1>6. ASSUME NEW p \in Processes,
             \/ ManageExternal(p) \/ BeginCopy(p) \/ EndCopy(p) \/ List(p)
             \/ Unlink(p) \/ Link(p) \/ Fingerprint(p) \/ Register(p) \/ Kill(p)
             \/ StartRunner(p)
      PROVE  ActorInv'
  <2>1. CASE ManageExternal(p) BY <2>1 DEF ManageExternal, Managed
  <2>2. CASE BeginCopy(p)      BY <2>2 DEF BeginCopy
  <2>3. CASE EndCopy(p)        BY <2>3 DEF EndCopy
  <2>4. CASE List(p)           BY <2>4 DEF List, Managed
  <2>5. CASE Unlink(p)         BY <2>5 DEF Unlink
  <2>6. CASE Link(p)           BY <2>6 DEF Link, Managed
  <2>7. CASE Fingerprint(p)    BY <2>7 DEF Fingerprint
  <2>8. CASE Register(p)       BY <2>8 DEF Register
  <2>9. CASE Kill(p)           BY <2>9 DEF Kill
  <2>10. CASE StartRunner(p)   BY <2>10 DEF StartRunner
  <2> QED BY <1>6, <2>1, <2>2, <2>3, <2>4, <2>5, <2>6, <2>7, <2>8, <2>9, <2>10
<1>7. CASE UNCHANGED vars
  BY <1>7 DEF vars, proc
<1> QED BY <1>1, <1>2, <1>3, <1>4, <1>5, <1>6, <1>7 DEF Next, Step

LEMMA StepPlace ==
  ASSUME TypeOK, ActorInv, PlaceInv, [Next]_vars
  PROVE  PlaceInv'
<1> USE DEF TypeOK, PlaceInv, Goto
<1>1. ASSUME NEW p \in Processes, BeginCopy(p) PROVE PlaceInv'
  <2>1. ASSUME NEW i \in Ids, place'[i] \in Sources PROVE place[i] = place'[i]
    BY <1>1, <2>1, SourcesAssumption DEF BeginCopy
  <2> QED BY <2>1 DEF Linked
<1>2. ASSUME NEW p \in Processes, NEW f \in Files, OpenCopy(p, f) PROVE PlaceInv'
  <2>1. ASSUME NEW i \in Ids, place'[i] \in Sources PROVE place[i] = place'[i]
    BY <1>2, <2>1, SourcesAssumption DEF OpenCopy, Made
  <2> QED BY <2>1 DEF Linked
<1>3. ASSUME NEW p \in Processes, Unlink(p) PROVE PlaceInv'
  <2>1. ASSUME NEW i \in Ids, place'[i] \in Sources PROVE place[i] = place'[i]
    BY <1>3, <2>1, SourcesAssumption DEF Unlink
  <2> QED BY <2>1 DEF Linked
<1>4. ASSUME NEW p \in Processes, Link(p) PROVE PlaceInv'
  <2>1. art[p] \in Artifacts /\ art[p].mode = "managed_symlink"
    BY <1>4 DEF Link, ActorInv, ActorAt, Active
  <2>2. ASSUME NEW i \in Ids, place'[i] \in Sources
        PROVE  place[i] = place'[i] \/ (i = art[p].id /\ place'[i] = art[p].source)
    BY <1>4, <2>2 DEF Link
  <2> QED BY <2>1, <2>2 DEF Linked
<1>5. CASE place' = place
  BY <1>5 DEF Linked
<1> QED
  BY <1>1, <1>2, <1>3, <1>4, <1>5
     DEF Next, Step, ManageExternal, EndCopy, CloseCopy, SkipFile, List,
         Fingerprint, Register, Kill, StartRunner, Start, Edit, vars, disk

-----------------------------------------------------------------------------
(* Nobody writes into what an undisturbed copy reads.                      *)
LEMMA SourceIsQuiet ==
  ASSUME TypeOK, ActorInv, WriteInv, NEW q \in Processes, NEW r \in Processes,
         pc[q] = "write", <<copy[q].at, copy[q].file>> \notin raced, pc[r] = "write",
         copy[r].at = art[q].source, copy[r].file = copy[q].file
  PROVE  FALSE
<1>1. /\ <<art[q].source, copy[q].file>> \notin raced
      /\ files[art[q].source][copy[q].file] # None
      /\ files[art[q].source][copy[q].file].content = copy[q].from
  BY DEF WriteInv, WriteAt
<1>2. copy[q].from \in Version \cup {Torn}
  BY DEF ActorInv, ActorAt, Copying
<1>3. files[copy[r].at][copy[r].file] \in {None, Half(r)}
  BY <1>1 DEF WriteInv, WriteAt
<1>4. copy[q].from = r
  BY <1>1, <1>3, HalfType
<1> QED BY <1>2, <1>4, NamesAssumption

(* A copy in which the step touched nothing, and whose source it touched   *)
(* only by disturbing it.                                                  *)
LEMMA WriteStays ==
  ASSUME TypeOK, ActorInv, WriteInv, NEW q \in Processes, Writing(q),
         raced \subseteq raced', NEW X,
         <<copy[q].at, copy[q].file>> \notin X,
         \A e \in Dir, g \in Files : <<e, g>> \notin X => files'[e][g] = files[e][g],
         <<art[q].source, copy[q].file>> \in X =>
           <<copy[q].at, copy[q].file>> \in raced',
         \A x \in raced' : \/ x \in raced \cup X
                           \/ \E r \in Processes :
                                pc[r] = "write" /\ x = <<copy[r].at, copy[r].file>>
  PROVE  WriteAt(q)'
<1> SUFFICES ASSUME <<copy[q].at, copy[q].file>> \notin raced'
             PROVE  WriteAt(q)'
  BY DEF WriteAt, Writing
<1> DEFINE c == copy[q]
           s == art[q].source
<1>1. /\ <<c.at, c.file>> \notin raced /\ <<s, c.file>> \notin raced
      /\ files[c.at][c.file] \in {None, Half(q)}
      /\ files[s][c.file] # None /\ files[s][c.file].content = c.from
  BY DEF WriteInv, WriteAt, Writing
<1>2. c.at \in Dir /\ c.file \in Files /\ s \in Dir
  BY ArtifactFields DEF ActorInv, ActorAt, Copying, Active, Writing
<1>3. <<s, c.file>> \notin X
  OBVIOUS
<1>4. <<s, c.file>> \notin raced'
  <2> SUFFICES ASSUME <<s, c.file>> \in raced' PROVE FALSE
    OBVIOUS
  <2>1. PICK r \in Processes : pc[r] = "write" /\ <<s, c.file>> = <<copy[r].at, copy[r].file>>
    BY <1>1, <1>3
  <2> QED BY <1>1, <2>1, SourceIsQuiet DEF Writing
<1>5. files'[c.at][c.file] = files[c.at][c.file] /\ files'[s][c.file] = files[s][c.file]
  BY <1>2, <1>3
<1> QED BY <1>1, <1>4, <1>5 DEF WriteAt, Writing, Half

LEMMA OpenWrite ==
  ASSUME TypeOK, ActorInv, WriteInv, NEW p \in Processes, NEW f \in Files,
         OpenCopy(p, f), Opens(p, f, art[p].source, Dest(art[p].id))
  PROVE  WriteInv'
<1> DEFINE s == art[p].source
           d == Dest(art[p].id)
<1>1. /\ d \in Dir /\ s \in Dir /\ s # d /\ files[s][f] # None /\ art' = art
      /\ pc[p] = "copy" /\ pc' = [pc EXCEPT ![p] = "write"]
      /\ files' = [files EXCEPT ![d][f] = Half(p)]
  BY OpenEffect DEF OpenCopy, Opens
<1>2. PICK c \in Copying :
        /\ copy' = [copy EXCEPT ![p] = c]
        /\ c.at = d /\ c.file = f
        /\ \/ /\ c.from = files[s][f].content /\ <<s, f>> \notin raced
              /\ c.from \notin Processes
              /\ raced' = raced \cup Disturbed(d, f)
           \/ raced' = raced \cup Disturbed(d, f) \cup {<<d, f>>}
  BY DEF Opens
<1>3. /\ files'[d][f] = Half(p)
      /\ \A e \in Dir, g \in Files : <<e, g>> \notin {<<d, f>>} => files'[e][g] = files[e][g]
  BY <1>1 DEF TypeOK
<1>4. /\ raced \subseteq raced' /\ Disturbed(d, f) \subseteq raced'
      /\ \A x \in raced' : x \in raced \cup {<<d, f>>} \cup Disturbed(d, f)
  BY <1>2
<1>5. \A x \in Disturbed(d, f) :
        x = <<d, f>> \/ \E r \in Processes :
                          pc[r] = "write" /\ x = <<copy[r].at, copy[r].file>>
  BY DEF Disturbed, From
<1>6. ASSUME NEW q \in Processes, q # p, pc'[q] = "write", <<copy[q].at, copy[q].file>> \notin raced'
      PROVE  WriteAt(q)'
  <2>1. Writing(q)
    BY <1>1, <1>2, <1>6 DEF TypeOK, Writing
  <2>2. <<copy[q].at, copy[q].file>> # <<d, f>>
    <3> SUFFICES ASSUME <<copy[q].at, copy[q].file>> = <<d, f>> PROVE FALSE
      OBVIOUS
    <3>1. q \in Into(d, f)
      BY <2>1 DEF Into, Writing
    <3>2. <<d, f>> \in Disturbed(d, f)
      BY <3>1 DEF Disturbed
    <3> QED BY <1>4, <1>6, <3>2
  <2>3. ASSUME <<art[q].source, copy[q].file>> = <<d, f>>
        PROVE  <<copy[q].at, copy[q].file>> \in raced'
    <3>1. q \in From(d, f) /\ copy[q].file = f
      BY <2>1, <2>3 DEF From, Writing
    <3>2. <<copy[q].at, f>> \in Disturbed(d, f)
      BY <3>1 DEF Disturbed
    <3> QED BY <1>4, <3>1, <3>2
  <2> DEFINE X == {<<d, f>>}
  <2>4. /\ <<copy[q].at, copy[q].file>> \notin X
        /\ \A e \in Dir, g \in Files : <<e, g>> \notin X => files'[e][g] = files[e][g]
        /\ <<art[q].source, copy[q].file>> \in X => <<copy[q].at, copy[q].file>> \in raced'
    BY <1>3, <2>2, <2>3
  <2>5. \A x \in raced' : \/ x \in raced \cup X
                           \/ \E r \in Processes :
                                pc[r] = "write" /\ x = <<copy[r].at, copy[r].file>>
    BY <1>4, <1>5
  <2> HIDE DEF X
  <2> QED BY <1>4, <2>1, <2>4, <2>5, WriteStays
<1>7. WriteAt(p)'
  <2> SUFFICES ASSUME <<d, f>> \notin raced' PROVE WriteAt(p)'
    BY <1>1, <1>2 DEF WriteAt, TypeOK
  <2>1. /\ c.from = files[s][f].content /\ <<s, f>> \notin raced
        /\ c.from \notin Processes
        /\ raced' = raced \cup Disturbed(d, f)
    BY <1>2
  <2>2. ASSUME NEW r \in Processes, pc[r] = "write", <<s, f>> = <<copy[r].at, copy[r].file>>
        PROVE  FALSE
    <3>1. files[s][f] \in {None, Half(r)}
      BY <2>1, <2>2 DEF WriteInv, WriteAt
    <3>2. c.from = r
      BY <1>1, <2>1, <3>1, HalfType
    <3> QED BY <2>1, <3>2
  <2>3. <<s, f>> \notin raced'
    BY <1>1, <1>5, <2>1, <2>2
  <2>4. files'[s][f] = files[s][f]
    BY <1>1, <1>3
  <2>5. /\ art'[p].source = s /\ copy'[p] = c
    BY <1>1, <1>2 DEF TypeOK
  <2> HIDE DEF s, d
  <2> QED BY <1>1, <1>2, <1>3, <2>1, <2>3, <2>4, <2>5 DEF WriteAt, Half
<1>8. ASSUME NEW q \in Processes, q # p, <<copy[q].at, copy[q].file>> \in raced'
      PROVE  WriteAt(q)'
  <2>1. copy'[q] = copy[q]
    BY <1>2, <1>8 DEF TypeOK
  <2> QED BY <1>8, <2>1 DEF WriteAt
<1>9. ASSUME NEW q \in Processes, pc'[q] # "write" PROVE WriteAt(q)'
  BY <1>9 DEF WriteAt
<1> QED BY <1>6, <1>7, <1>8, <1>9 DEF WriteInv

LEMMA CloseWrite ==
  ASSUME TypeOK, ActorInv, WriteInv, NEW p \in Processes, CloseCopy(p)
  PROVE  WriteInv'
<1> DEFINE c == copy[p]
           f == copy[p].file
           s == art[p].source
           d == Dest(art[p].id)
           near == {<<copy[q].at, f>> : q \in From(c.at, f)}
           far == {<<copy[q].at, f>> : q \in From(d, f)}
<1>1. Closed(p, c, s, d)
  BY CloseEffect
<1>2. /\ art' = art /\ copy' = [copy EXCEPT ![p] = None]
      /\ pc'[p] # "write" /\ \A q \in Processes \ {p} : pc'[q] = pc[q]
  BY <1>1 DEF Closed, CloseCopy, TypeOK
<1>3. raced' = raced \cup near \cup (IF d = c.at THEN {} ELSE {<<d, f>>} \cup far)
  BY <1>1 DEF Closed
<1>4. \A x \in near \cup far :
        \E r \in Processes : pc[r] = "write" /\ x = <<copy[r].at, copy[r].file>>
  BY DEF From
<1>5. ASSUME NEW q \in Processes, q # p, pc'[q] = "write", <<copy[q].at, copy[q].file>> \notin raced'
      PROVE  WriteAt(q)'
  <2>1. Writing(q) /\ raced \subseteq raced'
    BY <1>2, <1>3, <1>5 DEF TypeOK, Writing
  <2>2. ASSUME <<copy[q].at, copy[q].file>> = <<c.at, f>>
        PROVE  files[c.at][f] = None
    <3>1. files[c.at][f] \in {None, Half(p)} /\ files[c.at][f] \in {None, Half(q)}
      <4>1. <<c.at, f>> \notin raced
        BY <1>5, <2>1, <2>2
      <4> QED BY <1>1, <1>5, <2>1, <2>2, <4>1 DEF WriteInv, WriteAt, Writing, Closed
    <3> QED BY <1>5, <3>1, HalfType
  <2>3. ASSUME <<art[q].source, copy[q].file>> = <<c.at, f>>
        PROVE  FALSE
    <3>1. q \in From(c.at, f) /\ copy[q].file = f
      BY <2>1, <2>3 DEF From, Writing
    <3>2. <<copy[q].at, f>> \in near
      BY <3>1
    <3> QED BY <1>3, <1>5, <3>1, <3>2
  <2>4. ASSUME d # c.at
        PROVE  /\ <<copy[q].at, copy[q].file>> # <<d, f>>
               /\ <<art[q].source, copy[q].file>> # <<d, f>>
    <3>1. <<d, f>> \in raced' /\ far \subseteq raced'
      BY <1>3, <2>4
    <3>2. ASSUME <<art[q].source, copy[q].file>> = <<d, f>> PROVE FALSE
      <4>1. q \in From(d, f) /\ copy[q].file = f
        BY <2>1, <3>2 DEF From, Writing
      <4>2. <<copy[q].at, f>> \in far
        BY <4>1
      <4> QED BY <1>5, <3>1, <4>1, <4>2
    <3> QED BY <1>5, <3>1, <3>2
  <2> DEFINE X == (IF <<copy[q].at, copy[q].file>> = <<c.at, f>> THEN {} ELSE {<<c.at, f>>})
                   \cup (IF d = c.at THEN {} ELSE {<<d, f>>})
  <2>5. \A e \in Dir, g \in Files : <<e, g>> \notin X => files'[e][g] = files[e][g]
    <3> SUFFICES ASSUME NEW e \in Dir, NEW g \in Files, <<e, g>> \notin X
                 PROVE  files'[e][g] = files[e][g]
      OBVIOUS
    <3>1. CASE g # f \/ e \notin {c.at, d}
      BY <1>1, <3>1 DEF Closed
    <3>2. CASE g = f /\ e = c.at
      <4>1. files[c.at][f] = None
        BY <2>2, <3>2
      <4> QED BY <1>1, <3>2, <4>1 DEF Closed
    <3>3. CASE g = f /\ e = d /\ d # c.at
      BY <3>3
    <3> QED BY <3>1, <3>2, <3>3
  <2>6. <<copy[q].at, copy[q].file>> \notin X
    BY <2>4
  <2>7. <<art[q].source, copy[q].file>> \notin X
    BY <2>3, <2>4
  <2>8. \A x \in raced' : x \in raced \cup X \cup near \cup far
    BY <1>3
  <2> HIDE DEF X, near, far
  <2>9. \A x \in raced' : \/ x \in raced \cup X
                           \/ \E r \in Processes :
                                pc[r] = "write" /\ x = <<copy[r].at, copy[r].file>>
    BY <1>4, <2>8
  <2> QED BY <2>1, <2>5, <2>6, <2>7, <2>9, WriteStays
<1>6. ASSUME NEW q \in Processes, q # p, <<copy[q].at, copy[q].file>> \in raced'
      PROVE  WriteAt(q)'
  <2>1. copy'[q] = copy[q]
    BY <1>2, <1>6 DEF TypeOK
  <2> QED BY <1>6, <2>1 DEF WriteAt
<1>7. ASSUME NEW q \in Processes, pc'[q] # "write" PROVE WriteAt(q)'
  BY <1>7 DEF WriteAt
<1> QED BY <1>2, <1>5, <1>6, <1>7 DEF WriteInv

LEMMA EditWrite ==
  ASSUME TypeOK, ActorInv, WriteInv, NEW t \in Sources, NEW f \in Files, Edit(t, f)
  PROVE  WriteInv'
<1>1. /\ t \in Dir /\ pc' = pc /\ copy' = copy /\ art' = art
      /\ raced' = raced \cup Disturbed(t, f)
      /\ \A e \in Dir, g \in Files : <<e, g>> \notin {<<t, f>>} => files'[e][g] = files[e][g]
  BY DEF Edit, proc, TypeOK, Dir
<1>2. \A x \in Disturbed(t, f) :
        x = <<t, f>> \/ \E r \in Processes :
                          pc[r] = "write" /\ x = <<copy[r].at, copy[r].file>>
  BY DEF Disturbed, From
<1>3. ASSUME NEW q \in Processes, pc'[q] = "write", <<copy[q].at, copy[q].file>> \notin raced'
      PROVE  WriteAt(q)'
  <2>1. Writing(q)
    BY <1>1, <1>3 DEF Writing
  <2>2. <<copy[q].at, copy[q].file>> # <<t, f>>
    <3> SUFFICES ASSUME <<copy[q].at, copy[q].file>> = <<t, f>> PROVE FALSE
      OBVIOUS
    <3>1. q \in Into(t, f)
      BY <2>1 DEF Into, Writing
    <3>2. <<t, f>> \in Disturbed(t, f)
      BY <3>1 DEF Disturbed
    <3> QED BY <1>1, <1>3, <3>2
  <2>3. ASSUME <<art[q].source, copy[q].file>> = <<t, f>>
        PROVE  <<copy[q].at, copy[q].file>> \in raced'
    <3>1. q \in From(t, f) /\ copy[q].file = f
      BY <2>1, <2>3 DEF From, Writing
    <3>2. <<copy[q].at, f>> \in Disturbed(t, f)
      BY <3>1 DEF Disturbed
    <3> QED BY <1>1, <3>1, <3>2
  <2> DEFINE X == {<<t, f>>}
  <2>4. /\ <<copy[q].at, copy[q].file>> \notin X
        /\ \A e \in Dir, g \in Files : <<e, g>> \notin X => files'[e][g] = files[e][g]
        /\ <<art[q].source, copy[q].file>> \in X => <<copy[q].at, copy[q].file>> \in raced'
    BY <1>1, <2>2, <2>3
  <2>5. \A x \in raced' : \/ x \in raced \cup X
                           \/ \E r \in Processes :
                                pc[r] = "write" /\ x = <<copy[r].at, copy[r].file>>
    BY <1>1, <1>2
  <2>6. raced \subseteq raced'
    BY <1>1
  <2> HIDE DEF X
  <2> QED BY <2>1, <2>4, <2>5, <2>6, WriteStays
<1>4. ASSUME NEW q \in Processes, <<copy[q].at, copy[q].file>> \in raced'
      PROVE  WriteAt(q)'
  BY <1>1, <1>4 DEF WriteAt
<1>5. ASSUME NEW q \in Processes, pc'[q] # "write" PROVE WriteAt(q)'
  BY <1>5 DEF WriteAt
<1> QED BY <1>3, <1>4, <1>5 DEF WriteInv

LEMMA UnlinkFrame ==
  ASSUME TypeOK, ActorInv, NEW p \in Processes, Unlink(p)
  PROVE  /\ \A d \in Dir, f \in Files : files'[d][f] \in {files[d][f], None}
         /\ \A s \in Sources : files'[s] = files[s]
         /\ raced' = raced /\ copy' = copy /\ art' = art
         /\ pc'[p] # "write" /\ \A q \in Processes \ {p} : pc'[q] = pc[q]
<1>1. art[p].id \in Ids /\ art[p].id \notin Sources
  BY ArtifactFields, SourcesAssumption DEF Unlink, ActorInv, ActorAt, Active
<1>2. CASE place[art[p].id] = "dir"
  BY <1>2 DEF Unlink, TypeOK, Goto, history
<1>3. CASE place[art[p].id] # "dir"
  <2>1. /\ files' = [files EXCEPT ![art[p].id] = [f \in Files |-> None]]
        /\ pc' = [pc EXCEPT ![p] = "link"]
        /\ raced' = raced /\ copy' = copy /\ art' = art
    BY <1>3 DEF Unlink, Goto, history
  <2> QED BY <1>1, <2>1 DEF TypeOK, Dir
<1> QED BY <1>2, <1>3

LEMMA StepWrite ==
  ASSUME TypeOK, ActorInv, WriteInv, [Next]_vars
  PROVE  WriteInv'
<1>1. ASSUME Quiet PROVE WriteInv'
  BY <1>1 DEF Quiet, WriteInv, WriteAt, Writing, Half
<1>2. ASSUME NEW p \in Processes, Unlink(p) PROVE WriteInv'
  <2> SUFFICES ASSUME NEW q \in Processes, pc'[q] = "write",
                      <<copy[q].at, copy[q].file>> \notin raced
               PROVE  WriteAt(q)'
    BY <1>2, UnlinkFrame DEF WriteInv, WriteAt
  <2>1. pc[q] = "write" /\ copy[q].at \in Dir /\ copy[q].file \in Files
        /\ art[q].source \in Sources
    BY <1>2, UnlinkFrame, ArtifactFields DEF ActorInv, ActorAt, Copying, Active
  <2> QED BY <1>2, <2>1, UnlinkFrame DEF WriteInv, WriteAt, Half
<1> QED BY <1>1, <1>2, StepKinds, OpenWrite, CloseWrite, EditWrite

-----------------------------------------------------------------------------
(* A copy that nobody disturbed ends with the bytes and the stamp of its   *)
(* source.                                                                 *)
LEMMA CleanClose ==
  ASSUME TypeOK, ActorInv, WriteInv, NEW p \in Processes, CloseCopy(p),
         <<copy[p].at, copy[p].file>> \notin raced,
         files'[copy[p].at][copy[p].file] # None
  PROVE  LET f == copy[p].file
             new == files'[copy[p].at][f]
             now == files[art[p].source][f]
         IN /\ now # None /\ new.content = now.content
            /\ new.stamp # None => new.stamp = now.stamp
            /\ <<art[p].source, f>> \notin raced
<1> DEFINE c == copy[p]
           s == art[p].source
           d == Dest(art[p].id)
<1>1. Closed(p, c, s, d) /\ WriteAt(p)
  BY CloseEffect DEF WriteInv
<1> HIDE DEF d
<1>2. /\ files[c.at][c.file] # None
      /\ files'[c.at][c.file].content \in Written(p, files[c.at][c.file], files[s][c.file])
      /\ files'[c.at][c.file].stamp # None =>
           files'[c.at][c.file].stamp = files[s][c.file].stamp
      /\ pc[p] = "write"
  BY <1>1 DEF Closed
<1>3. /\ files[c.at][c.file] = Half(p) /\ <<s, c.file>> \notin raced
      /\ files[s][c.file] # None /\ files[s][c.file].content = c.from
  BY <1>1, <1>2 DEF WriteAt
<1>4. Written(p, files[c.at][c.file], files[s][c.file]) = {c.from}
  BY <1>3, HalfType DEF Written
<1> QED BY <1>2, <1>3, <1>4

LEMMA StepStamp ==
  ASSUME TypeOK, ActorInv, WriteInv, StampInv, [Next]_vars
  PROVE  StampInv'
<1>1. ASSUME Quiet PROVE StampInv'
  BY <1>1 DEF Quiet, StampInv, StampAt
<1>2. ASSUME NEW p \in Processes, NEW f \in Files,
             OpenCopy(p, f), Opens(p, f, art[p].source, Dest(art[p].id))
      PROVE  StampInv'
  <2>1. /\ files' = [files EXCEPT ![Dest(art[p].id)][f] = Half(p)]
        /\ raced \subseteq raced'
    BY <1>2 DEF Opens
  <2> SUFFICES ASSUME NEW e \in Dir, NEW g \in Files PROVE StampAt(e, g)'
    BY DEF StampInv
  <2>2. CASE files'[e][g] = files[e][g]
    BY <2>1, <2>2 DEF StampInv, StampAt
  <2>3. CASE files'[e][g] = Half(p)
    BY <2>3, HalfType DEF StampAt
  <2> QED BY <2>1, <2>2, <2>3 DEF TypeOK
<1>3. ASSUME NEW p \in Processes, CloseCopy(p) PROVE StampInv'
  <2> DEFINE c == copy[p]
             d == Dest(art[p].id)
  <2>1. Closed(p, c, art[p].source, d)
    BY <1>3, CloseEffect
  <2>2. raced \subseteq raced' /\ (d # c.at => <<d, c.file>> \in raced')
    BY <2>1 DEF Closed
  <2> SUFFICES ASSUME NEW e \in Dir, NEW g \in Files, <<e, g>> \notin raced',
                      files'[e][g] # None, files'[e][g].stamp # None
               PROVE  files'[e][g].content = files'[e][g].stamp
    BY DEF StampInv, StampAt
  <2>3. CASE g # c.file \/ e \notin {c.at, d}
    BY <2>1, <2>2, <2>3 DEF Closed, StampInv, StampAt
  <2>4. CASE g = c.file /\ e = c.at
    <3>1. /\ files[art[p].source][g] # None
          /\ files'[e][g].content = files[art[p].source][g].content
          /\ files'[e][g].stamp = files[art[p].source][g].stamp
          /\ <<art[p].source, g>> \notin raced
      BY <1>3, <2>2, <2>4, CleanClose
    <3>2. art[p].source \in Dir
      BY <2>1 DEF Closed
    <3> QED BY <3>1, <3>2 DEF StampInv, StampAt
  <2>5. CASE g = c.file /\ e = d /\ d # c.at
    BY <2>2, <2>5
  <2> QED BY <2>3, <2>4, <2>5
<1>4. ASSUME NEW p \in Processes, Unlink(p) PROVE StampInv'
  BY <1>4, UnlinkFrame DEF StampInv, StampAt
<1>5. ASSUME NEW t \in Sources, NEW f \in Files, Edit(t, f) PROVE StampInv'
  <2>1. PICK new \in {None, Fresh(<<t, edits'>>)} : files' = [files EXCEPT ![t][f] = new]
    BY <1>5 DEF Edit
  <2>2. raced \subseteq raced'
    BY <1>5 DEF Edit
  <2> SUFFICES ASSUME NEW e \in Dir, NEW g \in Files PROVE StampAt(e, g)'
    BY DEF StampInv
  <2>3. CASE files'[e][g] = files[e][g]
    BY <2>2, <2>3 DEF StampInv, StampAt
  <2>4. CASE files'[e][g] = new
    BY <2>4 DEF StampAt, Fresh
  <2> QED BY <2>1, <2>3, <2>4 DEF TypeOK
<1> QED BY <1>1, <1>2, <1>3, <1>4, <1>5, StepKinds

-----------------------------------------------------------------------------
LEMMA OpenReaches ==
  ASSUME TypeOK, ActorInv, PlaceInv, NEW p \in Processes, NEW f \in Files,
         OpenCopy(p, f), Opens(p, f, art[p].source, Dest(art[p].id)),
         Dest(art[p].id) \in Sources
  PROVE  Exposed(Dest(art[p].id))
<1>1. /\ art[p] \in Artifacts /\ art[p].mode = "managed_copy" /\ art[p].id \in Ids
      /\ art[p].source # Dest(art[p].id)
  BY OpenEffect DEF Opens
<1>2. Linked(art[p].id, Dest(art[p].id))
  BY <1>1, DestType DEF PlaceInv
<1> QED BY <1>1, <1>2 DEF Linked, Exposed

LEMMA StepReach ==
  ASSUME TypeOK, ActorInv, PlaceInv, ReachInv, SourcesKeepTheirFiles, [Next]_vars
  PROVE  ReachInv' /\ SourcesKeepTheirFiles'
<1> USE DEF ReachInv, ReachAt, SourcesKeepTheirFiles, Exposed
<1>0. \A t \in Sources : t \in Dir
  BY DEF Dir
<1>1. ASSUME Quiet PROVE ReachInv' /\ SourcesKeepTheirFiles'
  BY <1>1 DEF Quiet, Writing
<1>2. ASSUME NEW p \in Processes, NEW f \in Files,
             OpenCopy(p, f), Opens(p, f, art[p].source, Dest(art[p].id))
      PROVE  ReachInv' /\ SourcesKeepTheirFiles'
  <2> DEFINE d == Dest(art[p].id)
  <2>1. d \in Dir /\ (d \in Sources => Exposed(d))
    BY <1>2, OpenEffect, OpenReaches
  <2> HIDE DEF d, Exposed
  <2>2. /\ files' = [files EXCEPT ![d][f] = Half(p)]
        /\ pc' = [pc EXCEPT ![p] = "write"]
        /\ \E c \in Copying : copy' = [copy EXCEPT ![p] = c] /\ c.at = d
    BY <1>2 DEF Opens, d
  <2>3. ReachInv'
    <3> SUFFICES ASSUME NEW q \in Processes, pc'[q] = "write", copy'[q].at \in Sources
                 PROVE  Exposed(copy'[q].at)
      BY DEF Exposed
    <3>1. CASE q = p
      BY <2>1, <2>2, <3>1 DEF TypeOK
    <3>2. CASE q # p
      BY <2>2, <3>2 DEF TypeOK
    <3> QED BY <3>1, <3>2
  <2>4. SourcesKeepTheirFiles'
    <3> SUFFICES ASSUME NEW t \in Sources, NEW g \in Files, files'[t][g] # None, ~Exposed(t)
                 PROVE  files'[t][g].content \in {t} \X (0..MaxEdits)
      BY DEF Exposed
    <3>1. t # d
      BY <2>1
    <3> QED BY <1>0, <2>1, <2>2, <3>1 DEF TypeOK
  <2> QED BY <2>3, <2>4
<1>3. ASSUME NEW p \in Processes, CloseCopy(p)
      PROVE  ReachInv' /\ SourcesKeepTheirFiles'
  <2> DEFINE c == copy[p]
             d == Dest(art[p].id)
  <2>1. Closed(p, c, art[p].source, d)
    BY <1>3, CloseEffect
  <2> HIDE DEF Exposed
  <2>2. ReachInv'
    <3> SUFFICES ASSUME NEW q \in Processes, pc'[q] = "write", copy'[q].at \in Sources
                 PROVE  Exposed(copy'[q].at)
      BY DEF Exposed
    <3>1. q # p /\ pc'[q] = pc[q] /\ copy'[q] = copy[q]
      BY <1>3, <2>1 DEF Closed, CloseCopy, TypeOK
    <3> QED BY <3>1
  <2>3. SourcesKeepTheirFiles'
    <3> SUFFICES ASSUME NEW t \in Sources, NEW g \in Files, files'[t][g] # None, ~Exposed(t)
                 PROVE  files'[t][g].content \in {t} \X (0..MaxEdits)
      BY DEF Exposed
    <3>1. t # c.at
      BY <2>1 DEF Closed
    <3>2. files'[t][g] = files[t][g] \/
            (files[t][g] # None /\ files'[t][g].content = files[t][g].content)
      BY <1>0, <2>1, <3>1 DEF Closed
    <3> QED BY <3>2
  <2> QED BY <2>2, <2>3
<1>4. ASSUME NEW p \in Processes, Unlink(p)
      PROVE  ReachInv' /\ SourcesKeepTheirFiles'
  BY <1>4, UnlinkFrame
<1>5. ASSUME NEW t \in Sources, NEW f \in Files, Edit(t, f)
      PROVE  ReachInv' /\ SourcesKeepTheirFiles'
  <2>1. PICK new \in {None, Fresh(<<t, edits'>>)} : files' = [files EXCEPT ![t][f] = new]
    BY <1>5 DEF Edit
  <2>2. pc' = pc /\ copy' = copy /\ edits' \in 0..MaxEdits
    BY <1>5, BoundsAssumption DEF Edit, proc, TypeOK
  <2> HIDE DEF Exposed
  <2>3. SourcesKeepTheirFiles'
    <3> SUFFICES ASSUME NEW u \in Sources, NEW g \in Files, files'[u][g] # None, ~Exposed(u)
                 PROVE  files'[u][g].content \in {u} \X (0..MaxEdits)
      BY DEF Exposed
    <3>1. CASE u = t /\ g = f
      <4>1. files'[u][g] = new
        BY <1>0, <2>1, <3>1 DEF TypeOK
      <4> QED BY <2>2, <3>1, <4>1 DEF Fresh
    <3>2. CASE ~(u = t /\ g = f)
      BY <1>0, <2>1, <3>2 DEF TypeOK
    <3> QED BY <3>1, <3>2
  <2>4. ReachInv'
    BY <2>2 DEF Exposed
  <2> QED BY <2>3, <2>4
<1> QED BY <1>1, <1>2, <1>3, <1>4, <1>5, StepKinds

-----------------------------------------------------------------------------
(* A file that is skipped holds the bytes of the source.                   *)
LEMMA StampsTell ==
  ASSUME TypeOK, StampInv, NEW s \in Sources, NEW d \in Dir, NEW f \in Files,
         IsCurrent(s, f, d), {<<s, f>>, <<d, f>>} \cap raced = {}
  PROVE  files[d][f] # None /\ files[d][f].content = files[s][f].content
<1>1. /\ s \in Dir /\ files[s][f] # None /\ files[d][f] # None
      /\ s = d \/ (files[d][f].stamp = files[s][f].stamp /\ files[d][f].stamp # None)
  BY DEF IsCurrent, Dir
<1> QED BY <1>1 DEF StampInv, StampAt

(* The steps a process that is alone may take while it copies.             *)
LEMMA AloneSkips ==
  ASSUME TypeOK, ActorInv, StampInv, NEW p \in Processes, AloneAt(p), alone[p],
         NEW f \in Files, SkipFile(p, f)
  PROVE  AloneAt(p)'
<1>1. /\ pc' = pc /\ files' = files /\ place' = place /\ art' = art /\ copy' = copy
      /\ raced' = raced /\ alone' = alone /\ pc[p] = "copy"
      /\ todo' = [todo EXCEPT ![p] = @ \ {f}]
      /\ IsCurrent(art[p].source, f, Dest(art[p].id))
  BY DEF SkipFile, disk, history
<1>2. art[p].source \in Sources /\ art[p].id \in Ids /\ Dest(art[p].id) \in Dir
  BY <1>1, ArtifactFields, DestType DEF ActorInv, ActorAt, Active
<1>3. todo'[p] = todo[p] \ {f} /\ pc'[p] = "copy"
  BY <1>1 DEF TypeOK
<1>4. ASSUME NEW g \in Has(art[p].source) PROVE Handled(p, g)'
  <2>1. Handled(p, g)
    BY <1>1, <1>4 DEF AloneAt, Active, Working
  <2>2. CASE g # f
    BY <1>1, <1>3, <2>1, <2>2 DEF Handled, Dest
  <2>3. CASE g = f
    BY <1>1, <1>2, <2>3, StampsTell DEF Handled, Dest
  <2> QED BY <2>2, <2>3
<1>5. \A q \in Processes \ {p} : pc[q] \in Final
  BY <1>1 DEF AloneAt, Active
<1> QED BY <1>1, <1>3, <1>4, <1>5 DEF AloneAt, Has

LEMMA AloneOpens ==
  ASSUME TypeOK, ActorInv, NEW p \in Processes, AloneAt(p), alone[p],
         NEW f \in Files, OpenCopy(p, f)
  PROVE  AloneAt(p)'
<1> DEFINE s == art[p].source
           d == Dest(art[p].id)
<1>1. /\ art' = art /\ todo' = todo /\ pc[p] = "copy" /\ f \in todo[p]
      /\ s \in Sources /\ s \in Dir /\ art[p].id \in Ids /\ d \in Dir
  BY OpenEffect DEF OpenCopy
<1>2. Dest(art[p].id)' = d
  <2>1. place' = Made(art[p].id, s, f)
    BY DEF OpenCopy
  <2>2. \/ place'[art[p].id] = place[art[p].id]
        \/ place'[art[p].id] \notin Sources /\ place[art[p].id] \notin Sources
    <3>1. \/ place' = place
          \/ /\ place[art[p].id] = "absent"
             /\ \E kind \in {"dir", "file"} : place' = [place EXCEPT ![art[p].id] = kind]
      BY <2>1 DEF Made
    <3>2. \A kind \in {"absent", "dir", "file"} : kind \notin Sources
      BY SourcesAssumption
    <3> QED BY <1>1, <3>1, <3>2 DEF TypeOK
  <2> QED BY <1>1, <2>2 DEF Dest
<1>3. CASE OpenFails(p)
  <2>1. pc'[p] = "failed"
    BY <1>3 DEF OpenFails, TypeOK
  <2> QED BY <2>1 DEF AloneAt, Active
<1>4. CASE Opens(p, f, s, d)
  <2>1. /\ pc'[p] = "write" /\ \A q \in Processes \ {p} : pc'[q] = pc[q]
        /\ copy'[p].at = d /\ copy'[p].file = f /\ s # d
        /\ files'[d][f] = Half(p) /\ raced \subseteq raced'
        /\ \A e \in Dir, g \in Files : (e # d \/ g # f) => files'[e][g] = files[e][g]
    BY <1>1, <1>4 DEF Opens, TypeOK
  <2>2. Has(s)' = Has(s)
    BY <1>1, <2>1 DEF Has
  <2>3. ASSUME NEW g \in Has(s) PROVE Handled(p, g)'
    <3>1. Handled(p, g) /\ g \in Files
      BY <1>1, <2>3 DEF AloneAt, Active, Working, Has
    <3>2. CASE g = f
      BY <1>1, <3>2 DEF Handled
    <3>3. CASE g # f
      <4>1. files'[d][g] = files[d][g] /\ files'[s][g] = files[s][g]
        BY <1>1, <2>1, <3>1, <3>3
      <4> HIDE DEF d
      <4> QED BY <1>1, <1>2, <2>1, <3>1, <4>1 DEF Handled, d
    <3> QED BY <3>2, <3>3
  <2>4. \A q \in Processes \ {p} : pc'[q] \in Final
    BY <1>1, <2>1 DEF AloneAt, Active
  <2>5. copy'[p].at = Dest(art[p].id)' /\ files'[copy'[p].at][copy'[p].file] # None
    BY <1>2, <2>1, HalfType
  <2>6. Has(art[p].source)' = Has(s)
    BY <1>1, <2>2
  <2> QED BY <1>1, <2>3, <2>4, <2>5, <2>6 DEF AloneAt, Has
<1> QED BY <1>3, <1>4, OpenEffect

LEMMA AloneCloses ==
  ASSUME TypeOK, ActorInv, WriteInv, NEW p \in Processes, AloneAt(p), alone[p],
         CloseCopy(p)
  PROVE  AloneAt(p)'
<1> DEFINE c == copy[p]
           s == art[p].source
           d == Dest(art[p].id)
<1>1. Closed(p, c, s, d) /\ pc[p] = "write" /\ art' = art /\ place' = place
      /\ todo' = [todo EXCEPT ![p] = @ \ {c.file}]
  BY CloseEffect DEF CloseCopy, Closed
<1>2. d = c.at /\ \A q \in Processes \ {p} : pc[q] \in Final
  BY <1>1 DEF AloneAt, Active
<1>3. CASE pc' = [pc EXCEPT ![p] = "failed"]
  <2>1. pc'[p] = "failed"
    BY <1>3 DEF TypeOK
  <2> QED BY <2>1 DEF AloneAt, Active
<1>4. CASE pc' = [pc EXCEPT ![p] = "copy"]
  <2>1. /\ files[c.at][c.file] # None /\ files'[c.at][c.file] # None
        /\ s # c.at /\ s \in Dir /\ c.at \in Dir /\ c.file \in Files
        /\ raced \subseteq raced'
        /\ \A e \in Dir, g \in Files :
             (e # c.at \/ g # c.file) => files'[e][g] = files[e][g]
    <3>1. pc'[p] # "failed"
      BY <1>4 DEF TypeOK
    <3>2. pc' # [pc EXCEPT ![p] = "failed"]
      BY <3>1 DEF TypeOK
    <3> HIDE DEF d
    <3> QED BY <1>1, <1>2, <3>2 DEF Closed
  <2>2. Has(s)' = Has(s) /\ Dest(art[p].id)' = c.at
    BY <1>1, <1>2, <2>1 DEF Has, Dest
  <2>3. /\ pc'[p] = "copy" /\ \A q \in Processes \ {p} : pc'[q] \in Final
        /\ todo'[p] = todo[p] \ {c.file}
    BY <1>1, <1>2, <1>4 DEF TypeOK
  <2>4. ASSUME NEW g \in Has(s) PROVE Handled(p, g)'
    <3>1. Handled(p, g) /\ g \in Files
      BY <1>1, <2>4 DEF AloneAt, Active, Working, Has
    <3>2. CASE g = c.file
      <4>1. CASE <<c.at, c.file>> \in raced
        BY <2>1, <2>2, <3>2, <4>1 DEF Handled
      <4>2. CASE <<c.at, c.file>> \notin raced
        <5>1. files'[c.at][g].content = files[s][g].content
          BY <2>1, <3>2, <4>2, CleanClose
        <5>2. files'[s][g] = files[s][g]
          BY <2>1, <3>1
        <5> HIDE DEF d
        <5> QED BY <1>1, <2>1, <2>2, <3>2, <5>1, <5>2 DEF Handled
      <4> QED BY <4>1, <4>2
    <3>3. CASE g # c.file
      <4>1. files'[c.at][g] = files[c.at][g] /\ files'[s][g] = files[s][g]
        BY <2>1, <3>1, <3>3
      <4>2. \/ g \in todo[p] \/ {<<s, g>>, <<c.at, g>>} \cap raced # {}
            \/ (files[c.at][g] # None /\ files[c.at][g].content = files[s][g].content)
        BY <1>2, <3>1 DEF Handled
      <4> HIDE DEF d
      <4> QED BY <1>1, <2>1, <2>2, <2>3, <3>3, <4>1, <4>2 DEF Handled
    <3> QED BY <3>2, <3>3
  <2>5. Has(art[p].source)' = Has(s)
    BY <1>1, <2>2
  <2> QED BY <1>1, <2>3, <2>4, <2>5 DEF AloneAt, Has
<1> QED BY <1>1, <1>3, <1>4 DEF Closed

(* What a step of one process leaves to another.                           *)
LEMMA OthersStay ==
  ASSUME TypeOK, ActorInv, NEW p \in Processes, Step(p) \/ Kill(p) \/ StartRunner(p)
  PROVE  /\ alone' = alone /\ \A q \in Processes \ {p} : pc'[q] = pc[q]
         /\ pc[p] \in Active \/ (pc[p] \in Final /\ pc'[p] \in Final)
<1> USE DEF TypeOK, Goto, Active, Final
<1>1. ASSUME NEW f \in Files, OpenCopy(p, f)
      PROVE  alone' = alone /\ pc[p] = "copy" /\ \A q \in Processes \ {p} : pc'[q] = pc[q]
  BY <1>1 DEF OpenCopy
<1>2. ASSUME NEW f \in Files, SkipFile(p, f)
      PROVE  alone' = alone /\ pc[p] = "copy" /\ \A q \in Processes \ {p} : pc'[q] = pc[q]
  BY <1>2 DEF SkipFile, history
<1>3. CASE CloseCopy(p)      BY <1>3 DEF CloseCopy
<1>4. CASE ManageExternal(p) BY <1>4 DEF ManageExternal, history
<1>5. CASE BeginCopy(p)      BY <1>5 DEF BeginCopy, history
<1>6. CASE EndCopy(p)        BY <1>6 DEF EndCopy, history
<1>7. CASE List(p)           BY <1>7 DEF List, history
<1>8. CASE Unlink(p)         BY <1>8 DEF Unlink, history
<1>9. CASE Link(p)           BY <1>9 DEF Link, history
<1>10. CASE Fingerprint(p)   BY <1>10 DEF Fingerprint, history
<1>11. CASE Register(p)      BY <1>11 DEF Register, history
<1>12. CASE Kill(p)          BY <1>12 DEF Kill, history
<1>13. CASE StartRunner(p)   BY <1>13 DEF StartRunner, history
<1> QED
  BY <1>1, <1>2, <1>3, <1>4, <1>5, <1>6, <1>7, <1>8, <1>9, <1>10, <1>11,
     <1>12, <1>13 DEF Step

LEMMA StepAlone ==
  ASSUME TypeOK, ActorInv, WriteInv, StampInv, AloneInv, [Next]_vars
  PROVE  AloneInv'
<1>1. ASSUME NEW p \in Processes, Step(p) \/ Kill(p) \/ StartRunner(p) PROVE AloneInv'
  <2>1. /\ alone' = alone /\ \A q \in Processes \ {p} : pc'[q] = pc[q]
        /\ pc[p] \in Active \/ (pc[p] \in Final /\ pc'[p] \in Final)
    BY <1>1, OthersStay
  <2>2. ASSUME NEW q \in Processes \ {p}, alone[q], pc[q] \in Active PROVE AloneAt(q)'
    <3>1. pc[p] \in Final /\ AloneAt(q)
      BY <2>2 DEF AloneInv, AloneAt
    <3>2. StartRunner(p)
      BY <1>1, <3>1 DEF Step, Kill, Active, Final, ManageExternal, BeginCopy,
         EndCopy, CloseCopy, SkipFile, OpenCopy, List, Unlink, Link, Fingerprint,
         Register
    <3>3. /\ files' = files /\ place' = place /\ copy' = copy /\ art' = art
          /\ todo' = todo /\ raced' = raced
      BY <3>2 DEF StartRunner, history
    <3> QED BY <2>1, <2>2, <3>1, <3>3 DEF AloneAt, Handled, Has, Dest, Active, Final
  <2>3. ASSUME NEW q \in Processes \ {p}, ~(alone[q] /\ pc[q] \in Active)
        PROVE  AloneAt(q)'
    BY <2>1, <2>3 DEF AloneAt
  <2>4. ASSUME alone[p], pc'[p] \in Active PROVE AloneAt(p)'
    <3>1. AloneAt(p) /\ pc[p] \in Active
      BY <2>1, <2>4 DEF AloneInv, Active, Final
    <3>2. ASSUME NEW f \in Files, OpenCopy(p, f) \/ SkipFile(p, f) PROVE AloneAt(p)'
      BY <2>4, <3>1, <3>2, AloneOpens, AloneSkips
    <3>3. CASE CloseCopy(p)
      BY <2>4, <3>1, <3>3, AloneCloses
    <3>4. \A q \in Processes \ {p} : pc'[q] \in Final
      BY <2>1, <2>4, <3>1 DEF AloneAt
    <3>5. CASE pc'[p] # "write" /\ pc'[p] \notin Working
      BY <3>4, <3>5 DEF AloneAt
    <3>6. CASE BeginCopy(p)
      <4>1. CASE pc'[p] # "copy"
        BY <3>5, <3>6, <4>1 DEF BeginCopy, Goto, TypeOK, Working
      <4>2. CASE pc'[p] = "copy"
        <5>1. /\ todo'[p] = Has(art[p].source) /\ art' = art /\ files' = files
          BY <3>6, <4>2 DEF BeginCopy, Goto, TypeOK
        <5> QED BY <3>4, <4>2, <5>1 DEF AloneAt, Handled, Has
      <4> QED BY <4>1, <4>2
    <3>7. CASE EndCopy(p)
      <4>1. /\ files' = files /\ place' = place /\ art' = art /\ todo' = todo
            /\ raced' = raced /\ pc[p] = "copy" /\ pc'[p] = "list"
        BY <3>7 DEF EndCopy, disk, history, Goto, TypeOK
      <4> QED BY <2>4, <3>1, <3>4, <4>1 DEF AloneAt, Handled, Has, Dest, Working
    <3>8. CASE \/ ManageExternal(p) \/ List(p) \/ Unlink(p) \/ Link(p)
               \/ Fingerprint(p) \/ Register(p) \/ Kill(p) \/ StartRunner(p)
      BY <3>5, <3>8 DEF ManageExternal, List, Unlink, Link, Fingerprint, Register,
         Kill, StartRunner, Managed, Goto, TypeOK, Working
    <3> QED BY <1>1, <3>2, <3>3, <3>6, <3>7, <3>8 DEF Step
  <2>5. ASSUME ~(alone[p] /\ pc'[p] \in Active) PROVE AloneAt(p)'
    BY <2>1, <2>5 DEF AloneAt
  <2> QED BY <2>2, <2>3, <2>4, <2>5 DEF AloneInv
<1>2. ASSUME NEW p \in Processes, NEW a \in Artifacts, Start(p, a) PROVE AloneInv'
  <2> SUFFICES ASSUME NEW q \in Processes, alone'[q] PROVE AloneAt(q)'
    BY DEF AloneInv, AloneAt
  <2>1. /\ q = p /\ \A r \in Processes \ {p} : pc'[r] \in Final
        /\ pc'[p] \in {"manage", "register"}
    BY <1>2 DEF Start, Goto, TypeOK
  <2> QED BY <2>1 DEF AloneAt, Working
<1>3. ASSUME NEW s \in Sources, NEW f \in Files, Edit(s, f) PROVE AloneInv'
  BY <1>3 DEF Edit, AloneInv, AloneAt
<1>4. CASE UNCHANGED vars
  BY <1>4 DEF vars, disk, proc, history, AloneInv, AloneAt, Handled, Has, Dest
<1> QED BY <1>1, <1>2, <1>3, <1>4 DEF Next

-----------------------------------------------------------------------------
LEMMA InitIInv == Init => IInv
<1> SUFFICES ASSUME Init PROVE IInv
  OBVIOUS
<1>1. TypeOK
  BY InitTypeOK
<1>2. ActorInv /\ WriteInv /\ ReachInv /\ AloneInv
  BY DEF Init, ActorInv, ActorAt, WriteInv, WriteAt, ReachInv, ReachAt, AloneInv,
     AloneAt, Active, Working
<1>3. PlaceInv
  BY PlacedAssumption DEF Init, PlaceInv, Linked
<1>4. \A d \in Dir, f \in Files :
        files[d][f] # None => d \in Sources /\ files[d][f] = Fresh(<<d, 0>>)
  BY DEF Init
<1>5. StampInv
  <2> SUFFICES ASSUME NEW d \in Dir, NEW f \in Files, files[d][f] # None
               PROVE  files[d][f].content = files[d][f].stamp
    BY DEF StampInv, StampAt
  <2>1. files[d][f] = Fresh(<<d, 0>>)
    BY <1>4
  <2> QED BY <2>1 DEF Fresh
<1>6. SourcesKeepTheirFiles
  <2> SUFFICES ASSUME NEW s \in Sources, NEW f \in Files, files[s][f] # None
               PROVE  files[s][f].content \in {s} \X (0..MaxEdits)
    BY DEF SourcesKeepTheirFiles
  <2>1. files[s][f] = Fresh(<<s, 0>>)
    BY <1>4 DEF Dir
  <2> QED BY <2>1, BoundsAssumption DEF Fresh
<1> QED BY <1>1, <1>2, <1>3, <1>5, <1>6 DEF IInv

LEMMA Invariance == Spec => []IInv
<1>1. IInv /\ [Next]_vars => IInv'
  BY StepTypeOK, StepActor, StepPlace, StepWrite, StepStamp, StepReach, StepAlone
     DEF IInv
<1> QED BY InitIInv, <1>1, PTL DEF Spec

(* Every variable keeps its type: a line of artifacts.jsonl is a whole     *)
(* artifact or the record without an id that BenchmarkRunner registers.    *)
THEOREM TypeCorrect == Spec => []TypeOK
<1>1. IInv => TypeOK
  BY DEF IInv
<1> QED BY Invariance, <1>1, PTL

(* However many copies were killed, a file that _copy_file_incremental     *)
(* would skip holds the source's bytes, unless somebody disturbed it.      *)
THEOREM SkippingIsSafe == Spec => []SkippedIsCurrent
<1>1. IInv => SkippedIsCurrent
  BY StampsTell DEF IInv, SkippedIsCurrent
<1> QED BY Invariance, <1>1, PTL

(* A copy that reached its .copied_files while nobody else was about holds *)
(* every file of its source, whatever it found there.                      *)
THEOREM UndisturbedCopyIsWhole == Spec => []CopyIsCurrent
<1>1. IInv => CopyIsCurrent
  <2> SUFFICES ASSUME IInv, NEW p \in Processes, pc[p] = "list", alone[p],
                      NEW f \in Has(art[p].source)
               PROVE  LET s == art[p].source
                          d == Dest(art[p].id)
                      IN {<<s, f>>, <<d, f>>} \cap raced # {} \/
                         (files[d][f] # None /\ files[d][f].content = files[s][f].content)
    BY DEF CopyIsCurrent
  <2>1. Handled(p, f) /\ f \notin todo[p]
    BY DEF IInv, ActorInv, ActorAt, AloneInv, AloneAt, Active, Working
  <2> QED BY <2>1 DEF Handled
<1> QED BY Invariance, <1>1, PTL

(* manage_artifact writes into a source only through a link under whose id *)
(* another source is copied.                                               *)
THEOREM SourcesAreKept == Spec => []SourcesKeepTheirFiles
<1>1. IInv => SourcesKeepTheirFiles
  BY DEF IInv
<1> QED BY Invariance, <1>1, PTL
=============================================================================
