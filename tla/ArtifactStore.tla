---------------------------- MODULE ArtifactStore ----------------------------
(***************************************************************************)
(* The artifact store and its registry: managed copies and links under     *)
(* artifacts/models, and artifacts.jsonl.  Processes run register-artifact *)
(* or call the library (manage_artifact, ArtifactRegistry.register,        *)
(* BenchmarkRunner.run); each may be killed at any step, and whoever owns  *)
(* the sources edits them meanwhile.  A file has a content and a stamp,    *)
(* its mtime and size; an edit changes both, as no two edits share an      *)
(* mtime.  Paths below a directory are flat; a source that is a single     *)
(* file goes by one name, which all such sources share.                    *)
(***************************************************************************)
EXTENDS Naturals, Sequences

CONSTANTS
  Processes,    \* running commands and library users
  Sources,      \* directories and files outside the store
  SingleFiles,  \* the sources that are one file, such as a GGUF
  Ids,          \* artifact ids
  Files,        \* file names
  Contents,     \* the files every source has at first
  Artifacts,    \* the artifacts they are given, records of ArtifactType
  Placed,       \* the links that earlier commands left in the store
  None,         \* no file, no id
  Torn,         \* the bytes of an interrupted or mixed copy
  MaxEdits,     \* bound: edits of the sources
  MaxRuns       \* bound: invocations

ArtifactType == [id : Ids, source : Sources,
                 mode : {"external_path", "managed_copy", "managed_symlink"}]

ASSUME ArtifactsAssumption == Artifacts \subseteq ArtifactType
ASSUME BoundsAssumption == MaxEdits \in Nat /\ MaxRuns \in Nat
ASSUME SourcesAssumption ==
  /\ SingleFiles \subseteq Sources
  /\ Contents \in [Sources -> SUBSET Files]
  /\ \E f \in Files : \A s \in SingleFiles : Contents[s] \subseteq {f}
  /\ Sources \cap Ids = {}
  /\ {"absent", "dir", "file"} \cap Sources = {}
ASSUME PlacedAssumption ==
  /\ Placed \in [Ids -> {"absent"} \cup Sources]
  /\ \A i \in Ids : Placed[i] \in Sources =>
       \E a \in Artifacts :
         a.id = i /\ a.mode = "managed_symlink" /\ a.source = Placed[i]

VARIABLES
  files,     \* of every source and of every directory of the store
  place,     \* what the store has at an id: nothing, a directory, a file
             \* or a link
  listed,    \* .copied_files of every directory of the store
  registry,  \* the lines of artifacts.jsonl
  pc,        \* the next step of each process
  call,      \* "command" or "library"
  art,       \* the artifact it was given
  todo,      \* the files it has yet to look at
  copy,      \* the copy2 it is in
  copied,    \* its set copied_files
  edits, runs, \* counters of the bounds
  raced,     \* history: files that were edited, rewritten or stamped by
             \* others while they were copied, and copies of such files
  alone      \* history: nobody else stepped in since it started

proc == <<pc, call, art, todo, copy, copied>>
disk == <<files, place, listed, registry>>
history == <<raced, alone>>
vars == <<disk, proc, edits, runs, history>>

Version == Sources \X (0..MaxEdits)
File == [content : Version \cup Processes \cup {Torn},
         stamp : Version \cup {None}]
Dir == Sources \cup Ids
(* A copy that is under way; plain: it goes to its directory's own path.   *)
Copying == [file : Files, from : Version \cup {Torn}, at : Dir, plain : BOOLEAN]

(* None and Torn are no versions, and a process is not taken for bytes.    *)
ASSUME NamesAssumption ==
  /\ None \notin File /\ None \notin Version
  /\ Processes \cap (Version \cup {Torn}) = {}

Active == {"manage", "copy", "write", "list", "link", "fingerprint", "register"}
Final == {"idle", "done", "failed", "killed"}

TypeOK ==
  /\ files \in [Dir -> [Files -> File \cup {None}]]
  /\ place \in [Ids -> {"absent", "dir", "file"} \cup Sources]
  /\ listed \in [Dir -> SUBSET Files]
  /\ registry \in Seq(Artifacts \cup {None})
  /\ pc \in [Processes -> Active \cup Final]
  /\ call \in [Processes -> {"command", "library"}]
  /\ art \in [Processes -> Artifacts \cup {None}]
  /\ todo \in [Processes -> SUBSET Files]
  /\ copy \in [Processes -> Copying \cup {None}]
  /\ copied \in [Processes -> SUBSET Files]
  /\ edits \in 0..MaxEdits /\ runs \in 0..MaxRuns
  /\ raced \subseteq Dir \X Files
  /\ alone \in [Processes -> BOOLEAN]

Fresh(v) == [content |-> v, stamp |-> v]

Init ==
  /\ files = [d \in Dir |-> [f \in Files |->
       IF d \in Sources /\ f \in Contents[d] THEN Fresh(<<d, 0>>) ELSE None]]
  /\ place = Placed
  /\ listed = [d \in Dir |-> {}]
  /\ registry = <<>>
  /\ pc = [p \in Processes |-> "idle"]
  /\ call = [p \in Processes |-> "command"]
  /\ art = [p \in Processes |-> None]
  /\ todo = [p \in Processes |-> {}] /\ copied = [p \in Processes |-> {}]
  /\ copy = [p \in Processes |-> None]
  /\ edits = 0 /\ runs = 0 /\ raced = {}
  /\ alone = [p \in Processes |-> FALSE]

Goto(p, step) == pc' = [pc EXCEPT ![p] = step]
Has(d) == {f \in Files : files[d][f] # None}
Exists(s) == Has(s) # {}

(* Paths below an id resolve through its link.                             *)
Dest(i) == IF place[i] \in Sources THEN place[i] ELSE i

(* What resolves to d is a file; mkdir accepts what is at i.               *)
IsPlain(d) == d \in SingleFiles \/ (d \in Ids /\ place[d] = "file")
IsUsable(i) == ~IsPlain(Dest(i)) /\ (place[i] \in Sources => Exists(place[i]))

(* A command manages, then registers; the library does either.             *)
Start(p, a) ==
  /\ pc[p] \in Final /\ runs < MaxRuns
  /\ runs' = runs + 1
  /\ art' = [art EXCEPT ![p] = a]
  /\ \/ call' = [call EXCEPT ![p] = "command"] /\ Goto(p, "manage")
     \/ /\ call' = [call EXCEPT ![p] = "library"]
        /\ \E step \in {"manage", "register"} : Goto(p, step)
  /\ alone' = [q \in Processes |-> q = p /\ \A r \in Processes \ {p} : pc[r] \in Final]
  /\ UNCHANGED <<disk, todo, copy, copied, edits, raced>>

(* BenchmarkRunner.run registers the spec's artifact, a record without an  *)
(* artifact_id, and fails on the source_path it does not have.             *)
StartRunner(p) ==
  /\ pc[p] \in Final /\ runs < MaxRuns
  /\ runs' = runs + 1
  /\ registry' = Append(registry, None)
  /\ Goto(p, "failed")
  /\ UNCHANGED <<files, place, listed, call, art, todo, copy, copied, edits, history>>

Managed(p) == IF call[p] = "command" THEN "fingerprint" ELSE "done"

-----------------------------------------------------------------------------
ManageExternal(p) ==
  /\ pc[p] = "manage" /\ art[p].mode = "external_path"
  /\ Goto(p, Managed(p))
  /\ UNCHANGED <<disk, call, art, todo, copy, copied, edits, runs, history>>

(* _copy_artifact makes the directory, reads .copied_files and lists the   *)
(* source.  mkdir accepts a link to a directory and refuses any other.     *)
BeginCopy(p) ==
  LET i == art[p].id
      s == art[p].source
  IN /\ pc[p] = "manage" /\ art[p].mode = "managed_copy"
     /\ IF IsUsable(i)
        THEN /\ place' = [place EXCEPT ![i] = IF @ = "absent" THEN "dir" ELSE @]
             /\ copied' = [copied EXCEPT ![p] = listed[Dest(i)]]
             /\ todo' = [todo EXCEPT ![p] = Has(s)]
             /\ Goto(p, IF Exists(s) THEN "copy" ELSE "failed")
        ELSE Goto(p, "failed") /\ UNCHANGED <<place, copied, todo>>
     /\ UNCHANGED <<files, listed, registry, call, art, copy, edits, runs, history>>

(* _copy_file_incremental: a file that is there with the same mtime and    *)
(* size is skipped; a single file is compared with the id's own path, and  *)
(* so always copied when that is a directory.                              *)
IsCurrent_Present(s, f, d) ==
  s \notin SingleFiles /\ files[s][f] # None /\ files[d][f] # None

IsCurrent(s, f, d) ==
  /\ s \in SingleFiles <=> IsPlain(d)
  /\ files[s][f] # None /\ files[d][f] # None
  /\ s = d \/ files[d][f].stamp \in {files[s][f].stamp} \ {None}

SkipFile(p, f) ==
  /\ pc[p] = "copy" /\ f \in todo[p]
  /\ IsCurrent(art[p].source, f, Dest(art[p].id))
  /\ todo' = [todo EXCEPT ![p] = @ \ {f}]
  /\ UNCHANGED <<disk, pc, call, art, copy, copied, edits, runs, history>>

(* Copies of file f out of, and into, directory d that are under way.      *)
From(d, f) == {q \in Processes : pc[q] = "write" /\ copy[q].file = f /\ art[q].source = d}
Into(d, f) == {q \in Processes : pc[q] = "write" /\ copy[q].file = f /\ copy[q].at = d}
Disturbed(d, f) ==
  {<<copy[q].at, f>> : q \in From(d, f)} \cup IF Into(d, f) = {} THEN {} ELSE {<<d, f>>}

(* copy2 opens both files and truncates the second.                        *)
Opened_Stamped(p, f, d) ==
  [files EXCEPT ![d][f] = [content |-> p, stamp |-> files[art[p].source][f].stamp]]

Opened_Backwards(p, f, d) ==
  [files EXCEPT ![art[p].source][f] = [content |-> p, stamp |-> None]]

Opened(p, f, d) == [files EXCEPT ![d][f] = [content |-> p, stamp |-> None]]

(* A copy into a directory makes it again if the link that was there is    *)
(* gone, and fails when it became a file; a single file takes the id's own *)
(* path if nothing is there.                                               *)
Made(i, s, f) ==
  IF place[i] = "absent" /\ (s \in SingleFiles => files[s][f] # None)
  THEN [place EXCEPT ![i] = IF s \in SingleFiles THEN "file" ELSE "dir"]
  ELSE place

OpenCopy(p, f) ==
  LET i == art[p].id
      s == art[p].source
      d == Dest(i)
      whole == files[s][f].content \notin Processes
  IN /\ pc[p] = "copy" /\ f \in todo[p]
     /\ ~IsCurrent(s, f, d)
     /\ place' = Made(i, s, f)
     /\ IF files[s][f] = None \/ ~(s \in SingleFiles \/ IsUsable(i))
        THEN Goto(p, "failed") /\ UNCHANGED <<files, copy, raced>>
        ELSE /\ Goto(p, "write")
             /\ copy' = [copy EXCEPT ![p] =
                  [file |-> f, from |-> IF whole THEN files[s][f].content ELSE Torn,
                   at |-> d,
                   plain |-> s \in SingleFiles /\ (IsPlain(d) \/ place[i] = "absent")]]
             /\ files' = Opened(p, f, d)
             /\ raced' = raced \cup Disturbed(d, f) \cup
                  IF whole /\ <<s, f>> \notin raced THEN {} ELSE {<<d, f>>}
     /\ UNCHANGED <<listed, registry, call, art, todo, copied, edits, runs, alone>>

(* The bytes are written, mixed with those of an edit or of another copy   *)
(* in between.                                                             *)
Written(p, there, now) ==
  IF /\ there # None /\ there.content = p
     /\ now # None /\ now.content = copy[p].from
  THEN {copy[p].from} ELSE {copy[p].from, Torn}

(* copystat then gives the mtime of the source as it is now to what the    *)
(* path names now, which is another file, of that size or not, if the link *)
(* of the id was replaced; it fails when either is gone.                   *)
CloseCopy(p) ==
  LET c == copy[p]
      f == c.file
      s == art[p].source
      d == Dest(art[p].id)
      there == files[c.at][f]
      now == files[s][f]
      named == files[d][f] # None /\ (d = c.at \/ (IsPlain(d) <=> c.plain))
      folder == c.plain /\ d # c.at /\ IsUsable(art[p].id)
      stamps == IF d \in {c.at, s} THEN {now.stamp} ELSE {now.stamp, None}
  IN /\ pc[p] = "write"
     /\ \E content \in Written(p, there, now) :
          LET filled == IF there = None THEN files
                        ELSE [files EXCEPT ![c.at][f] = [content |-> content, stamp |-> None]]
          IN IF now # None /\ named
             THEN \E stamp \in stamps : files' = [filled EXCEPT ![d][f].stamp = stamp]
             ELSE files' = filled
     /\ Goto(p, IF now # None /\ (named \/ folder) THEN "copy" ELSE "failed")
     /\ todo' = [todo EXCEPT ![p] = @ \ {f}]
     /\ copied' = [copied EXCEPT ![p] = @ \cup {f}]
     /\ copy' = [copy EXCEPT ![p] = None]
     /\ raced' = raced \cup {<<copy[q].at, f>> : q \in From(c.at, f)} \cup
          IF d = c.at THEN {} ELSE {<<d, f>>} \cup {<<copy[q].at, f>> : q \in From(d, f)}
     /\ UNCHANGED <<place, listed, registry, call, art, edits, runs, alone>>

EndCopy(p) ==
  /\ pc[p] = "copy" /\ todo[p] = {}
  /\ Goto(p, "list")
  /\ UNCHANGED <<disk, call, art, todo, copy, copied, edits, runs, history>>

(* .copied_files is written when the source is a directory, which fails    *)
(* where there is no directory any more.                                   *)
List(p) ==
  LET i == art[p].id
      single == art[p].source \in SingleFiles
      there == place[i] # "absent" /\ IsUsable(i)
  IN /\ pc[p] = "list"
     /\ listed' = IF single \/ ~there THEN listed
                  ELSE [listed EXCEPT ![Dest(i)] = copied[p]]
     /\ copied' = [copied EXCEPT ![p] = {}]
     /\ Goto(p, IF single \/ there THEN Managed(p) ELSE "failed")
     /\ UNCHANGED <<files, place, registry, call, art, todo, copy, edits, runs, history>>

(* _symlink_artifact removes what is there, which fails on a directory,    *)
(* then links, which fails on what came meanwhile.                         *)
Unlink(p) ==
  LET i == art[p].id IN
  /\ pc[p] = "manage" /\ art[p].mode = "managed_symlink"
  /\ IF place[i] = "dir" THEN Goto(p, "failed") /\ UNCHANGED <<files, place>>
     ELSE /\ Goto(p, "link")
          /\ place' = [place EXCEPT ![i] = "absent"]
          /\ files' = [files EXCEPT ![i] = [f \in Files |-> None]]
  /\ UNCHANGED <<listed, registry, call, art, todo, copy, copied, edits, runs, history>>

Link(p) ==
  LET i == art[p].id IN
  /\ pc[p] = "link"
  /\ IF place[i] # "absent" THEN Goto(p, "failed") /\ UNCHANGED place
     ELSE Goto(p, Managed(p)) /\ place' = [place EXCEPT ![i] = art[p].source]
  /\ UNCHANGED <<files, listed, registry, call, art, todo, copy, copied, edits, runs, history>>

(* The fingerprint of a source that is there is assigned to a field that   *)
(* ModelArtifact does not have.                                            *)
Fingerprint(p) ==
  /\ pc[p] = "fingerprint"
  /\ Goto(p, IF Exists(art[p].source) THEN "failed" ELSE "register")
  /\ UNCHANGED <<disk, call, art, todo, copy, copied, edits, runs, history>>

(* One line, in one write; the command then fails to dump its manifest.    *)
Register_Id(p) ==
  /\ pc[p] = "register"
  /\ registry' = Append(registry, art[p].id)
  /\ Goto(p, IF call[p] = "command" THEN "failed" ELSE "done")
  /\ UNCHANGED <<files, place, listed, call, art, todo, copy, copied, edits, runs, history>>

Register(p) ==
  /\ pc[p] = "register"
  /\ registry' = Append(registry, art[p])
  /\ Goto(p, IF call[p] = "command" THEN "failed" ELSE "done")
  /\ UNCHANGED <<files, place, listed, call, art, todo, copy, copied, edits, runs, history>>

Kill(p) ==
  /\ pc[p] \in Active
  /\ Goto(p, "killed")
  /\ todo' = [todo EXCEPT ![p] = {}] /\ copied' = [copied EXCEPT ![p] = {}]
  /\ copy' = [copy EXCEPT ![p] = None]
  /\ UNCHANGED <<disk, call, art, edits, runs, history>>

(* The owner of a source rewrites or removes a file.                       *)
Edit(s, f) ==
  /\ files[s][f] # None /\ edits < MaxEdits
  /\ edits' = edits + 1
  /\ \E new \in {None, Fresh(<<s, edits'>>)} : files' = [files EXCEPT ![s][f] = new]
  /\ raced' = raced \cup Disturbed(s, f)
  /\ alone' = [p \in Processes |-> FALSE]
  /\ UNCHANGED <<place, listed, registry, proc, runs>>

-----------------------------------------------------------------------------
Step(p) ==
  \/ ManageExternal(p) \/ BeginCopy(p) \/ EndCopy(p) \/ CloseCopy(p)
  \/ \E f \in Files : SkipFile(p, f) \/ OpenCopy(p, f)
  \/ List(p) \/ Unlink(p) \/ Link(p) \/ Fingerprint(p) \/ Register(p)

Next ==
  \/ \E p \in Processes : Step(p) \/ Kill(p) \/ StartRunner(p)
  \/ \E p \in Processes, a \in Artifacts : Start(p, a)
  \/ \E s \in Sources, f \in Files : Edit(s, f)

Spec == Init /\ [][Next]_vars

-----------------------------------------------------------------------------
(* Incremental copies survive kills: whatever was interrupted, a file that *)
(* a later copy would skip, because its mtime and size are those of the    *)
(* source, holds the source's bytes.  Only a file that was edited, copied  *)
(* to or stamped by somebody else during its copy, or a copy of such a     *)
(* file, may be wrong for good.                                            *)
SkippedIsCurrent ==
  \A s \in Sources, d \in Dir, f \in Files :
    s # d /\ IsCurrent(s, f, d) /\ {<<s, f>>, <<d, f>>} \cap raced = {} =>
      files[d][f].content = files[s][f].content

(* A copy that ran to its end undisturbed holds every file of its source   *)
(* as it is, whatever kills and other copies left there before.            *)
CopyIsCurrent ==
  \A p \in Processes :
    LET s == art[p].source
        d == Dest(art[p].id)
    IN pc[p] = "list" /\ alone[p] =>
         \A f \in Has(s) : {<<s, f>>, <<d, f>>} \cap raced # {} \/
           (files[d][f] # None /\ files[d][f].content = files[s][f].content)

(* An id linked to s, under which another source is copied.                *)
Exposed(s) ==
  \E a, b \in Artifacts :
    /\ a.id = b.id /\ b.source # s
    /\ a.mode = "managed_symlink" /\ a.source = s /\ b.mode = "managed_copy"

(* A copy reaches the files of another source only through a link of the   *)
(* same id.                                                                *)
SourcesKeepTheirFiles ==
  \A s \in Sources, f \in Files :
    files[s][f] # None /\ ~Exposed(s) =>
      files[s][f].content \in {s} \X (0..MaxEdits)
=============================================================================
