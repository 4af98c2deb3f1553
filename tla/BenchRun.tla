------------------------------ MODULE BenchRun ------------------------------
(***************************************************************************)
(* Invocations of `bench-run spec.yaml` over one storage root, and the     *)
(* commands that read what they leave: a run directory named after the     *)
(* spec and the second, the runner's lifecycle (prepare, launch, wait,     *)
(* workload, logs), and the result files written one by one.  Invocations  *)
(* are separate processes; each may be killed at any step.  Of a request   *)
(* only that it was answered is kept: the files say nothing else that a    *)
(* later step depends on.                                                  *)
(***************************************************************************)
EXTENDS Naturals, FiniteSets

CONSTANTS
  Invocations,   \* processes running bench-run
  Specs,         \* the specs they may be given, records of SpecType
  Names,         \* run names
  None,          \* no directory, no file
  MaxSecond      \* bound: seconds that pass

Kinds == {"openai_compatible", "external", "vllm", "trtllm", "llamacpp"}
SpecType == [name : Names, kind : Kinds, managed : BOOLEAN, requests : Nat]

ASSUME SpecsAssumption == Specs \subseteq SpecType
ASSUME MaxSecondAssumption == MaxSecond \in Nat

VARIABLES
  spec,      \* the spec each invocation was given
  second,    \* the clock of create_run_dir, in seconds
  pc,        \* the next step of each invocation
  dir,       \* its run directory
  asked,     \* requests answered so far, held in memory
  file,      \* the file it writes next or is writing
  server,    \* the process it launched: "none", "running" or "exited"
  files,     \* the files of every run directory
  reader     \* how the last reading command ended

vars == <<spec, second, pc, dir, asked, file, server, files, reader>>
memory == <<dir, asked, file, server>>

Dirs == Names \X (0..MaxSecond)
FileNames == {"spec", "metrics", "summary", "result"}

(* by: whose bytes a file holds, nobody's after open(.., "w") truncated    *)
(* it, two processes' when both wrote from offset 0.  requests: how many   *)
(* it tells of.  tags: whether it has YAML tags of Python objects.         *)
Content == [by : SUBSET Invocations, requests : Nat, tags : BOOLEAN]

ASSUME NoneAssumption == None \notin Dirs /\ None \notin Content

Final == {"done", "failed", "killed"}
Active == {"mkdir", "open", "close", "prepare", "launch", "ready", "workload",
           "logs"}

TypeOK ==
  /\ spec \in [Invocations -> Specs]
  /\ second \in 0..MaxSecond
  /\ pc \in [Invocations -> Active \cup Final]
  /\ dir \in [Invocations -> Dirs \cup {None}]
  /\ asked \in [Invocations -> Nat]
  /\ file \in [Invocations -> FileNames]
  /\ server \in [Invocations -> {"none", "running", "exited"}]
  /\ files \in [Dirs -> [FileNames -> Content \cup {None}]]
  /\ reader \in {"none", "listed", "refused", "missing", "cut", "tags"}

Init ==
  /\ spec \in [Invocations -> Specs]
  /\ second = 0
  /\ pc = [i \in Invocations |-> "mkdir"]
  /\ dir = [i \in Invocations |-> None]
  /\ asked = [i \in Invocations |-> 0]
  /\ file = [i \in Invocations |-> "spec"]
  /\ server = [i \in Invocations |-> "none"]
  /\ files = [d \in Dirs |-> [f \in FileNames |-> None]]
  /\ reader = "none"

Goto(i, step) == pc' = [pc EXCEPT ![i] = step]

Tick ==
  /\ second < MaxSecond
  /\ second' = second + 1
  /\ UNCHANGED <<spec, pc, memory, files, reader>>

-----------------------------------------------------------------------------
(* create_run_dir: the name, the second and a hash of both; exist_ok.      *)
CreateRunDir(i) ==
  /\ pc[i] = "mkdir"
  /\ dir' = [dir EXCEPT ![i] = <<spec[i].name, second>>]
  /\ Goto(i, "open")
  /\ UNCHANGED <<spec, second, asked, file, server, files, reader>>

(* open(path, "w") and write_text truncate at once; the text is on disk    *)
(* when the file is closed.                                                *)
OpenFile(i) ==
  /\ pc[i] = "open"
  /\ files' = [files EXCEPT ![dir[i]][file[i]] =
                 [by |-> {}, requests |-> 0, tags |-> FALSE]]
  /\ Goto(i, "close")
  /\ UNCHANGED <<spec, second, memory, reader>>

(* The dumped spec keeps its Enum members, which YAML writes as tags.      *)
Written(i, by) == [by |-> by, requests |-> asked[i], tags |-> file[i] = "spec"]

(* write_to_directory's files, in order; a summary is always there.        *)
NextFile_NoSummary == [metrics |-> "result"]
NextFile == [metrics |-> "summary", summary |-> "result"]

(* Going on before the text is flushed.                                    *)
CloseFile_Unflushed(i) ==
  /\ pc[i] = "close"
  /\ IF file[i] \in DOMAIN NextFile
     THEN file' = [file EXCEPT ![i] = NextFile[@]] /\ Goto(i, "open")
     ELSE Goto(i, IF file[i] = "spec" THEN "prepare" ELSE "logs") /\ UNCHANGED file
  /\ UNCHANGED <<spec, second, dir, asked, server, files, reader>>

(* Another process's text of the same file is overwritten or, where it is  *)
(* longer, sticks out.                                                     *)
CloseFile(i) ==
  /\ pc[i] = "close"
  /\ \E by \in {{i}, files[dir[i]][file[i]].by \cup {i}} :
       files' = [files EXCEPT ![dir[i]][file[i]] = Written(i, by)]
  /\ IF file[i] \in DOMAIN NextFile
     THEN file' = [file EXCEPT ![i] = NextFile[@]] /\ Goto(i, "open")
     ELSE Goto(i, IF file[i] = "spec" THEN "prepare" ELSE "logs") /\ UNCHANGED file
  /\ UNCHANGED <<spec, second, dir, asked, server, reader>>

(* prepare of the runner of the spec's kind: the two stubs raise; vllm     *)
(* beside an existing server uses a class it never imported.               *)
Prepares(s) ==
  \/ s.kind \in {"openai_compatible", "external"}
  \/ s.kind = "vllm" /\ s.managed

Prepare_Retries(i) ==
  /\ pc[i] = "prepare"
  /\ Goto(i, IF ~Prepares(spec[i]) THEN "prepare"
             ELSE IF spec[i].managed THEN "launch" ELSE "workload")
  /\ UNCHANGED <<spec, second, memory, files, reader>>

Prepare(i) ==
  /\ pc[i] = "prepare"
  /\ Goto(i, IF ~Prepares(spec[i]) THEN "failed"
             ELSE IF spec[i].managed THEN "launch" ELSE "workload")
  /\ UNCHANGED <<spec, second, memory, files, reader>>

(* The endpoint runners launch nothing; vllm's Popen may raise.            *)
Launch(i) ==
  /\ pc[i] = "launch"
  /\ \/ /\ spec[i].kind # "vllm"
        /\ Goto(i, "workload") /\ UNCHANGED server
     \/ /\ spec[i].kind = "vllm"
        /\ Goto(i, "ready") /\ server' = [server EXCEPT ![i] = "running"]
     \/ /\ spec[i].kind = "vllm"
        /\ Goto(i, "failed") /\ UNCHANGED server
  /\ UNCHANGED <<spec, second, dir, asked, file, files, reader>>

(* VLLMRunner delegates to the class it never imported: NameError, outside *)
(* the try whose finally calls shutdown, which so never sees a process.    *)
WaitUntilReady(i) ==
  /\ pc[i] = "ready"
  /\ Goto(i, "failed")
  /\ UNCHANGED <<spec, second, memory, files, reader>>

(* One request of run_workload; CompletionRunner.run turns errors into     *)
(* results.                                                                *)
Request(i) ==
  /\ pc[i] = "workload" /\ asked[i] < spec[i].requests
  /\ asked' = [asked EXCEPT ![i] = @ + 1]
  /\ UNCHANGED <<spec, second, pc, dir, file, server, files, reader>>

(* run_workload returns, or load_tasks raised before the first request.    *)
FinishWorkload_Partial(i) ==
  /\ pc[i] = "workload"
  /\ Goto(i, "open") /\ file' = [file EXCEPT ![i] = "metrics"]
  /\ UNCHANGED <<spec, second, dir, asked, server, files, reader>>

FinishWorkload(i) ==
  /\ pc[i] = "workload"
  /\ \/ /\ asked[i] = spec[i].requests
        /\ Goto(i, "open") /\ file' = [file EXCEPT ![i] = "metrics"]
     \/ asked[i] = 0 /\ Goto(i, "failed") /\ UNCHANGED file
  /\ UNCHANGED <<spec, second, dir, asked, server, files, reader>>

(* The logs go beside the result files; no command reads them.             *)
CollectLogs(i) ==
  /\ pc[i] = "logs"
  /\ Goto(i, "done")
  /\ UNCHANGED <<spec, second, memory, files, reader>>

Kill(i) ==
  /\ pc[i] \in Active
  /\ Goto(i, "killed")
  /\ UNCHANGED <<spec, second, memory, files, reader>>

ServerExits(i) ==
  /\ server[i] = "running"
  /\ server' = [server EXCEPT ![i] = "exited"]
  /\ UNCHANGED <<spec, second, pc, dir, asked, file, files, reader>>

-----------------------------------------------------------------------------
(* The readers.  json.load needs one process's whole text; yaml.safe_load  *)
(* refuses tags, and gives None, which has no get, for an empty file.      *)
Made == {dir[i] : i \in Invocations} \ {None}
Has(d, f) == files[d][f] # None
Troubles(d, f) ==
  IF ~Has(d, f) THEN {}
  ELSE IF Cardinality(files[d][f].by) # 1 THEN {"cut"}
  ELSE IF files[d][f].tags THEN {"tags"} ELSE {}
Read(troubles) ==
  /\ reader' \in IF troubles = {} THEN {"listed"} ELSE troubles
  /\ UNCHANGED <<spec, second, pc, memory, files>>

ListRuns == Read(UNION {Troubles(d, "spec") : d \in Made})

(* summarize and export-summary visit the directories with a summary;      *)
(* compare takes the first two whose names contain its arguments.          *)
OfSummarized(ds) ==
  UNION {Troubles(d, "summary") \cup Troubles(d, "spec") : d \in ds}

Summarize == Read(OfSummarized({d \in Made : Has(d, "summary")}))

Compare ==
  \/ Read({"refused"})
  \/ \E a, b \in Made :
       Read(IF Has(a, "summary") /\ Has(b, "summary")
            THEN OfSummarized({a, b}) ELSE {"refused"})

(* compare-runs-v2 reads the summaries only, and unasked whether they are  *)
(* there.                                                                  *)
CompareV2 ==
  \/ Read({"refused"})
  \/ \E a, b \in Made :
       Read(UNION {IF Has(d, "summary") THEN Troubles(d, "summary")
                   ELSE {"missing"} : d \in {a, b}})

-----------------------------------------------------------------------------
Step(i) ==
  \/ CreateRunDir(i) \/ OpenFile(i) \/ CloseFile(i) \/ Prepare(i) \/ Launch(i)
  \/ WaitUntilReady(i) \/ Request(i) \/ FinishWorkload(i) \/ CollectLogs(i)

Next ==
  \/ \E i \in Invocations : Step(i) \/ Kill(i) \/ ServerExits(i)
  \/ Tick \/ ListRuns \/ Summarize \/ Compare \/ CompareV2

Spec ==
  /\ Init /\ [][Next]_vars
  /\ \A i \in Invocations : WF_vars(Step(i))

-----------------------------------------------------------------------------
Alone(i) == \A j \in Invocations \ {i} : dir[j] # dir[i]
Whole(d, f, i) == files[d][f] # None /\ files[d][f].by = {i}

(* However many invocations share or abandon a directory, its files were   *)
(* created in order: a result never lies there without the summary, nor a  *)
(* summary without the metrics, nor metrics without the spec they answer.  *)
Before == [metrics |-> "spec", summary |-> "metrics", result |-> "summary"]
FilesInOrder ==
  \A d \in Dirs : \A f \in DOMAIN Before : Has(d, f) => Has(d, Before[f])

(* What a killed run leaves: with a directory to itself, a run's file is   *)
(* whole before the next one is begun, so at most the last may be cut.     *)
OnlyTheLastIsCut ==
  \A i \in Invocations :
    dir[i] # None /\ Alone(i) =>
      \A f \in DOMAIN Before : Has(dir[i], f) => Whole(dir[i], Before[f], i)

(* A run that ended well and had its directory to itself left all its      *)
(* files there, whole, telling of every request of the workload.           *)
DoneIsOnDisk ==
  \A i \in Invocations :
    pc[i] = "done" /\ Alone(i) =>
      \A f \in FileNames :
        /\ Whole(dir[i], f, i)
        /\ f # "spec" => files[dir[i]][f].requests = spec[i].requests

(* Every invocation ends.                                                  *)
EveryRunEnds == \A i \in Invocations : <>(pc[i] \in Final)
=============================================================================
