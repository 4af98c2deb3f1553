------------------------------ MODULE MCCliRun ------------------------------
(* Small instances of CliRun.                                              *)
EXTENDS CliRun, TLC

CONSTANTS first, second, agent, ghost, smoke, served1, served2, scorer

MCModels == {served1}
MCTwoModels == {served1, served2}
MCConfigured == {agent}
MCAliases == {agent, ghost}
MCSuites == {smoke}

Job(suite, aliases, kinds, n, sizes, styles) ==
  [suite |-> suite, slug |-> TRUE, aliases |-> aliases, kinds |-> kinds,
   runs |-> n, sizes |-> sizes, styles |-> styles]

(* Two invocations of one suite over one directory: a sweep of two context *)
(* sizes and a single run, with records short and long.                    *)
SharedJobs ==
  (first :> Job(smoke, <<agent>>, <<"text">>, 1, 2, 1)) @@
  (second :> Job(smoke, <<agent>>, <<"text">>, 1, 1, 1))

(* An invocation that runs a model twice around an alias nobody            *)
(* configured, with two tasks and two repetitions.                         *)
LoopJobs ==
  (first :> Job(smoke, <<agent, ghost, agent>>,
                <<"function_completion", "patch_generation">>, 2, 1, 1))
=============================================================================
