------------------------------ MODULE MCBenchRun ------------------------------
(* Small instances of BenchRun.                                            *)
EXTENDS BenchRun, TLC

CONSTANTS first, other, nightly, modelopt

MCNames == {nightly, modelopt}

Run(name, kind, managed, n) ==
  [name |-> name, kind |-> kind, managed |-> managed, requests |-> n]

(* Two endpoint runs of one name, which share a directory if they start    *)
(* within a second, a managed vLLM server and a stub.                      *)
MCSpecs == {Run(nightly, "openai_compatible", FALSE, 2),
            Run(nightly, "external", TRUE, 1),
            Run(modelopt, "vllm", TRUE, 1),
            Run(modelopt, "trtllm", FALSE, 1)}
=============================================================================
