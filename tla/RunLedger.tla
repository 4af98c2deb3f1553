----------------------------- MODULE RunLedger -----------------------------
(***************************************************************************)
(* What `bench-harness run` promises about its results, whatever storage   *)
(* holds them: each invocation records the cells of its plan, one at a     *)
(* time, in order and each at most once; it finishes only when the plan is *)
(* exhausted; and it may stop at any point before that, keeping what it    *)
(* recorded.                                                               *)
(***************************************************************************)
EXTENDS Sequences, Naturals

CONSTANTS Invocations, Plan     \* Plan[i]: the cells i has to run, in order

VARIABLES
  ledger,     \* ledger[i]: the cells recorded for i
  phase       \* "running", "finished" or "stopped"

ledgerVars == <<ledger, phase>>

Init ==
  /\ ledger = [i \in Invocations |-> <<>>]
  /\ phase = [i \in Invocations |-> "running"]

Record(i) ==
  /\ phase[i] = "running"
  /\ Len(ledger[i]) < Len(Plan[i])
  /\ ledger' = [ledger EXCEPT ![i] = Append(@, Plan[i][Len(@) + 1])]
  /\ UNCHANGED phase

Finish(i) ==
  /\ phase[i] = "running"
  /\ Len(ledger[i]) = Len(Plan[i])
  /\ phase' = [phase EXCEPT ![i] = "finished"]
  /\ UNCHANGED ledger

Stop(i) ==
  /\ phase[i] = "running"
  /\ phase' = [phase EXCEPT ![i] = "stopped"]
  /\ UNCHANGED ledger

Next == \E i \in Invocations : Record(i) \/ Finish(i) \/ Stop(i)

Spec == Init /\ [][Next]_ledgerVars
=============================================================================
