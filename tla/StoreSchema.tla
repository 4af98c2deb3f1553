----------------------------- MODULE StoreSchema -----------------------------
(***************************************************************************)
(* SQLiteStore.init: every command that stores results first creates the   *)
(* tables that are missing and adds the columns that are missing, each     *)
(* with a statement that commits by itself, on a database that may come    *)
(* from an earlier version and that other commands open at the same time.  *)
(* A command may be killed anywhere.  A statement is refused while another *)
(* command writes for longer than the wait for a lock: that ends a create, *)
(* and is only logged for a column.  Readers (exports, reports, compare)   *)
(* open a database without init.                                           *)
(***************************************************************************)
EXTENDS Integers, FiniteSets, Sequences

CONSTANTS
  Commands,   \* processes that open the database
  Tables,
  Columns,
  Program,    \* the steps of init: records [act, table]
  Created,    \* the columns of each CREATE TABLE
  Migrated,   \* the columns each table is checked for
  Written,    \* the columns of a table a result is stored in
  Versions,   \* the databases init may find: functions from tables to columns
  MaxOpens,   \* bound: how often a command opens the database
  MaxLocks    \* bound: how often a statement is refused for a lock

Missing == {}  \* the columns of a table that does not exist

Full(t) == Created[t] \cup Migrated[t]

ASSUME ProgramAssumption ==
  /\ Program \in Seq([act : {"create", "migrate"}, table : Tables])
  /\ \A t \in Tables : \E k \in 1..Len(Program) : Program[k] = [act |-> "create", table |-> t]
  /\ \A t \in Tables : Migrated[t] # {} =>
       \E k \in 1..Len(Program) : Program[k] = [act |-> "migrate", table |-> t]
  /\ \A k \in 1..Len(Program) : Program[k].act = "migrate" =>
       \E j \in 1..(k - 1) : Program[j] = [act |-> "create", table |-> Program[k].table]
ASSUME ColumnsAssumption ==
  /\ Created \in [Tables -> (SUBSET Columns) \ {{}}]
  /\ Migrated \in [Tables -> SUBSET Columns]
  /\ Written \in [Tables -> SUBSET Columns]
  /\ \A t \in Tables : Written[t] \subseteq Full(t)
ASSUME VersionsAssumption == Versions \subseteq [Tables -> SUBSET Columns]
ASSUME BoundsAssumption == MaxOpens \in Nat /\ MaxLocks \in Nat

VARIABLES
  schema,   \* the columns of each table
  pc,       \* the step of init a command is at, or where it ended
  todo,     \* columns a migration found missing and has not tried to add
  looked,   \* whether the current migration has read the columns
  skipped,  \* columns the command could not add, by table
  opens,    \* how often each command opened the database
  locks,    \* how often a statement was refused
  ready,    \* whether init ran to its end, for any command (no code)
  reads     \* what readers got: "none", "rows" or "refused" by the last read

vars == <<schema, pc, todo, looked, skipped, opens, locks, ready, reads>>

Steps == 1..Len(Program)
AtEnd == Len(Program) + 1
Stopped == {0, -1}  \* not opened or killed; died of an exception
Pairs == {<<t, c>> : t \in Tables, c \in Columns}

TypeOK ==
  /\ schema \in [Tables -> SUBSET Columns]
  /\ pc \in [Commands -> Steps \cup {AtEnd} \cup Stopped]
  /\ todo \in [Commands -> SUBSET Columns]
  /\ looked \in [Commands -> BOOLEAN]
  /\ skipped \in [Commands -> SUBSET Pairs]
  /\ opens \in [Commands -> 0..MaxOpens]
  /\ locks \in 0..MaxLocks
  /\ ready \in BOOLEAN
  /\ reads \in {"none", "rows", "refused"}

Init ==
  /\ schema \in Versions
  /\ pc = [p \in Commands |-> 0]
  /\ todo = [p \in Commands |-> {}]
  /\ looked = [p \in Commands |-> FALSE]
  /\ skipped = [p \in Commands |-> {}]
  /\ opens = [p \in Commands |-> 0]
  /\ locks = 0 /\ ready = FALSE /\ reads = "none"

-----------------------------------------------------------------------------
Open(p) ==
  /\ pc[p] \in Stopped \cup {AtEnd} /\ opens[p] < MaxOpens
  /\ pc' = [pc EXCEPT ![p] = 1]
  /\ todo' = [todo EXCEPT ![p] = {}]
  /\ looked' = [looked EXCEPT ![p] = FALSE]
  /\ skipped' = [skipped EXCEPT ![p] = {}]
  /\ opens' = [opens EXCEPT ![p] = @ + 1]
  /\ UNCHANGED <<schema, locks, ready, reads>>

Advance(p) ==
  /\ pc' = [pc EXCEPT ![p] = @ + 1]
  /\ looked' = [looked EXCEPT ![p] = FALSE]
  /\ ready' = (ready \/ pc[p] = Len(Program))

At(p, act) == pc[p] \in Steps /\ Program[pc[p]].act = act
Here(p) == Program[pc[p]].table

(* CREATE TABLE IF NOT EXISTS.                                             *)
CreateTable(p) ==
  /\ At(p, "create")
  /\ schema' = [schema EXCEPT ![Here(p)] = IF @ = Missing THEN Created[Here(p)] ELSE @]
  /\ Advance(p)
  /\ UNCHANGED <<todo, skipped, opens, locks, reads>>

RefuseTable_Logged(p) ==
  /\ At(p, "create") /\ locks < MaxLocks
  /\ Advance(p)
  /\ locks' = locks + 1
  /\ UNCHANGED <<schema, todo, skipped, opens, reads>>

RefuseTable(p) ==
  /\ At(p, "create") /\ locks < MaxLocks
  /\ pc' = [pc EXCEPT ![p] = -1]
  /\ locks' = locks + 1
  /\ UNCHANGED <<schema, todo, looked, skipped, opens, ready, reads>>

LookAtColumns_OfFirstTable(p) ==
  /\ At(p, "migrate") /\ ~looked[p]
  /\ todo' = [todo EXCEPT ![p] = Migrated[Here(p)] \ schema[Program[1].table]]
  /\ looked' = [looked EXCEPT ![p] = TRUE]
  /\ UNCHANGED <<schema, pc, skipped, opens, locks, ready, reads>>

(* The columns are read once, before the first is added.                   *)
LookAtColumns(p) ==
  /\ At(p, "migrate") /\ ~looked[p]
  /\ todo' = [todo EXCEPT ![p] = Migrated[Here(p)] \ schema[Here(p)]]
  /\ looked' = [looked EXCEPT ![p] = TRUE]
  /\ UNCHANGED <<schema, pc, skipped, opens, locks, ready, reads>>

AddColumn_StopsAtError(p) ==
  /\ At(p, "migrate") /\ looked[p]
  /\ \E c \in todo[p] :
       /\ schema' = [schema EXCEPT ![Here(p)] = @ \cup {c}]
       /\ todo' = [todo EXCEPT ![p] = IF c \in schema[Here(p)] THEN {} ELSE @ \ {c}]
  /\ UNCHANGED <<pc, looked, skipped, opens, locks, ready, reads>>

AddColumn_Retries(p) ==
  /\ At(p, "migrate") /\ looked[p]
  /\ \E c \in todo[p] :
       /\ schema' = [schema EXCEPT ![Here(p)] = @ \cup {c}]
       /\ todo' = [todo EXCEPT ![p] = IF c \in schema[Here(p)] THEN @ ELSE @ \ {c}]
  /\ UNCHANGED <<pc, looked, skipped, opens, locks, ready, reads>>

(* ALTER TABLE, whose error is caught if another command was faster.  The  *)
(* order of the columns is left open.                                      *)
AddColumn(p) ==
  /\ At(p, "migrate") /\ looked[p]
  /\ \E c \in todo[p] :
       /\ schema' = [schema EXCEPT ![Here(p)] = @ \cup {c}]
       /\ todo' = [todo EXCEPT ![p] = @ \ {c}]
  /\ UNCHANGED <<pc, looked, skipped, opens, locks, ready, reads>>

RefuseColumn(p) ==
  /\ At(p, "migrate") /\ looked[p] /\ locks < MaxLocks
  /\ \E c \in todo[p] :
       /\ todo' = [todo EXCEPT ![p] = @ \ {c}]
       /\ skipped' = [skipped EXCEPT ![p] = @ \cup {<<Here(p), c>>}]
  /\ locks' = locks + 1
  /\ UNCHANGED <<schema, pc, looked, opens, ready, reads>>

EndMigration(p) ==
  /\ At(p, "migrate") /\ looked[p] /\ todo[p] = {}
  /\ Advance(p)
  /\ UNCHANGED <<schema, todo, skipped, opens, locks, reads>>

(* save_run: an insert is refused if the table lacks a column.             *)
Accepts(t) == Written[t] \subseteq schema[t]

SaveRun(p) ==
  /\ pc[p] = AtEnd
  /\ pc' = [pc EXCEPT ![p] = IF \A t \in Tables : Accepts(t) THEN AtEnd ELSE -1]
  /\ UNCHANGED <<schema, todo, looked, skipped, opens, locks, ready, reads>>

(* A reader, of all tables.                                                *)
Read ==
  /\ reads' = IF \A t \in Tables : schema[t] # Missing THEN "rows" ELSE "refused"
  /\ UNCHANGED <<schema, pc, todo, looked, skipped, opens, locks, ready>>

Kill(p) ==
  /\ pc[p] \in Steps
  /\ pc' = [pc EXCEPT ![p] = 0]
  /\ UNCHANGED <<schema, todo, looked, skipped, opens, locks, ready, reads>>

InitStep(p) ==
  CreateTable(p) \/ RefuseTable(p) \/ LookAtColumns(p) \/ AddColumn(p)
  \/ RefuseColumn(p) \/ EndMigration(p)

Next == (\E p \in Commands : Open(p) \/ InitStep(p) \/ SaveRun(p) \/ Kill(p)) \/ Read

Spec == Init /\ [][Next]_vars /\ \A p \in Commands : WF_vars(InitStep(p))

-----------------------------------------------------------------------------
(* A command whose init ran to its end has a complete schema but for the   *)
(* columns it was itself refused: no other command, at whatever step it is *)
(* or was killed, and no column another was faster with, takes one away.   *)
InitCompletes ==
  \A p \in Commands : pc[p] = AtEnd =>
    \A t \in Tables : Migrated[t] \subseteq schema[t] \cup {c \in Columns : <<t, c>> \in skipped[p]}

(* A table that lacks nothing but what init adds.                          *)
Migratable(t) == Created[t] \subseteq schema[t] \cup Migrated[t]

(* save_run dies only of a column its own command could not add, or of a   *)
(* table from before a column that only CREATE TABLE has; whatever other   *)
(* commands do to the database meanwhile.                                  *)
RefusalsAreOwn ==
  [][\A p \in Commands : pc[p] = AtEnd /\ pc'[p] = -1 =>
       skipped[p] # {} \/ \E t \in Tables : ~Migratable(t)]_vars

(* A reader is refused only before any command's init ran to its end.      *)
ReadersAreServed == [][Read /\ reads' = "refused" => ~ready]_vars

(* Every init ends: at its end, killed, or refused.                        *)
EveryInitEnds == \A p \in Commands : pc[p] \in Steps ~> pc[p] \notin Steps

(* milestones/m09: "Add migration for run_timings table context_tokens and *)
(* estimated_prompt_tokens columns", so that a database of an earlier      *)
(* version takes results again once init ran without a refusal.            *)
OldDatabasesTakeResults ==
  \A p \in Commands : pc[p] = AtEnd /\ skipped[p] = {} => \A t \in Tables : Accepts(t)
=============================================================================
