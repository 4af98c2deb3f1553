-------------------------- MODULE StoreSchemaProofs --------------------------
(***************************************************************************)
(* Proofs about StoreSchema for any commands, tables, columns, program of  *)
(* init and number of openings and refusals.  What a command has seen to   *)
(* stays so, because no step takes a column away: the tables of the steps  *)
(* behind it exist, and have the columns those steps check for but for the *)
(* ones it was refused; and what the migration it is at has still to do is *)
(* in its todo, in the table, or refused.                                  *)
(***************************************************************************)
EXTENDS StoreSchema, SequenceTheorems, TLAPS

Refused(p, t) == {c \in Columns : <<t, c>> \in skipped[p]}
TableOf(j) == Program[j].table

CreatedBehind(p) ==
  \A j \in Steps : j < pc[p] /\ Program[j].act = "create" => schema[TableOf(j)] # Missing
MigratedBehind(p) ==
  \A j \in Steps : j < pc[p] /\ Program[j].act = "migrate" =>
    Migrated[TableOf(j)] \subseteq schema[TableOf(j)] \cup Refused(p, TableOf(j))
TodoCovers(p) ==
  At(p, "migrate") /\ looked[p] =>
    Migrated[Here(p)] \subseteq schema[Here(p)] \cup todo[p] \cup Refused(p, Here(p))

StepsAt(p) == CreatedBehind(p) /\ MigratedBehind(p) /\ TodoCovers(p)

StepsInv == \A p \in Commands : StepsAt(p)
ReadyInv == ready => \A t \in Tables : schema[t] # Missing

IInv == TypeOK /\ StepsInv /\ ReadyInv

-----------------------------------------------------------------------------
(* The program of init is a sequence of creates and migrations.            *)
LEMMA ProgramType ==
  /\ Len(Program) \in Nat
  /\ \A j \in Steps : Program[j].act \in {"create", "migrate"} /\ TableOf(j) \in Tables
  /\ AtEnd \notin Steps /\ AtEnd \in Nat /\ Steps \subseteq Nat
<1>1. Len(Program) \in Nat
  BY ProgramAssumption
<1>2. ASSUME NEW j \in Steps
      PROVE Program[j].act \in {"create", "migrate"} /\ TableOf(j) \in Tables
  <2>1. Program[j] \in [act : {"create", "migrate"}, table : Tables]
    BY ProgramAssumption, ElementOfSeq DEF Steps
  <2> QED BY <2>1 DEF TableOf
<1> QED BY <1>1, <1>2 DEF Steps, AtEnd

LEMMA InitIInv == Init => IInv
<1> SUFFICES ASSUME Init PROVE IInv
  OBVIOUS
<1>1. TypeOK
  <2>1. schema \in [Tables -> SUBSET Columns]
    BY VersionsAssumption DEF Init
  <2>2. 0 \in 0..MaxOpens /\ 0 \in 0..MaxLocks
    BY BoundsAssumption
  <2> QED BY <2>1, <2>2 DEF Init, TypeOK, Stopped
<1>2. StepsInv
  <2> SUFFICES ASSUME NEW p \in Commands PROVE StepsAt(p)
    BY DEF StepsInv
  <2>1. pc[p] = 0 /\ looked[p] = FALSE
    BY DEF Init
  <2> QED BY <2>1 DEF StepsAt, CreatedBehind, MigratedBehind, TodoCovers, Steps
<1> QED BY <1>1, <1>2 DEF IInv, ReadyInv, Init

(* A command at a step is at a step that counts, of a table.               *)
LEMMA AtStep ==
  ASSUME TypeOK, NEW p \in Commands, NEW act, At(p, act)
  PROVE /\ pc[p] \in Steps /\ pc[p] \in Nat /\ Here(p) \in Tables /\ Here(p) = TableOf(pc[p])
        /\ pc[p] + 1 \in Steps \cup {AtEnd}
        /\ pc[p] + 1 = AtEnd <=> pc[p] = Len(Program)
BY ProgramType DEF At, Here, TableOf, Steps, AtEnd

LEMMA AdvanceType ==
  ASSUME TypeOK, NEW p \in Commands, NEW act, At(p, act), Advance(p)
  PROVE /\ pc' \in [Commands -> Steps \cup {AtEnd} \cup Stopped]
        /\ looked' \in [Commands -> BOOLEAN] /\ ready' \in BOOLEAN
<1>1. pc[p] + 1 \in Steps \cup {AtEnd}
  BY AtStep
<1>2. pc' \in [Commands -> Steps \cup {AtEnd} \cup Stopped]
  BY <1>1 DEF TypeOK, Advance
<1>3. looked' \in [Commands -> BOOLEAN]
  BY DEF TypeOK, Advance
<1>4. ready' \in BOOLEAN
  BY DEF TypeOK, Advance
<1> QED BY <1>2, <1>3, <1>4

(* Every step keeps the types.                                             *)
LEMMA StepTypeOK == TypeOK /\ [Next]_vars => TypeOK'
<1> SUFFICES ASSUME TypeOK, [Next]_vars PROVE TypeOK'
  OBVIOUS
<1>1. ASSUME NEW p \in Commands, Open(p) PROVE TypeOK'
  <2>1. 1 \in Steps \cup {AtEnd}
    BY ProgramType DEF Steps, AtEnd
  <2>2. opens[p] + 1 \in 0..MaxOpens
    BY <1>1, BoundsAssumption DEF TypeOK, Open
  <2> QED BY <1>1, <2>1, <2>2 DEF TypeOK, Open
<1>2. ASSUME NEW p \in Commands, CreateTable(p) PROVE TypeOK'
  <2>1. At(p, "create") /\ Advance(p)
    BY <1>2 DEF CreateTable
  <2>2. Here(p) \in Tables
    BY <2>1, AtStep
  <2>3. schema' \in [Tables -> SUBSET Columns]
    BY <1>2, <2>2, ColumnsAssumption DEF TypeOK, CreateTable
  <2>4. /\ pc' \in [Commands -> Steps \cup {AtEnd} \cup Stopped]
        /\ looked' \in [Commands -> BOOLEAN] /\ ready' \in BOOLEAN
    BY <2>1, AdvanceType
  <2> QED BY <1>2, <2>3, <2>4 DEF TypeOK, CreateTable
<1>3. ASSUME NEW p \in Commands, RefuseTable(p) PROVE TypeOK'
  <2>1. locks + 1 \in 0..MaxLocks
    BY <1>3, BoundsAssumption DEF TypeOK, RefuseTable
  <2> QED BY <1>3, <2>1 DEF TypeOK, RefuseTable, Stopped
<1>4. ASSUME NEW p \in Commands, LookAtColumns(p) PROVE TypeOK'
  <2>1. Here(p) \in Tables
    BY <1>4, AtStep DEF LookAtColumns
  <2>2. Migrated[Here(p)] \ schema[Here(p)] \in SUBSET Columns
    BY <2>1, ColumnsAssumption
  <2> QED BY <1>4, <2>2 DEF TypeOK, LookAtColumns
<1>5. ASSUME NEW p \in Commands, AddColumn(p) PROVE TypeOK'
  <2>1. Here(p) \in Tables
    BY <1>5, AtStep DEF AddColumn
  <2>2. PICK c \in todo[p] : /\ schema' = [schema EXCEPT ![Here(p)] = @ \cup {c}]
                             /\ todo' = [todo EXCEPT ![p] = @ \ {c}]
    BY <1>5 DEF AddColumn
  <2>3. c \in Columns
    BY <2>2 DEF TypeOK
  <2>4. schema' \in [Tables -> SUBSET Columns]
    BY <2>1, <2>2, <2>3 DEF TypeOK
  <2>5. todo' \in [Commands -> SUBSET Columns]
    BY <2>2 DEF TypeOK
  <2> QED BY <1>5, <2>4, <2>5 DEF TypeOK, AddColumn
<1>6. ASSUME NEW p \in Commands, RefuseColumn(p) PROVE TypeOK'
  <2>1. Here(p) \in Tables
    BY <1>6, AtStep DEF RefuseColumn
  <2>2. PICK c \in todo[p] : /\ todo' = [todo EXCEPT ![p] = @ \ {c}]
                             /\ skipped' = [skipped EXCEPT ![p] = @ \cup {<<Here(p), c>>}]
    BY <1>6 DEF RefuseColumn
  <2>3. <<Here(p), c>> \in Pairs
    BY <2>1, <2>2 DEF TypeOK, Pairs
  <2>4. skipped' \in [Commands -> SUBSET Pairs]
    BY <2>2, <2>3 DEF TypeOK
  <2>5. todo' \in [Commands -> SUBSET Columns]
    BY <2>2 DEF TypeOK
  <2>6. locks + 1 \in 0..MaxLocks
    BY <1>6, BoundsAssumption DEF TypeOK, RefuseColumn
  <2> QED BY <1>6, <2>4, <2>5, <2>6 DEF TypeOK, RefuseColumn
<1>7. ASSUME NEW p \in Commands, EndMigration(p) PROVE TypeOK'
  <2>1. At(p, "migrate") /\ Advance(p)
    BY <1>7 DEF EndMigration
  <2>2. /\ pc' \in [Commands -> Steps \cup {AtEnd} \cup Stopped]
        /\ looked' \in [Commands -> BOOLEAN] /\ ready' \in BOOLEAN
    BY <2>1, AdvanceType
  <2> QED BY <1>7, <2>2 DEF TypeOK, EndMigration
<1>8. ASSUME NEW p \in Commands, SaveRun(p) PROVE TypeOK'
  BY <1>8 DEF TypeOK, SaveRun, Stopped
<1>9. ASSUME NEW p \in Commands, Kill(p) PROVE TypeOK'
  BY <1>9 DEF TypeOK, Kill, Stopped
<1>10. ASSUME Read PROVE TypeOK'
  BY <1>10 DEF TypeOK, Read
<1>11. ASSUME UNCHANGED vars PROVE TypeOK'
  BY <1>11 DEF TypeOK, vars
<1> QED BY <1>1, <1>2, <1>3, <1>4, <1>5, <1>6, <1>7, <1>8, <1>9, <1>10, <1>11 DEF Next, InitStep

-----------------------------------------------------------------------------
(* No step takes a column away.                                            *)
LEMMA SchemaGrows ==
  TypeOK /\ [Next]_vars => \A t \in Tables : schema[t] \subseteq schema'[t]
<1> SUFFICES ASSUME TypeOK, [Next]_vars, NEW t \in Tables PROVE schema[t] \subseteq schema'[t]
  OBVIOUS
<1>1. ASSUME NEW p \in Commands, CreateTable(p) PROVE schema[t] \subseteq schema'[t]
  BY <1>1 DEF TypeOK, CreateTable, Missing
<1>2. ASSUME NEW p \in Commands, AddColumn(p) PROVE schema[t] \subseteq schema'[t]
  BY <1>2 DEF TypeOK, AddColumn
<1>3. CASE UNCHANGED schema
  BY <1>3
<1>4. ASSUME NEW p \in Commands,
             Open(p) \/ RefuseTable(p) \/ LookAtColumns(p) \/ RefuseColumn(p)
               \/ EndMigration(p) \/ SaveRun(p) \/ Kill(p)
      PROVE UNCHANGED schema
  BY <1>4 DEF Open, RefuseTable, LookAtColumns, RefuseColumn, EndMigration, SaveRun, Kill
<1>5. Read \/ UNCHANGED vars => UNCHANGED schema
  BY DEF Read, vars
<1> QED BY <1>1, <1>2, <1>3, <1>4, <1>5 DEF Next, InitStep

(* A command that does not move keeps what it has seen to.                 *)
LEMMA StillKeeps ==
  ASSUME TypeOK, NEW q \in Commands, StepsAt(q),
         pc'[q] = pc[q], todo'[q] = todo[q], looked'[q] = looked[q], skipped'[q] = skipped[q],
         \A t \in Tables : schema[t] \subseteq schema'[t]
  PROVE StepsAt(q)'
<1>1. CreatedBehind(q)'
  BY ProgramType DEF StepsAt, CreatedBehind, Missing
<1>2. MigratedBehind(q)'
  <2> SUFFICES ASSUME NEW j \in Steps, j < pc[q], Program[j].act = "migrate"
               PROVE Migrated[TableOf(j)] \subseteq schema'[TableOf(j)] \cup Refused(q, TableOf(j))'
    BY DEF MigratedBehind, TableOf, Refused
  <2>1. TableOf(j) \in Tables
    BY ProgramType
  <2>2. Migrated[TableOf(j)] \subseteq schema[TableOf(j)] \cup Refused(q, TableOf(j))
    BY DEF StepsAt, MigratedBehind
  <2>3. Refused(q, TableOf(j))' = Refused(q, TableOf(j))
    BY DEF Refused, TableOf
  <2> QED BY <2>1, <2>2, <2>3
<1>3. TodoCovers(q)'
  <2> SUFFICES ASSUME At(q, "migrate"), looked[q]
               PROVE Migrated[Here(q)] \subseteq schema'[Here(q)] \cup todo[q] \cup Refused(q, Here(q))
    BY DEF TodoCovers, At, Here, Refused
  <2>1. Here(q) \in Tables
    BY AtStep
  <2>2. Migrated[Here(q)] \subseteq schema[Here(q)] \cup todo[q] \cup Refused(q, Here(q))
    BY DEF StepsAt, TodoCovers
  <2> QED BY <2>1, <2>2
<1> QED BY <1>1, <1>2, <1>3 DEF StepsAt

(* A command that begins, stops or dies has seen to nothing.               *)
LEMMA StoppedKeeps ==
  ASSUME NEW q \in Commands, pc'[q] \in {-1, 0} \/ (pc'[q] = 1 /\ looked'[q] = FALSE)
  PROVE StepsAt(q)'
<1>1. \A j \in Steps : ~(j < pc'[q])
  BY ProgramType DEF Steps
<1>2. ~(At(q, "migrate")' /\ looked'[q])
  BY ProgramType DEF At, Steps
<1> QED BY <1>1, <1>2 DEF StepsAt, CreatedBehind, MigratedBehind, TodoCovers

(* A command that moves on has also seen to the step it was at.            *)
LEMMA AdvanceKeeps ==
  ASSUME TypeOK, NEW q \in Commands, NEW act, StepsAt(q), At(q, act), Advance(q),
         todo'[q] = todo[q], skipped'[q] = skipped[q],
         \A t \in Tables : schema[t] \subseteq schema'[t],
         act = "create" => schema'[Here(q)] # Missing,
         act = "migrate" => Migrated[Here(q)] \subseteq schema'[Here(q)] \cup Refused(q, Here(q))
  PROVE StepsAt(q)'
<1>1. /\ pc[q] \in Steps /\ pc[q] \in Nat /\ pc'[q] = pc[q] + 1 /\ looked'[q] = FALSE
      /\ Here(q) = TableOf(pc[q]) /\ Program[pc[q]].act = act
  BY AtStep DEF Advance, TypeOK, At
<1>2. \A j \in Steps : j < pc'[q] => j < pc[q] \/ j = pc[q]
  BY <1>1, ProgramType
<1>3. CreatedBehind(q)'
  <2> SUFFICES ASSUME NEW j \in Steps, j < pc'[q], Program[j].act = "create"
               PROVE schema'[TableOf(j)] # Missing
    BY DEF CreatedBehind, TableOf, Missing
  <2>1. TableOf(j) \in Tables
    BY ProgramType
  <2>2. CASE j < pc[q]
    BY <2>1, <2>2 DEF StepsAt, CreatedBehind, Missing
  <2>3. CASE j = pc[q]
    BY <1>1, <2>3 DEF Missing
  <2> QED BY <1>2, <2>2, <2>3
<1>4. MigratedBehind(q)'
  <2> SUFFICES ASSUME NEW j \in Steps, j < pc'[q], Program[j].act = "migrate"
               PROVE Migrated[TableOf(j)] \subseteq schema'[TableOf(j)] \cup Refused(q, TableOf(j))'
    BY DEF MigratedBehind, TableOf, Refused
  <2>1. TableOf(j) \in Tables
    BY ProgramType
  <2>2. Refused(q, TableOf(j))' = Refused(q, TableOf(j))
    BY DEF Refused, TableOf
  <2>3. CASE j < pc[q]
    BY <2>1, <2>2, <2>3 DEF StepsAt, MigratedBehind
  <2>4. CASE j = pc[q]
    BY <1>1, <2>2, <2>4
  <2> QED BY <1>2, <2>3, <2>4
<1>5. TodoCovers(q)'
  BY <1>1 DEF TodoCovers
<1> QED BY <1>3, <1>4, <1>5 DEF StepsAt

(* Each action keeps what every command has seen to.                       *)
LEMMA StepStepsInv == TypeOK /\ StepsInv /\ [Next]_vars => StepsInv'
<1> SUFFICES ASSUME TypeOK, StepsInv, [Next]_vars, NEW q \in Commands PROVE StepsAt(q)'
  BY DEF StepsInv
<1>1. \A t \in Tables : schema[t] \subseteq schema'[t]
  BY SchemaGrows
<1>2. StepsAt(q)
  BY DEF StepsInv
<1>3. ASSUME pc'[q] = pc[q], todo'[q] = todo[q], looked'[q] = looked[q], skipped'[q] = skipped[q]
      PROVE StepsAt(q)'
  BY <1>1, <1>2, <1>3, StillKeeps
<1>4. ASSUME NEW p \in Commands, p # q,
             Open(p) \/ InitStep(p) \/ SaveRun(p) \/ Kill(p)
      PROVE StepsAt(q)'
  <2>1. pc'[q] = pc[q] /\ looked'[q] = looked[q]
    BY <1>4 DEF TypeOK, Open, InitStep, CreateTable, RefuseTable, LookAtColumns, AddColumn,
       RefuseColumn, EndMigration, SaveRun, Kill, Advance
  <2>2. todo'[q] = todo[q] /\ skipped'[q] = skipped[q]
    BY <1>4 DEF TypeOK, Open, InitStep, CreateTable, RefuseTable, LookAtColumns, AddColumn,
       RefuseColumn, EndMigration, SaveRun, Kill
  <2> QED BY <2>1, <2>2, <1>3
<1>5. ASSUME Open(q) PROVE StepsAt(q)'
  <2>1. pc'[q] = 1 /\ looked'[q] = FALSE
    BY <1>5 DEF TypeOK, Open
  <2> QED BY <2>1, StoppedKeeps
<1>6. ASSUME CreateTable(q) PROVE StepsAt(q)'
  <2>1. At(q, "create") /\ Advance(q) /\ todo'[q] = todo[q] /\ skipped'[q] = skipped[q]
    BY <1>6 DEF CreateTable
  <2>2. Here(q) \in Tables
    BY <2>1, AtStep
  <2>3. schema'[Here(q)] # Missing
    <3>1. Created[Here(q)] # Missing
      BY <2>2, ColumnsAssumption DEF Missing
    <3> QED BY <1>6, <2>2, <3>1 DEF TypeOK, CreateTable
  <2> QED BY <1>1, <1>2, <2>1, <2>3, AdvanceKeeps
<1>7. ASSUME RefuseTable(q) PROVE StepsAt(q)'
  <2>1. pc'[q] \in {-1, 0}
    BY <1>7 DEF TypeOK, RefuseTable
  <2> QED BY <2>1, StoppedKeeps
<1>8. ASSUME LookAtColumns(q) PROVE StepsAt(q)'
  <2>1. /\ pc' = pc /\ skipped' = skipped /\ schema' = schema
        /\ todo'[q] = Migrated[Here(q)] \ schema[Here(q)]
    BY <1>8 DEF TypeOK, LookAtColumns
  <2>2. TodoCovers(q)'
    BY <2>1 DEF TodoCovers, Here
  <2>3. CreatedBehind(q)' /\ MigratedBehind(q)'
    BY <1>2, <2>1 DEF StepsAt, CreatedBehind, MigratedBehind, TableOf, Refused
  <2> QED BY <2>2, <2>3 DEF StepsAt
<1>9. ASSUME AddColumn(q) PROVE StepsAt(q)'
  <2>1. /\ At(q, "migrate") /\ looked[q] /\ pc' = pc /\ skipped' = skipped
        /\ Here(q)' = Here(q) /\ Refused(q, Here(q))' = Refused(q, Here(q))
    BY <1>9 DEF AddColumn, Here, Refused
  <2>2. Here(q) \in Tables
    BY <2>1, AtStep
  <2>3. PICK c \in todo[q] : /\ schema' = [schema EXCEPT ![Here(q)] = @ \cup {c}]
                             /\ todo' = [todo EXCEPT ![q] = @ \ {c}]
    BY <1>9 DEF AddColumn
  <2>4. schema'[Here(q)] = schema[Here(q)] \cup {c} /\ todo'[q] = todo[q] \ {c}
    BY <2>2, <2>3 DEF TypeOK
  <2>5. TodoCovers(q)'
    BY <1>2, <2>1, <2>4 DEF StepsAt, TodoCovers
  <2>6. CreatedBehind(q)' /\ MigratedBehind(q)'
    <3>1. ASSUME NEW j \in Steps PROVE schema[TableOf(j)] \subseteq schema'[TableOf(j)]
      BY <1>1, ProgramType
    <3>2. CreatedBehind(q)'
      BY <1>2, <2>1, <3>1 DEF StepsAt, CreatedBehind, TableOf, Missing
    <3>3. MigratedBehind(q)'
      BY <1>2, <2>1, <3>1 DEF StepsAt, MigratedBehind, TableOf, Refused
    <3> QED BY <3>2, <3>3
  <2> QED BY <2>5, <2>6 DEF StepsAt
<1>10. ASSUME RefuseColumn(q) PROVE StepsAt(q)'
  <2>1. At(q, "migrate") /\ looked[q] /\ pc' = pc /\ schema' = schema /\ Here(q)' = Here(q)
    BY <1>10 DEF RefuseColumn, Here
  <2>2. PICK c \in todo[q] : /\ todo' = [todo EXCEPT ![q] = @ \ {c}]
                             /\ skipped' = [skipped EXCEPT ![q] = @ \cup {<<Here(q), c>>}]
    BY <1>10 DEF RefuseColumn
  <2>3. c \in Columns /\ todo'[q] = todo[q] \ {c}
        /\ skipped'[q] = skipped[q] \cup {<<Here(q), c>>}
    BY <2>2 DEF TypeOK
  <2>4. \A t \in Tables : Refused(q, t) \subseteq Refused(q, t)'
    BY <2>3 DEF Refused
  <2>5. c \in Refused(q, Here(q))' /\ Here(q) \in Tables
    BY <2>1, <2>3, AtStep DEF Refused
  <2>6. TodoCovers(q)'
    BY <1>2, <2>1, <2>3, <2>4, <2>5 DEF StepsAt, TodoCovers
  <2>7. CreatedBehind(q)'
    BY <1>2, <2>1 DEF StepsAt, CreatedBehind, TableOf
  <2>8. MigratedBehind(q)'
    <3> SUFFICES ASSUME NEW j \in Steps, j < pc[q], Program[j].act = "migrate"
                 PROVE Migrated[TableOf(j)] \subseteq schema[TableOf(j)] \cup Refused(q, TableOf(j))'
      BY <2>1 DEF MigratedBehind, TableOf, Refused
    <3>1. TableOf(j) \in Tables
      BY ProgramType
    <3>2. Migrated[TableOf(j)] \subseteq schema[TableOf(j)] \cup Refused(q, TableOf(j))
      BY <1>2 DEF StepsAt, MigratedBehind
    <3> QED BY <2>4, <3>1, <3>2
  <2> QED BY <2>6, <2>7, <2>8 DEF StepsAt
<1>11. ASSUME EndMigration(q) PROVE StepsAt(q)'
  <2>1. /\ At(q, "migrate") /\ Advance(q) /\ todo'[q] = todo[q] /\ skipped'[q] = skipped[q]
        /\ looked[q] /\ todo[q] = {} /\ schema' = schema
    BY <1>11 DEF EndMigration
  <2>2. Migrated[Here(q)] \subseteq schema'[Here(q)] \cup Refused(q, Here(q))
    BY <1>2, <2>1 DEF StepsAt, TodoCovers
  <2> QED BY <1>1, <1>2, <2>1, <2>2, AdvanceKeeps
<1>12. ASSUME SaveRun(q) PROVE StepsAt(q)'
  <2>1. pc'[q] = -1 \/ pc'[q] = pc[q]
    BY <1>12 DEF TypeOK, SaveRun
  <2>2. todo'[q] = todo[q] /\ looked'[q] = looked[q] /\ skipped'[q] = skipped[q]
    BY <1>12 DEF SaveRun
  <2> QED BY <2>1, <2>2, <1>3, StoppedKeeps
<1>13. ASSUME Kill(q) PROVE StepsAt(q)'
  <2>1. pc'[q] = 0
    BY <1>13 DEF TypeOK, Kill
  <2> QED BY <2>1, StoppedKeeps
<1>14. ASSUME Read \/ UNCHANGED vars PROVE StepsAt(q)'
  <2>1. pc'[q] = pc[q] /\ todo'[q] = todo[q] /\ looked'[q] = looked[q] /\ skipped'[q] = skipped[q]
    BY <1>14 DEF Read, vars
  <2> QED BY <2>1, <1>3
<1>15. CASE \E p \in Commands : Open(p) \/ InitStep(p) \/ SaveRun(p) \/ Kill(p)
  BY <1>15, <1>4, <1>5, <1>6, <1>7, <1>8, <1>9, <1>10, <1>11, <1>12, <1>13 DEF InitStep
<1> QED BY <1>14, <1>15 DEF Next

(* Only the command whose init comes to its end makes the store ready, and *)
(* it has created every table.                                             *)
LEMMA StepReadyInv ==
  TypeOK /\ TypeOK' /\ StepsInv' /\ ReadyInv /\ [Next]_vars => ReadyInv'
<1> SUFFICES ASSUME TypeOK, TypeOK', StepsInv', ReadyInv, [Next]_vars, ready',
                    NEW t \in Tables
             PROVE schema'[t] # Missing
  BY DEF ReadyInv, Missing
<1>1. CASE ready
  BY <1>1, SchemaGrows DEF ReadyInv, Missing
<1>2. CASE ~ready
  <2>1. PICK p \in Commands : CreateTable(p) \/ EndMigration(p)
    BY <1>2 DEF Next, InitStep, Open, RefuseTable, LookAtColumns, AddColumn, RefuseColumn,
       SaveRun, Kill, Read, vars
  <2>2. Advance(p) /\ \E act \in {"create", "migrate"} : At(p, act)
    BY <2>1 DEF CreateTable, EndMigration
  <2>3. pc[p] = Len(Program)
    BY <1>2, <2>2 DEF Advance
  <2>4. pc'[p] = AtEnd
    BY <2>2, <2>3 DEF Advance, TypeOK, AtEnd
  <2>5. PICK k \in Steps : Program[k] = [act |-> "create", table |-> t]
    BY ProgramAssumption DEF Steps
  <2>6. k < pc'[p]
    BY <2>4, ProgramType DEF Steps, AtEnd
  <2> QED BY <2>5, <2>6 DEF StepsInv, StepsAt, CreatedBehind, TableOf, Missing
<1> QED BY <1>1, <1>2

LEMMA StepIInv == IInv /\ [Next]_vars => IInv'
BY StepTypeOK, StepStepsInv, StepReadyInv DEF IInv

(* What the invariant says of a command whose init ran to its end.         *)
LEMMA EndIsComplete ==
  ASSUME IInv, NEW p \in Commands, pc[p] = AtEnd, NEW t \in Tables
  PROVE schema[t] # Missing /\ Migrated[t] \subseteq schema[t] \cup Refused(p, t)
<1>1. \A j \in Steps : j < pc[p]
  BY ProgramType DEF Steps, AtEnd
<1>2. schema[t] # Missing
  <2>1. PICK k \in Steps : Program[k] = [act |-> "create", table |-> t]
    BY ProgramAssumption DEF Steps
  <2> QED BY <1>1, <2>1 DEF IInv, StepsInv, StepsAt, CreatedBehind, TableOf
<1>3. CASE Migrated[t] = {}
  BY <1>2, <1>3
<1>4. CASE Migrated[t] # {}
  <2>1. PICK k \in Steps : Program[k] = [act |-> "migrate", table |-> t]
    BY <1>4, ProgramAssumption DEF Steps
  <2>2. Migrated[t] \subseteq schema[t] \cup Refused(p, t)
    BY <1>1, <2>1 DEF IInv, StepsInv, StepsAt, MigratedBehind, TableOf
  <2> QED BY <1>2, <2>2
<1> QED BY <1>3, <1>4

-----------------------------------------------------------------------------
LEMMA Invariance == Spec => []IInv
<1>1. Init => IInv
  BY InitIInv
<1>2. IInv /\ [Next]_vars => IInv'
  BY StepIInv
<1> QED BY <1>1, <1>2, PTL DEF Spec

(* Every variable keeps its type.                                          *)
THEOREM TypeCorrect == Spec => []TypeOK
<1>1. IInv => TypeOK
  BY DEF IInv
<1> QED BY <1>1, Invariance, PTL

(* SQLiteStore.init: whoever else opens the database, at whatever step the *)
(* others are or were killed, a command at the end of init has the columns *)
(* it looks for, but for those it was refused itself.                      *)
THEOREM InitLeavesAll == Spec => []InitCompletes
<1>1. IInv => InitCompletes
  <2> SUFFICES ASSUME IInv, NEW p \in Commands, pc[p] = AtEnd, NEW t \in Tables
               PROVE Migrated[t] \subseteq schema[t] \cup {c \in Columns : <<t, c>> \in skipped[p]}
    BY DEF InitCompletes
  <2> QED BY EndIsComplete DEF Refused
<1> QED BY <1>1, Invariance, PTL

(* save_run is refused only for a column its own command could not add, or *)
(* one that only CREATE TABLE would have made.                             *)
THEOREM RefusedBySelf == Spec => RefusalsAreOwn
<1>1. ASSUME IInv, [Next]_vars, NEW p \in Commands, pc[p] = AtEnd, pc'[p] = -1
      PROVE skipped[p] # {} \/ \E t \in Tables : ~Migratable(t)
  <2> SUFFICES ASSUME skipped[p] = {} PROVE \E t \in Tables : ~Migratable(t)
    OBVIOUS
  <2>1. TypeOK /\ AtEnd # -1 /\ AtEnd \notin Steps
    BY <1>1, ProgramType DEF IInv, AtEnd
  <2>2. SaveRun(p)
    BY <1>1, <2>1, ProgramType DEF TypeOK, Next, InitStep, Open, CreateTable, RefuseTable,
       LookAtColumns, AddColumn, RefuseColumn, EndMigration, SaveRun, Kill, Read, vars, At, Advance
  <2>3. PICK t \in Tables : ~(Written[t] \subseteq schema[t])
    BY <1>1, <2>1, <2>2 DEF SaveRun, Accepts, TypeOK
  <2>4. Migrated[t] \subseteq schema[t]
    BY <1>1, EndIsComplete DEF Refused
  <2>5. Written[t] \subseteq Created[t] \cup Migrated[t]
    BY ColumnsAssumption DEF Full
  <2>6. PICK c \in Written[t] : c \notin schema[t]
    BY <2>3
  <2>7. c \in Created[t] /\ c \notin Migrated[t]
    BY <2>4, <2>5, <2>6
  <2> QED BY <2>6, <2>7 DEF Migratable
<1>2. IInv /\ [Next]_vars =>
        [\A p \in Commands : pc[p] = AtEnd /\ pc'[p] = -1 =>
           skipped[p] # {} \/ \E t \in Tables : ~Migratable(t)]_vars
  BY <1>1
<1> QED BY <1>2, Invariance, PTL DEF Spec, RefusalsAreOwn

(* A reader finds all tables once some init ran to its end.                *)
THEOREM ReadersServed == Spec => ReadersAreServed
<1>1. IInv /\ [Next]_vars => [Read /\ reads' = "refused" => ~ready]_vars
  BY DEF IInv, ReadyInv, Read
<1> QED BY <1>1, Invariance, PTL DEF Spec, ReadersAreServed
=============================================================================
