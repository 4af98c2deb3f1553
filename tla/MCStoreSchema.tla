---------------------------- MODULE MCStoreSchema ----------------------------
(* Two commands over a database without tables, one of the first version   *)
(* and one of the version before the timings got their context columns.    *)
EXTENDS StoreSchema

CONSTANTS runs, timings, evals, key, score, style, context, stamp

C(t) == [act |-> "create", table |-> t]
M(t) == [act |-> "migrate", table |-> t]
MCProgram == <<C(runs), M(runs), C(timings), M(timings), C(evals)>>

Per(a, b, c) == [t \in Tables |-> IF t = runs THEN a ELSE IF t = timings THEN b ELSE c]
MCCreated == Per({key}, {key, context, stamp}, {key})
MCMigrated == Per({score, style, stamp}, {stamp}, {})
MCWritten == Per({key, score, style, stamp}, {key, context, stamp}, {})

New == Per({}, {}, {})
First == Per({key}, {}, {})
Before == Per({key, score}, {key, context}, {})
Current == Per({key, score, style, stamp}, {key, context, stamp}, {key})
MCVersions == {New, First, Before, Current}

(* The timings of the third milestone, without a context column.           *)
Third == Per({key}, {key}, {})
MCOldVersions == {Third}
=============================================================================
