------------------------------ MODULE Migrations ------------------------------
(***************************************************************************)
(* Opening the SQLite file (storage/engine.py, storage/migrations.py):     *)
(* every process that starts brings the schema to the current version.     *)
(* Processes start at the same time and die half-way; the driver commits   *)
(* each DDL statement by itself, so that one statement is one step, and    *)
(* the index of a table is a statement of its own.                         *)
(***************************************************************************)
EXTENDS Naturals, Sequences, FiniteSets, SequencesExt

CONSTANTS Procs,
          Tables,      \* the tables, in the order create_all creates them
          Meta,        \* schema_meta, one of them
          Indexes,     \* the indexes the models declare
          Columns,     \* the columns of version 2, in the order they are added
          HomeOf,      \* HomeOf[c]: the table of column or index c
          MaxCrashes   \* bound: processes that die

ASSUME MigrationsAssumption ==
    /\ Tables \in Seq(ToSet(Tables))
    /\ Columns \in Seq(ToSet(Columns)) \ {<<>>}
    /\ ToSet(Tables) \cap ToSet(Columns) = {}
    /\ Indexes \cap (ToSet(Tables) \cup ToSet(Columns)) = {}
    /\ Meta \in ToSet(Tables)
    /\ HomeOf \in [Indexes \cup ToSet(Columns) -> ToSet(Tables) \ {Meta}]
    /\ MaxCrashes \in Nat

CURRENT_SCHEMA_VERSION == 2

VARIABLES tables,    \* the tables of the file
          indexes,   \* the indexes of the file
          columns,   \* the version 2 columns of the file
          stamp,     \* the row of schema_meta, 0 for none
          pc,        \* pc[p]: where process p is in migrate()
          version,   \* version[p]: the version p has reached
          todo,      \* todo[p]: what p's current step has left to create
          crashes
vars == <<tables, indexes, columns, stamp, pc, version, todo, crashes>>
file == <<tables, indexes, columns, stamp>>

Places == {"down", "migrating", "executing", "stamping", "up", "failed"}

\* The files a process may find: none, one of version 1, one older than the
\* version table, and what an interrupted start leaves of them.
Init ==
    /\ \/ tables = {} /\ columns = {} /\ stamp = 0
       \/ tables = ToSet(Tables) /\ columns = {} /\ stamp = 1
       \/ tables = ToSet(Tables) \ {Meta} /\ columns = {} /\ stamp = 0
       \/ tables = ToSet(Tables) /\ columns = {Columns[1]} /\ stamp = 1
    /\ indexes = {i \in Indexes : HomeOf[i] \in tables}
    /\ pc = [p \in Procs |-> "down"]
    /\ version = [p \in Procs |-> 0]
    /\ todo = [p \in Procs |-> {}]
    /\ crashes = 0

\* init_db: get_schema_version reads the stamp
Start(p) ==
    /\ pc[p] \in {"down", "failed"}
    /\ pc' = [pc EXCEPT ![p] = "migrating"]
    /\ version' = [version EXCEPT ![p] = stamp]
    /\ UNCHANGED <<file, todo, crashes>>

\* create_all looks for tables only: an index is sent with its table, after it,
\* and a table that is there is passed over with its indexes.
MissingTables ==
    LET lacks == ToSet(Tables) \ tables
    IN  lacks \cup {i \in Indexes : HomeOf[i] \in lacks}

\* Mutation: the columns are added without a look at the table.
Missing_AllColumns(next) == IF next = 1 THEN MissingTables ELSE ToSet(Columns)

\* What the step to version `next` has to create: both steps first inspect the
\* file and then create what it lacks.
Missing(next) == IF next = 1 THEN MissingTables ELSE ToSet(Columns) \ columns

\* Mutation: one step too many.
Inspect_PastCurrent(p) ==
    /\ pc[p] = "migrating"
    /\ version[p] <= CURRENT_SCHEMA_VERSION
    /\ todo' = [todo EXCEPT ![p] = Missing(version[p] + 1)]
    /\ pc' = [pc EXCEPT ![p] = "executing"]
    /\ UNCHANGED <<file, version, crashes>>

\* Mutation: the version is stamped before the step is taken.
Inspect_StampsFirst(p) ==
    /\ pc[p] = "migrating"
    /\ version[p] < CURRENT_SCHEMA_VERSION
    /\ todo' = [todo EXCEPT ![p] = Missing(version[p] + 1)]
    /\ stamp' = version[p] + 1
    /\ pc' = [pc EXCEPT ![p] = "executing"]
    /\ UNCHANGED <<tables, indexes, columns, version, crashes>>

\* while version < CURRENT_SCHEMA_VERSION
Inspect(p) ==
    /\ pc[p] = "migrating"
    /\ version[p] < CURRENT_SCHEMA_VERSION
    /\ todo' = [todo EXCEPT ![p] = Missing(version[p] + 1)]
    /\ pc' = [pc EXCEPT ![p] = "executing"]
    /\ UNCHANGED <<file, version, crashes>>

\* CREATE TABLE, with every column the models have, ...
CreateTable(t) ==
    /\ t \notin tables
    /\ tables' = tables \cup {t}
    /\ columns' = columns \cup {c \in ToSet(Columns) : HomeOf[c] = t}
    /\ UNCHANGED indexes

\* CREATE INDEX, for a table just created
CreateIndex(i) ==
    /\ i \notin indexes
    /\ indexes' = indexes \cup {i}
    /\ UNCHANGED <<tables, columns>>

\* ... or ALTER TABLE ... ADD COLUMN.
AddColumn(c) ==
    /\ c \notin columns
    /\ columns' = columns \cup {c}
    /\ UNCHANGED <<tables, indexes>>

Creates(p, e) ==
    IF version[p] + 1 = 1
    THEN IF e \in Indexes THEN CreateIndex(e) ELSE CreateTable(e)
    ELSE AddColumn(e)

\* The first table or column on the list of p.
IsFirst(p, e) ==
    /\ e \in todo[p]
    /\ LET order == Tables \o Columns
       IN  \E i \in DOMAIN order :
               order[i] = e /\ \A j \in 1..(i - 1) : order[j] \notin todo[p]

\* The indexes of the table that p has just created.
Owed(p) == {i \in todo[p] \cap Indexes : HomeOf[i] \notin todo[p]}

\* Mutation: the indexes are sent when all tables are there.
IsNext_IndexesLast(p, e) ==
    \/ IsFirst(p, e)
    \/ todo[p] \subseteq Indexes /\ e \in todo[p]

\* A step goes through its tables, or its columns, in their order; a table's
\* indexes come straight after it.
IsNext(p, e) == IF Owed(p) # {} THEN e \in Owed(p) ELSE IsFirst(p, e)

Execute(p) ==
    /\ pc[p] = "executing"
    /\ \E e \in todo[p] :
           /\ IsNext(p, e)
           /\ Creates(p, e)
           /\ todo' = [todo EXCEPT ![p] = @ \ {e}]
    /\ UNCHANGED <<stamp, pc, version, crashes>>

\* What it creates is there by now: the statement raises, the start fails.
ExecuteFails(p) ==
    /\ pc[p] = "executing"
    /\ \E e \in tables \cup indexes \cup columns : IsNext(p, e)
    /\ pc' = [pc EXCEPT ![p] = "failed"]
    /\ todo' = [todo EXCEPT ![p] = {}]
    /\ UNCHANGED <<file, version, crashes>>

StepDone(p) ==
    /\ pc[p] = "executing"
    /\ todo[p] = {}
    /\ pc' = [pc EXCEPT ![p] = "stamping"]
    /\ UNCHANGED <<file, version, todo, crashes>>

\* INSERT ... ON CONFLICT(id) DO UPDATE SET version
Stamp(p) ==
    /\ pc[p] = "stamping"
    /\ stamp' = version[p] + 1
    /\ version' = [version EXCEPT ![p] = @ + 1]
    /\ pc' = [pc EXCEPT ![p] = "migrating"]
    /\ UNCHANGED <<tables, indexes, columns, todo, crashes>>

Finish(p) ==
    /\ pc[p] = "migrating"
    /\ version[p] >= CURRENT_SCHEMA_VERSION
    /\ pc' = [pc EXCEPT ![p] = "up"]
    /\ UNCHANGED <<file, version, todo, crashes>>

Crash(p) ==
    /\ crashes < MaxCrashes
    /\ pc[p] # "down"
    /\ pc' = [pc EXCEPT ![p] = "down"]
    /\ version' = [version EXCEPT ![p] = 0]
    /\ todo' = [todo EXCEPT ![p] = {}]
    /\ crashes' = crashes + 1
    /\ UNCHANGED file

Works(p) ==
    \/ Inspect(p) \/ Execute(p) \/ ExecuteFails(p)
    \/ StepDone(p) \/ Stamp(p) \/ Finish(p)

Next == \E p \in Procs : Start(p) \/ Works(p) \/ Crash(p)
Spec == Init /\ [][Next]_vars

\* A starting process runs on; nothing obliges a process to be started.
Fairness == \A p \in Procs : WF_vars(Works(p))
FairSpec == Spec /\ Fairness

-----------------------------------------------------------------------------
Busy(p) == pc[p] \in {"migrating", "executing", "stamping"}

TypeOK ==
    /\ tables \subseteq ToSet(Tables)
    /\ indexes \subseteq Indexes
    /\ columns \subseteq ToSet(Columns)
    /\ stamp \in 0..CURRENT_SCHEMA_VERSION
    /\ pc \in [Procs -> Places]
    /\ version \in [Procs -> 0..CURRENT_SCHEMA_VERSION]
    /\ todo \in [Procs -> SUBSET (ToSet(Tables) \cup Indexes \cup ToSet(Columns))]
    /\ crashes \in 0..MaxCrashes

\* The stamp tells no more than the file has of tables and columns, whoever
\* stamped last: a process that trusts it lacks none that a statement names.
StampNamesTheFile ==
    /\ stamp >= 1 => tables = ToSet(Tables)
    /\ stamp >= 2 => columns = ToSet(Columns)

\* A process that serves finds every table and column that its statements
\* name, whatever other processes were doing to the file when it started.
UpFindsTables ==
    \A p \in Procs :
        pc[p] = "up" => tables = ToSet(Tables) /\ columns = ToSet(Columns)

\* Processes that fail for one another never lose an index: as long as none
\* has died, the index of a table that is there is there too, or the process
\* that created the table is about to create it.
IndexFollowsTable ==
    crashes = 0 =>
        \A i \in Indexes :
            HomeOf[i] \in tables =>
                i \in indexes \/ \E p \in Procs : pc[p] = "executing" /\ i \in Owed(p)

\* "migrate the schema to the current version" (engine.py): a process that
\* serves, when no other is at work on the file, has all that the models
\* declare, its indexes too.
UpMeansComplete ==
    \A p \in Procs :
        pc[p] = "up" /\ (\A q \in Procs : ~Busy(q)) =>
            tables = ToSet(Tables) /\ indexes = Indexes /\ columns = ToSet(Columns)

\* Processes that start together never all fail for one another: without a
\* crash, one of them comes up.
SomeoneServes ==
    (\E p \in Procs : Busy(p)) /\ crashes = 0
        ~> (\E p \in Procs : pc[p] = "up") \/ crashes > 0

\* "fresh databases ... and restarts are safe": a process that starts alone
\* comes up, wherever in the migration the last one died.
RestartSafe ==
    \A p \in Procs :
        /\ pc[p] = "migrating" /\ version[p] = stamp
        /\ \A q \in Procs \ {p} : ~Busy(q)
        ~> \/ pc[p] \in {"up", "down"}
           \/ \E q \in Procs \ {p} : Busy(q)
===============================================================================
