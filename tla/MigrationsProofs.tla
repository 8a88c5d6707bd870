-------------------------- MODULE MigrationsProofs --------------------------
(***************************************************************************)
(* However many processes open the file at once, and wherever they die,    *)
(* its stamp names no table and no column that is missing, a process that  *)
(* serves has them all, and an index is lost to a crash only.              *)
(***************************************************************************)
EXTENDS Migrations, TLAPS

-----------------------------------------------------------------------------
\* The inductive invariant: what the file holds for good.  Tables and columns
\* are only ever added, so what one process has seen complete stays complete,
\* and what it found missing is there or still on its list.

\* The file has what version n asks for.
Complete(n) ==
    /\ n >= 1 => tables = ToSet(Tables)
    /\ n >= 2 => columns = ToSet(Columns)

\* A process in its step lists what is missing, and has completed the rest.
Prepared(p) ==
    pc[p] = "executing" =>
        /\ version[p] < CURRENT_SCHEMA_VERSION
        /\ todo[p] \subseteq
               (IF version[p] = 0 THEN ToSet(Tables) \cup Indexes ELSE ToSet(Columns))
        /\ version[p] = 0 => ToSet(Tables) \subseteq tables \cup todo[p]
        /\ version[p] = 1 => ToSet(Columns) \subseteq columns \cup todo[p]

\* A process that stamps has completed the version it stamps.
MayStamp(p) ==
    pc[p] = "stamping" =>
        version[p] < CURRENT_SCHEMA_VERSION /\ Complete(version[p] + 1)

\* A process that serves has reached the current version.
MayServe(p) == pc[p] = "up" => version[p] = CURRENT_SCHEMA_VERSION

Honest(p) == Complete(version[p]) /\ Prepared(p) /\ MayStamp(p) /\ MayServe(p)

SchemaInv == TypeOK /\ Complete(stamp) /\ \A p \in Procs : Honest(p)

-----------------------------------------------------------------------------
LEMMA SchemaAssumption ==
    /\ Columns[1] \in ToSet(Columns) /\ Meta \in ToSet(Tables)
    /\ ToSet(Tables) \cap ToSet(Columns) = {}
    /\ Indexes \cap (ToSet(Tables) \cup ToSet(Columns)) = {}
    /\ \A i \in Indexes \cup ToSet(Columns) : HomeOf[i] \in ToSet(Tables)
<1>1. Columns \in Seq(ToSet(Columns)) /\ Columns # <<>>
  BY MigrationsAssumption
<1>2. 1 \in DOMAIN Columns
  BY <1>1
<1>. QED
  BY <1>2, MigrationsAssumption DEF ToSet

LEMMA InitHolds == Init => SchemaInv
<1>. SUFFICES ASSUME Init PROVE SchemaInv
  OBVIOUS
<1>1. TypeOK
  BY SchemaAssumption, MigrationsAssumption
     DEF Init, TypeOK, Places, CURRENT_SCHEMA_VERSION
<1>2. Complete(stamp)
  BY DEF Init, Complete
<1>3. ASSUME NEW p \in Procs PROVE Honest(p)
  BY DEF Init, Honest, Complete, Prepared, MayStamp, MayServe, CURRENT_SCHEMA_VERSION
<1>. QED
  BY <1>1, <1>2, <1>3 DEF SchemaInv

\* Nothing takes a table or a column from the file.
LEMMA FileGrows ==
    ASSUME TypeOK', tables \subseteq tables', columns \subseteq columns',
           NEW n, Complete(n)
    PROVE  Complete(n)'
  BY DEF TypeOK, Complete

\* A process that does not move stays honest while the file grows.
LEMMA StaysHonest ==
    ASSUME TypeOK, TypeOK', tables \subseteq tables', columns \subseteq columns',
           NEW p \in Procs, Honest(p),
           pc'[p] = pc[p], version'[p] = version[p], todo'[p] = todo[p]
    PROVE  Honest(p)'
<1>1. Complete(version[p])'
  BY FileGrows DEF Honest, Complete, TypeOK
<1>2. Prepared(p)'
  BY DEF Honest, Prepared
<1>3. MayStamp(p)'
  BY DEF Honest, MayStamp, Complete, TypeOK
<1>4. MayServe(p)'
  BY DEF Honest, MayServe
<1>. QED
  BY <1>1, <1>2, <1>3, <1>4 DEF Honest, Complete

\* A step that keeps the type, the file and the stamp's honesty has only to
\* look at the process that takes it.
LEMMA OnlyOneMoves ==
    ASSUME SchemaInv, TypeOK', tables \subseteq tables', columns \subseteq columns',
           Complete(stamp)', NEW p \in Procs, Honest(p)',
           \A q \in Procs : q # p =>
               pc'[q] = pc[q] /\ version'[q] = version[q] /\ todo'[q] = todo[q]
    PROVE  SchemaInv'
<1>1. ASSUME NEW q \in Procs, q # p PROVE Honest(q)'
  BY <1>1, StaysHonest DEF SchemaInv
<1>. QED
  BY <1>1 DEF SchemaInv

-----------------------------------------------------------------------------
LEMMA StartKeeps ==
    ASSUME SchemaInv, NEW p \in Procs, Start(p)
    PROVE  SchemaInv'
<1>1. TypeOK'
  BY DEF SchemaInv, TypeOK, Start, file, Places
<1>2. /\ pc'[p] = "migrating" /\ version'[p] = stamp
      /\ tables' = tables /\ columns' = columns /\ stamp' = stamp
      /\ \A q \in Procs : q # p =>
             pc'[q] = pc[q] /\ version'[q] = version[q] /\ todo'[q] = todo[q]
  BY DEF SchemaInv, TypeOK, Start, file
<1>3. Complete(stamp)'
  BY <1>2 DEF SchemaInv, Complete
<1>4. Honest(p)'
  BY <1>2, <1>3 DEF Honest, Complete, Prepared, MayStamp, MayServe
<1>. QED
  BY <1>1, <1>2, <1>3, <1>4, OnlyOneMoves

LEMMA InspectKeeps ==
    ASSUME SchemaInv, NEW p \in Procs, Inspect(p)
    PROVE  SchemaInv'
<1>1. version[p] \in {0, 1} /\ Honest(p) /\ TypeOK
  BY DEF SchemaInv, TypeOK, Inspect, CURRENT_SCHEMA_VERSION
<1>2. /\ pc'[p] = "executing" /\ version' = version /\ todo'[p] = Missing(version[p] + 1)
      /\ tables' = tables /\ columns' = columns /\ stamp' = stamp
      /\ \A q \in Procs : q # p => pc'[q] = pc[q] /\ todo'[q] = todo[q]
  BY <1>1 DEF TypeOK, Inspect, file
<1>3. /\ version[p] = 0 => /\ todo'[p] \subseteq ToSet(Tables) \cup Indexes
                           /\ ToSet(Tables) \ tables \subseteq todo'[p]
      /\ version[p] = 1 => todo'[p] = ToSet(Columns) \ columns
  BY <1>1, <1>2 DEF Missing, MissingTables
<1>4. TypeOK'
  BY <1>1, <1>2, <1>3 DEF TypeOK, Inspect, file, Places
<1>5. Complete(stamp)'
  BY <1>2 DEF SchemaInv, Complete
<1>6. Honest(p)'
  BY <1>1, <1>2, <1>3
     DEF Honest, Complete, Prepared, MayStamp, MayServe, CURRENT_SCHEMA_VERSION
<1>. QED
  BY <1>2, <1>4, <1>5, <1>6, OnlyOneMoves

\* A statement creates one element, and the columns a table comes with.
LEMMA ExecuteKeeps ==
    ASSUME SchemaInv, NEW p \in Procs, Execute(p)
    PROVE  SchemaInv'
<1>. PICK e \in todo[p] : Creates(p, e) /\ todo' = [todo EXCEPT ![p] = @ \ {e}]
  BY DEF Execute
<1>1. /\ TypeOK /\ Honest(p) /\ pc[p] = "executing" /\ version[p] \in {0, 1}
      /\ pc' = pc /\ version' = version /\ stamp' = stamp /\ crashes' = crashes
  BY DEF SchemaInv, TypeOK, Execute, Honest, Prepared, CURRENT_SCHEMA_VERSION
<1>2. /\ todo'[p] = todo[p] \ {e}
      /\ \A q \in Procs : q # p => todo'[q] = todo[q]
      /\ todo' \in [Procs -> SUBSET (ToSet(Tables) \cup Indexes \cup ToSet(Columns))]
  BY <1>1 DEF TypeOK
<1>3. CASE version[p] = 0
  <2>1. /\ e \in ToSet(Tables) \cup Indexes
        /\ IF e \in Indexes THEN CreateIndex(e) ELSE CreateTable(e)
    BY <1>1, <1>3 DEF Creates, Honest, Prepared
  <2>2. /\ tables' = tables \cup ({e} \ Indexes) /\ columns \subseteq columns'
        /\ tables' \subseteq ToSet(Tables) /\ columns' \subseteq ToSet(Columns)
        /\ indexes' \subseteq Indexes
    BY <1>1, <2>1, SchemaAssumption DEF CreateTable, CreateIndex, TypeOK
  <2>3. TypeOK'
    BY <1>1, <1>2, <2>2 DEF TypeOK
  <2>4. Complete(stamp)'
    BY <1>1, <2>2, <2>3, FileGrows DEF SchemaInv, Complete
  <2>5. Honest(p)'
    BY <1>1, <1>2, <1>3, <2>2, SchemaAssumption
       DEF Honest, Complete, Prepared, MayStamp, MayServe
  <2>. QED
    BY <1>1, <1>2, <2>2, <2>3, <2>4, <2>5, OnlyOneMoves
<1>4. CASE version[p] = 1
  <2>1. AddColumn(e) /\ e \in ToSet(Columns)
    BY <1>1, <1>4 DEF Creates, Honest, Prepared
  <2>2. /\ columns' = columns \cup {e} /\ tables' = tables
        /\ columns' \subseteq ToSet(Columns) /\ indexes' = indexes
    BY <1>1, <2>1 DEF AddColumn, TypeOK
  <2>3. TypeOK'
    BY <1>1, <1>2, <2>2 DEF TypeOK
  <2>4. Complete(stamp)'
    BY <1>1, <2>2, <2>3 DEF SchemaInv, Complete, TypeOK
  <2>5. Honest(p)'
    BY <1>1, <1>2, <1>4, <2>2
       DEF Honest, Complete, Prepared, MayStamp, MayServe
  <2>. QED
    BY <1>1, <1>2, <2>2, <2>3, <2>4, <2>5, OnlyOneMoves
<1>. QED
  BY <1>1, <1>3, <1>4

LEMMA ExecuteFailsKeeps ==
    ASSUME SchemaInv, NEW p \in Procs, ExecuteFails(p)
    PROVE  SchemaInv'
<1>1. TypeOK'
  BY DEF SchemaInv, TypeOK, ExecuteFails, file, Places
<1>2. /\ pc'[p] = "failed" /\ version' = version
      /\ tables' = tables /\ columns' = columns /\ stamp' = stamp
      /\ \A q \in Procs : q # p => pc'[q] = pc[q] /\ todo'[q] = todo[q]
  BY DEF SchemaInv, TypeOK, ExecuteFails, file
<1>3. Complete(stamp)' /\ Honest(p)'
  BY <1>2 DEF SchemaInv, Honest, Complete, Prepared, MayStamp, MayServe
<1>. QED
  BY <1>1, <1>2, <1>3, OnlyOneMoves

\* A list that is done is a version that is complete.
LEMMA StepDoneKeeps ==
    ASSUME SchemaInv, NEW p \in Procs, StepDone(p)
    PROVE  SchemaInv'
<1>1. TypeOK'
  BY DEF SchemaInv, TypeOK, StepDone, file, Places
<1>2. /\ TypeOK /\ Honest(p) /\ pc[p] = "executing" /\ todo[p] = {}
      /\ version[p] \in {0, 1}
  BY DEF SchemaInv, TypeOK, StepDone, Honest, Prepared, CURRENT_SCHEMA_VERSION
<1>3. /\ pc'[p] = "stamping" /\ version' = version
      /\ tables' = tables /\ columns' = columns /\ stamp' = stamp
      /\ \A q \in Procs : q # p => pc'[q] = pc[q] /\ todo'[q] = todo[q]
  BY <1>2 DEF TypeOK, StepDone, file
<1>4. Complete(version[p] + 1)
  <2>1. CASE version[p] = 0
    <3>1. tables = ToSet(Tables)
      BY <1>2, <2>1 DEF Honest, Prepared, TypeOK
    <3>2. version[p] + 1 = 1
      BY <2>1
    <3>. QED
      BY <3>1, <3>2 DEF Complete
  <2>2. CASE version[p] = 1
    <3>1. tables = ToSet(Tables) /\ columns = ToSet(Columns)
      BY <1>2, <2>2 DEF Honest, Prepared, Complete, TypeOK
    <3>. QED
      BY <3>1 DEF Complete
  <2>. QED
    BY <1>2, <2>1, <2>2
<1>5. Complete(stamp)'
  BY <1>3 DEF SchemaInv, Complete
<1>6. Honest(p)'
  BY <1>2, <1>3, <1>4
     DEF Honest, Complete, Prepared, MayStamp, MayServe, CURRENT_SCHEMA_VERSION
<1>. QED
  BY <1>1, <1>3, <1>5, <1>6, OnlyOneMoves

LEMMA StampKeeps ==
    ASSUME SchemaInv, NEW p \in Procs, Stamp(p)
    PROVE  SchemaInv'
<1>1. /\ TypeOK /\ Honest(p) /\ version[p] \in {0, 1} /\ Complete(version[p] + 1)
  BY DEF SchemaInv, TypeOK, Stamp, Honest, MayStamp, CURRENT_SCHEMA_VERSION
<1>2. /\ pc'[p] = "migrating" /\ version'[p] = version[p] + 1 /\ stamp' = version[p] + 1
      /\ tables' = tables /\ columns' = columns
      /\ \A q \in Procs : q # p =>
             pc'[q] = pc[q] /\ version'[q] = version[q] /\ todo'[q] = todo[q]
  BY <1>1 DEF TypeOK, Stamp
<1>3. TypeOK'
  BY <1>1 DEF TypeOK, Stamp, Places, CURRENT_SCHEMA_VERSION
<1>4. Complete(stamp)'
  BY <1>1, <1>2 DEF Complete
<1>5. Honest(p)'
  BY <1>1, <1>2 DEF Honest, Complete, Prepared, MayStamp, MayServe
<1>. QED
  BY <1>2, <1>3, <1>4, <1>5, OnlyOneMoves

LEMMA FinishKeeps ==
    ASSUME SchemaInv, NEW p \in Procs, Finish(p)
    PROVE  SchemaInv'
<1>1. TypeOK' /\ TypeOK /\ Honest(p) /\ version[p] = CURRENT_SCHEMA_VERSION
  BY DEF SchemaInv, TypeOK, Finish, file, Places, CURRENT_SCHEMA_VERSION
<1>2. /\ pc'[p] = "up" /\ version' = version
      /\ tables' = tables /\ columns' = columns /\ stamp' = stamp
      /\ \A q \in Procs : q # p => pc'[q] = pc[q] /\ todo'[q] = todo[q]
  BY <1>1 DEF TypeOK, Finish, file
<1>3. Complete(stamp)' /\ Honest(p)'
  BY <1>1, <1>2 DEF SchemaInv, Honest, Complete, Prepared, MayStamp, MayServe
<1>. QED
  BY <1>1, <1>2, <1>3, OnlyOneMoves

LEMMA CrashKeeps ==
    ASSUME SchemaInv, NEW p \in Procs, Crash(p)
    PROVE  SchemaInv'
<1>1. TypeOK'
  BY MigrationsAssumption DEF SchemaInv, TypeOK, Crash, file, Places, CURRENT_SCHEMA_VERSION
<1>2. /\ pc'[p] = "down" /\ version'[p] = 0
      /\ tables' = tables /\ columns' = columns /\ stamp' = stamp
      /\ \A q \in Procs : q # p =>
             pc'[q] = pc[q] /\ version'[q] = version[q] /\ todo'[q] = todo[q]
  BY DEF SchemaInv, TypeOK, Crash, file
<1>3. Complete(stamp)' /\ Honest(p)'
  BY <1>2 DEF SchemaInv, Honest, Complete, Prepared, MayStamp, MayServe
<1>. QED
  BY <1>1, <1>2, <1>3, OnlyOneMoves

LEMMA SchemaInvHolds == Spec => []SchemaInv
<1>1. SchemaInv /\ [Next]_vars => SchemaInv'
  <2>. SUFFICES ASSUME SchemaInv, [Next]_vars PROVE SchemaInv'
    OBVIOUS
  <2>1. CASE UNCHANGED vars
    BY <2>1 DEF vars, SchemaInv, TypeOK, Honest, Complete, Prepared, MayStamp, MayServe
  <2>2. ASSUME NEW p \in Procs, Works(p) PROVE SchemaInv'
    BY <2>2, InspectKeeps, ExecuteKeeps, ExecuteFailsKeeps, StepDoneKeeps, StampKeeps,
       FinishKeeps DEF Works
  <2>. QED
    BY <2>1, <2>2, StartKeeps, CrashKeeps DEF Next
<1>. QED
  BY <1>1, InitHolds, PTL DEF Spec

-----------------------------------------------------------------------------
\* What keeps an index with its table: only the process that created a table
\* owes its indexes, and sends them before anything that could fail.

\* Nobody else has created what p owes, and nobody else owes it.
OwesAlone(p) ==
    pc[p] = "executing" =>
        /\ \A i \in Indexes : HomeOf[i] \in todo[p] => i \in todo[p]
        /\ \A i \in Owed(p) :
               /\ HomeOf[i] \in tables /\ i \notin indexes
               /\ \A q \in Procs \ {p} : ~(pc[q] = "executing" /\ i \in Owed(q))

IndexInv ==
    /\ \A i \in indexes : HomeOf[i] \in tables
    /\ \A p \in Procs : OwesAlone(p)
    /\ IndexFollowsTable

\* Steps that leave the file alone and give no process a debt.
LEMMA FileRests ==
    ASSUME SchemaInv, IndexInv, UNCHANGED file, NEW p \in Procs,
           pc[p] # "executing" \/ Owed(p) = {} \/ crashes' > 0,
           pc'[p] = "executing" =>
               Owed(p)' = {} /\ \A i \in Indexes : HomeOf[i] \in todo'[p] => i \in todo'[p],
           \A q \in Procs \ {p} : pc'[q] = pc[q] /\ todo'[q] = todo[q],
           crashes' = 0 => crashes = 0
    PROVE  IndexInv'
<1>1. tables' = tables /\ indexes' = indexes
  BY DEF file
<1>2. \A q \in Procs \ {p} : Owed(q)' = Owed(q) /\ pc'[q] = pc[q] /\ todo'[q] = todo[q]
  BY DEF Owed
<1>3. ASSUME NEW q \in Procs PROVE OwesAlone(q)'
  BY <1>1, <1>2 DEF IndexInv, OwesAlone
<1>4. ASSUME crashes' = 0, NEW i \in Indexes, HomeOf[i] \in tables
      PROVE  i \in indexes \/ \E q \in Procs : pc'[q] = "executing" /\ i \in Owed(q)'
  <2>1. crashes = 0 /\ (pc[p] # "executing" \/ Owed(p) = {})
    BY <1>4 DEF SchemaInv, TypeOK
  <2>2. CASE i \in indexes
    BY <2>2
  <2>3. CASE \E q \in Procs : pc[q] = "executing" /\ i \in Owed(q)
    <3>1. PICK q \in Procs : pc[q] = "executing" /\ i \in Owed(q)
      BY <2>3
    <3>2. q # p
      BY <2>1, <3>1
    <3>. QED
      BY <1>2, <3>1, <3>2
  <2>. QED
    BY <1>4, <2>1, <2>2, <2>3 DEF IndexInv, IndexFollowsTable
<1>. QED
  BY <1>1, <1>3, <1>4 DEF IndexInv, IndexFollowsTable

\* A list starts with every index beside its table: nothing is owed yet.
LEMMA ListsStartPaid ==
    ASSUME SchemaInv, NEW p \in Procs, Inspect(p)
    PROVE  Owed(p)' = {} /\ \A i \in Indexes : HomeOf[i] \in todo'[p] => i \in todo'[p]
<1>1. version[p] \in {0, 1} /\ todo'[p] = Missing(version[p] + 1)
  BY DEF SchemaInv, TypeOK, Inspect, CURRENT_SCHEMA_VERSION
<1>2. CASE version[p] = 0
  <2>1. todo'[p] = MissingTables
    BY <1>1, <1>2 DEF Missing
  <2>. QED
    BY <2>1, SchemaAssumption DEF MissingTables, Owed
<1>3. CASE version[p] = 1
  <2>1. todo'[p] \subseteq ToSet(Columns)
    BY <1>1, <1>3 DEF Missing
  <2>. QED
    BY <2>1, SchemaAssumption DEF Owed
<1>. QED
  BY <1>1, <1>2, <1>3

\* A statement that fails is no index: nobody else can have sent it.
LEMMA FailsOwingNothing ==
    ASSUME SchemaInv, IndexInv, NEW p \in Procs, ExecuteFails(p)
    PROVE  Owed(p) = {}
<1>. SUFFICES ASSUME Owed(p) # {} PROVE FALSE
  OBVIOUS
<1>1. PICK e \in tables \cup indexes \cup columns : IsNext(p, e)
  BY DEF ExecuteFails
<1>2. e \in Owed(p) /\ e \in Indexes
  BY <1>1 DEF IsNext, Owed
<1>3. e \in indexes
  BY <1>1, <1>2, SchemaAssumption DEF SchemaInv, TypeOK
<1>. QED
  BY <1>2, <1>3 DEF IndexInv, OwesAlone, ExecuteFails

\* The order of creation names tables and columns only.
LEMMA FirstIsNoIndex ==
    ASSUME NEW p, NEW e, IsFirst(p, e)
    PROVE  e \notin Indexes
<1>1. Tables \in Seq(ToSet(Tables)) /\ Columns \in Seq(ToSet(Columns))
  BY MigrationsAssumption
<1>2. PICK i \in DOMAIN (Tables \o Columns) : (Tables \o Columns)[i] = e
  BY DEF IsFirst
<1>3. e \in ToSet(Tables) \cup ToSet(Columns)
  <2>1. i \in 1..(Len(Tables) + Len(Columns))
    BY <1>1
  <2>2. CASE i <= Len(Tables)
    BY <1>1, <1>2, <2>1, <2>2
  <2>3. CASE i > Len(Tables)
    BY <1>1, <1>2, <2>1, <2>3
  <2>. QED
    BY <1>1, <2>1, <2>2, <2>3
<1>. QED
  BY <1>3, SchemaAssumption

LEMMA ExecuteOwes ==
    ASSUME SchemaInv, IndexInv, NEW p \in Procs, Execute(p)
    PROVE  IndexInv'
<1>. PICK e \in todo[p] : IsNext(p, e) /\ Creates(p, e) /\ todo' = [todo EXCEPT ![p] = @ \ {e}]
  BY DEF Execute
<1>1. /\ TypeOK /\ pc[p] = "executing" /\ version[p] \in {0, 1}
      /\ pc' = pc /\ crashes' = crashes
      /\ todo[p] \subseteq (IF version[p] = 0 THEN ToSet(Tables) \cup Indexes ELSE ToSet(Columns))
  BY DEF SchemaInv, TypeOK, Execute, Honest, Prepared, CURRENT_SCHEMA_VERSION
<1>2. todo'[p] = todo[p] \ {e} /\ \A q \in Procs \ {p} : todo'[q] = todo[q]
  BY <1>1 DEF TypeOK
<1>3. \A q \in Procs \ {p} : Owed(q)' = Owed(q)
  BY <1>2 DEF Owed
<1>4. CASE version[p] = 0 /\ e \in Indexes
  <2>1. CreateIndex(e)
    BY <1>1, <1>4 DEF Creates
  <2>2. HomeOf[e] \notin todo[p] /\ e \in Owed(p)
    BY <1>4, FirstIsNoIndex DEF IsNext, Owed
  <2>3. tables' = tables /\ indexes' = indexes \cup {e} /\ Owed(p)' = Owed(p) \ {e}
    BY <1>1, <1>2, <1>4, <2>1, SchemaAssumption DEF CreateIndex, Owed
  <2>. QED
    BY <1>1, <1>2, <1>3, <1>4, <2>2, <2>3, SchemaAssumption
       DEF IndexInv, OwesAlone, IndexFollowsTable
<1>5. CASE version[p] = 0 /\ e \notin Indexes
  <2>1. CreateTable(e) /\ Owed(p) = {} /\ e \in ToSet(Tables)
    BY <1>1, <1>5 DEF Creates, IsNext, Owed
  <2>2. /\ tables' = tables \cup {e} /\ indexes' = indexes /\ e \notin tables
        /\ Owed(p)' = {i \in Indexes : HomeOf[i] = e}
    BY <1>1, <1>2, <1>5, <2>1, SchemaAssumption DEF CreateTable, Owed, IndexInv, OwesAlone
  <2>3. OwesAlone(p)'
    BY <1>1, <1>2, <1>3, <1>5, <2>1, <2>2, SchemaAssumption DEF IndexInv, OwesAlone, Owed
  <2>4. ASSUME NEW q \in Procs \ {p} PROVE OwesAlone(q)'
    BY <1>1, <1>2, <1>3, <2>2 DEF IndexInv, OwesAlone, Owed
  <2>5. IndexFollowsTable'
    BY <1>1, <1>3, <2>1, <2>2 DEF IndexInv, IndexFollowsTable
  <2>. QED
    BY <2>2, <2>3, <2>4, <2>5 DEF IndexInv
<1>6. CASE version[p] = 1
  <2>1. AddColumn(e)
    BY <1>1, <1>6 DEF Creates
  <2>2. /\ tables' = tables /\ indexes' = indexes
        /\ \A i \in Indexes : i \notin todo[p] /\ HomeOf[i] \notin todo[p]
    BY <1>1, <1>6, <2>1, SchemaAssumption DEF AddColumn
  <2>3. Owed(p)' = {} /\ Owed(p) = {}
    BY <1>2, <2>2 DEF Owed
  <2>. QED
    BY <1>1, <1>2, <1>3, <2>2, <2>3 DEF IndexInv, OwesAlone, IndexFollowsTable
<1>. QED
  BY <1>1, <1>4, <1>5, <1>6

LEMMA IndexStep == SchemaInv /\ IndexInv /\ [Next]_vars => IndexInv'
<1>. SUFFICES ASSUME SchemaInv, IndexInv, [Next]_vars PROVE IndexInv'
  OBVIOUS
<1>. TypeOK
  BY DEF SchemaInv
<1>1. CASE UNCHANGED vars
  BY <1>1 DEF vars, IndexInv, OwesAlone, Owed, IndexFollowsTable
<1>2. ASSUME NEW p \in Procs, Start(p) \/ Stamp(p) \/ Finish(p) \/ StepDone(p)
      PROVE  IndexInv'
  <2>1. /\ pc'[p] # "executing" /\ todo' = todo /\ crashes' = crashes
        /\ tables' = tables /\ indexes' = indexes
        /\ pc[p] # "executing" \/ todo[p] = {}
        /\ \A q \in Procs \ {p} : pc'[q] = pc[q]
    BY <1>2 DEF TypeOK, Start, Stamp, Finish, StepDone, file
  <2>2. /\ \A q \in Procs : Owed(q)' = Owed(q)
        /\ pc[p] # "executing" \/ Owed(p) = {}
    BY <2>1 DEF Owed
  <2>. QED
    BY <2>1, <2>2 DEF IndexInv, OwesAlone, IndexFollowsTable
<1>3. ASSUME NEW p \in Procs, Inspect(p) PROVE IndexInv'
  <2>1. /\ pc[p] # "executing" /\ crashes' = crashes /\ UNCHANGED file
        /\ \A q \in Procs \ {p} : pc'[q] = pc[q] /\ todo'[q] = todo[q]
    BY <1>3 DEF TypeOK, Inspect
  <2>. QED
    BY <1>3, <2>1, FileRests, ListsStartPaid
<1>4. ASSUME NEW p \in Procs, ExecuteFails(p) PROVE IndexInv'
  <2>1. /\ pc'[p] # "executing" /\ crashes' = crashes /\ UNCHANGED file
        /\ \A q \in Procs \ {p} : pc'[q] = pc[q] /\ todo'[q] = todo[q]
    BY <1>4 DEF TypeOK, ExecuteFails
  <2>. QED
    BY <1>4, <2>1, FileRests, FailsOwingNothing
<1>5. ASSUME NEW p \in Procs, Crash(p) PROVE IndexInv'
  <2>1. /\ pc'[p] # "executing" /\ crashes' > 0 /\ UNCHANGED file
        /\ \A q \in Procs \ {p} : pc'[q] = pc[q] /\ todo'[q] = todo[q]
    BY <1>5, MigrationsAssumption DEF TypeOK, Crash
  <2>. QED
    BY <2>1, FileRests
<1>. QED
  BY <1>1, <1>2, <1>3, <1>4, <1>5, ExecuteOwes DEF Next, Works

LEMMA IndexInvHolds == Spec => []IndexInv
<1>1. Init => IndexInv
  BY DEF Init, IndexInv, OwesAlone, IndexFollowsTable
<1>. QED
  BY <1>1, IndexStep, SchemaInvHolds, PTL DEF Spec

-----------------------------------------------------------------------------
\* No process goes past the current version or creates what no version has.
THEOREM SchemaTyped == Spec => []TypeOK
<1>1. SchemaInv => TypeOK
  BY DEF SchemaInv
<1>. QED
  BY <1>1, SchemaInvHolds, PTL

\* The stamp tells no more than the file has of tables and columns, whoever
\* stamped last (migrate() stamps each step after it).
THEOREM StampIsHonest == Spec => []StampNamesTheFile
<1>1. SchemaInv => StampNamesTheFile
  BY DEF SchemaInv, StampNamesTheFile, Complete
<1>. QED
  BY <1>1, SchemaInvHolds, PTL

\* A process that has returned from init_db() finds every table and column
\* that its statements name, whatever the others were doing to the file.
THEOREM UpFindsItsTables == Spec => []UpFindsTables
<1>1. SchemaInv => UpFindsTables
  BY DEF SchemaInv, UpFindsTables, Honest, MayServe, Complete, CURRENT_SCHEMA_VERSION
<1>. QED
  BY <1>1, SchemaInvHolds, PTL

\* Starts that fail for one another lose no index; only a process that dies
\* between CREATE TABLE and CREATE INDEX does.
THEOREM IndexLostToCrashOnly == Spec => []IndexFollowsTable
<1>1. IndexInv => IndexFollowsTable
  BY DEF IndexInv
<1>. QED
  BY <1>1, IndexInvHolds, PTL
=============================================================================
