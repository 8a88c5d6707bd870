----------------------------- MODULE SqliteStore -----------------------------
(***************************************************************************)
(* A bundle as SQLite gets it (storage/store.py, _SQLiteTx): the SELECT of *)
(* each row the bundle writes, statement by statement, while other         *)
(* processes commit; then the first write, which takes the database's one  *)
(* write lock; the conditional INSERT of the audit entry; and the commit,  *)
(* which sends the changed columns of the rows read before and shows       *)
(* everything at once.  Every other step is the platform's.  Platform      *)
(* takes the whole bundle as one step, Commit or Conflict: AtomicCommits   *)
(* says that nobody can tell the difference.                               *)
(***************************************************************************)
EXTENDS PlatformProperties

CONSTANT Unread   \* a row of the bundle has not been SELECTed

VARIABLES rows,     \* rows[p]: the rows of p's bundle as its SELECTs saw them
          writers,  \* who holds the write lock of the database
          gated     \* whose conditional INSERT found the tip it expected
statement == <<rows, writers, gated>>
sqliteVars == <<vars, statement>>

RowTables == {"org", "policy", "budget", "server"}
RowSets == [org    : Organizations \cup {NoOrg, Unread},
            policy : Policies \cup {NoPolicy, Unread},
            budget : Accountants \cup {NoBudget, Unread},
            server : ServerRows \cup {NoServer, Unread}]
NoRows == [t \in RowTables |-> Unread]
Missing(row) == row \in {NoOrg, NoPolicy, NoBudget, NoServer}

ASSUME UnreadAssumption ==
    /\ Unread \notin Organizations \cup Policies \cup Accountants \cup ServerRows
                     \cup {NoOrg, NoPolicy, NoBudget, NoServer}
    /\ \A row \in {NoOrg, NoPolicy, NoServer} : row \notin Accountants

\* The stored row that bundle b writes in table t.
StoredRow(d, b, t) ==
    CASE t = "org"    -> d.orgs[b.org.id]
      [] t = "policy" -> d.policies[b.policy.id]
      [] t = "budget" -> d.budget
      [] t = "server" -> d.servers[b.server.key]

\* The tables of a bundle in the order of its save_* calls.
Writes(b, t) == b[t] # Nothing
Earlier(t) ==
    CASE t = "org"    -> {}
      [] t = "policy" -> {"org"}
      [] t = "budget" -> {}
      [] t = "server" -> {"budget"}

AllRead(p) == \A t \in RowTables : Writes(tx[p], t) => rows[p][t] # Unread
Committing(p) == pc[p] = "commit" /\ tx[p] # Nothing

-----------------------------------------------------------------------------
(* The statements of a bundle.                                             *)

\* Mutation: several connections write at a time.
MayWrite_Shared(p) == TRUE

\* one writer at a time; a busy database makes the others wait
MayWrite(p) == writers \subseteq {p}

\* A budget or server row that is not there yet is inserted and flushed at
\* once: nothing follows its SELECT before.
InsertsNow(p) ==
    \E t \in {"budget", "server"} : /\ Writes(tx[p], t)
                                    /\ Missing(rows[p][t])
                                    /\ p \notin writers

\* Table t is the next of p's bundle to be read.
ReadsNext(p, t) ==
    /\ Committing(p)
    /\ Writes(tx[p], t)
    /\ rows[p][t] = Unread
    /\ \A u \in Earlier(t) : Writes(tx[p], u) => rows[p][u] # Unread
    /\ ~InsertsNow(p)

\* Mutation: the row is not compared with what the bundle was computed from.
ExpectedRow_Any(d, b, t) == TRUE

\* the freshness proofs of save_budget and save_server
ExpectedRow(d, b, t) ==
    /\ t = "budget" => BudgetFresh(d, b)
    /\ t = "server" => ServerFresh(d, b)

SelectRow(p, t) ==
    /\ ReadsNext(p, t)
    /\ ExpectedRow(db, tx[p], t)
    /\ rows' = [rows EXCEPT ![p][t] = StoredRow(db, tx[p], t)]
    /\ UNCHANGED <<vars, writers, gated>>

\* A write before the audit entry takes the lock: the INSERT of a missing
\* row, or the changed budget that the session flushes ahead of the SELECT
\* of the server.
Blocked(p) ==
    \E t \in {"budget", "server"} : /\ Writes(tx[p], t)
                                    /\ Missing(rows[p][t])
                                    /\ ~Missing(StoredRow(db, tx[p], t))
FirstWrite(p) ==
    /\ Committing(p)
    /\ p \notin writers
    /\ MayWrite(p)
    /\ \/ InsertsNow(p)
       \/ Writes(tx[p], "server") /\ rows[p].budget # Unread
    /\ ~Blocked(p)
    /\ writers' = writers \cup {p}
    /\ UNCHANGED <<vars, rows, gated>>

\* append_audit: one conditional INSERT, under the lock it takes if need be.
AtGate(p) ==
    /\ Committing(p)
    /\ AllRead(p)
    /\ ~InsertsNow(p)
    /\ p \notin gated
    /\ MayWrite(p)

PassGate(p) ==
    /\ AtGate(p)
    /\ TipFresh(db, tx[p])
    /\ writers' = writers \cup {p}
    /\ gated' = gated \cup {p}
    /\ UNCHANGED <<vars, rows>>

\* An UPDATE sends the columns that differ from the row as it was read.
Sent(current, loaded, new) ==
    IF Missing(loaded) THEN new
    ELSE [f \in DOMAIN new |-> IF new[f] = loaded[f] THEN current[f] ELSE new[f]]

SentBudget(current, loaded, write) ==
    Sent(current, loaded,
         IF Missing(loaded) THEN write.data
         ELSE [write.data EXCEPT !.events = MergeEvents(loaded.events, @)])

\* The database after the flush of p's bundle.
Flushed(d, b, r) ==
    [orgs     |-> IF b.org = Nothing THEN d.orgs
                  ELSE [d.orgs EXCEPT ![b.org.id] = Sent(@, r.org, b.org.data)],
     policies |-> IF b.policy = Nothing THEN d.policies
                  ELSE [d.policies EXCEPT ![b.policy.id] =
                            Sent(@, r.policy, b.policy.data)],
     budget   |-> IF b.budget = Nothing THEN d.budget
                  ELSE SentBudget(d.budget, r.budget, b.budget),
     servers  |-> IF b.server = Nothing THEN d.servers
                  ELSE [d.servers EXCEPT ![b.server.key] =
                            Sent(@, r.server, b.server.data)],
     rounds   |-> AppendRound(d.rounds, b.round),
     audit    |-> Append(d.audit, b.entry)]

\* Mutation: the rows read live on in the session of the next bundle.
EndsTx_KeepsReads(p) ==
    /\ UNCHANGED rows
    /\ writers' = writers \ {p}
    /\ gated' = gated \ {p}

\* The connection is done: its lock is released, its reads are forgotten.
EndsTx(p) ==
    /\ rows' = [rows EXCEPT ![p] = NoRows]
    /\ writers' = writers \ {p}
    /\ gated' = gated \ {p}

\* session.commit()
CommitTx(p) ==
    /\ Committing(p)
    /\ p \in gated
    /\ db' = Flushed(db, tx[p], rows[p])
    /\ tx' = [tx EXCEPT ![p] = Nothing]
    /\ pc' = [pc EXCEPT ![p] = "idle"]
    /\ EndsTx(p)
    /\ UNCHANGED <<mem, scan, nonce, faults>>

\* ConcurrentWriteError and rollback: a row is not the one expected, an
\* INSERT meets a row of another process, or the tip has moved.
RefuseTx(p) ==
    /\ \/ \E t \in RowTables : ReadsNext(p, t) /\ ~ExpectedRow(db, tx[p], t)
       \/ Committing(p) /\ InsertsNow(p) /\ MayWrite(p) /\ Blocked(p)
       \/ AtGate(p) /\ ~TipFresh(db, tx[p])
    /\ Reload(p)
    /\ EndsTx(p)
    /\ UNCHANGED faults

\* Any statement may fail (a full disk, a database busy for too long).
FailTx(p) == CommitFails(p) /\ EndsTx(p)

\* A dead process's transaction is rolled back.
CrashTx(p) == Crash(p) /\ EndsTx(p)

-----------------------------------------------------------------------------
SqliteInit ==
    /\ Init
    /\ rows = [p \in Procs |-> NoRows]
    /\ writers = {}
    /\ gated = {}

Statement(p) ==
    \/ \E t \in RowTables : SelectRow(p, t)
    \/ FirstWrite(p)
    \/ PassGate(p)
    \/ CommitTx(p)
    \/ RefuseTx(p)

Elsewhere(p) ==
    /\ Start(p) \/ Recovery(p) \/ Operation(p) \/ ReloadFails(p)
    /\ UNCHANGED statement

SqliteNext ==
    \/ \E p \in Procs : Statement(p) \/ Elsewhere(p) \/ FailTx(p) \/ CrashTx(p)
    \/ Quiescent /\ UNCHANGED statement

SqliteSpec == SqliteInit /\ [][SqliteNext]_sqliteVars

-----------------------------------------------------------------------------
\* What a process has read is what is stored for as long as its audit entry
\* can still be appended: whoever changes a row in between also moves the
\* tip, so no commit is computed from rows that are gone.
RowsAgree ==
    \A p \in Procs :
        pc[p] = "commit" /\ TipFresh(db, tx[p]) =>
            \A t \in RowTables :
                rows[p][t] # Unread =>
                    Writes(tx[p], t) /\ rows[p][t] = StoredRow(db, tx[p], t)

\* The write lock is exclusive and the tip does not move under it.
OneWriter ==
    /\ \A p, q \in writers : p = q
    /\ \A p \in gated : p \in writers /\ pc[p] = "commit" /\ TipFresh(db, tx[p])

\* A bundle sent statement by statement, with other processes committing
\* between its statements, commits or is refused as if it were one step.
AtomicCommits == Spec
=============================================================================
