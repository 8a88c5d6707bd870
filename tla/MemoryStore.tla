----------------------------- MODULE MemoryStore -----------------------------
(***************************************************************************)
(* The platform over the in-memory store (storage/store.py, _InMemoryTx):  *)
(* a bundle's writes are collected and applied one after the other when    *)
(* the transaction ends, each after its own check, under one guard.  The   *)
(* store shares the life of its program: nothing fails but a check, and    *)
(* no process is ever restarted over what it holds.                        *)
(***************************************************************************)
EXTENDS PlatformProperties

\* What _apply leaves behind when it raises: the writes in front of the one
\* it refused, in the order organization, policy, budget, server, round.
Leftover(d, b) ==
    LET written == Apply(d, b)
        budget  == BudgetFresh(d, b)
        server  == budget /\ ServerFresh(d, b)
    IN  [written EXCEPT !.budget  = IF budget THEN @ ELSE d.budget,
                        !.servers = IF server THEN @ ELSE d.servers,
                        !.rounds  = IF server THEN @ ELSE d.rounds,
                        !.audit   = d.audit]

\* ConcurrentWriteError out of the transaction's __exit__
MemoryConflict(p) ==
    /\ pc[p] = "commit"
    /\ ~Fresh(db, tx[p])
    /\ db' = Leftover(db, tx[p])
    /\ tx' = [tx EXCEPT ![p] = Nothing]
    /\ pc' = [pc EXCEPT ![p] = "reconverging"]
    /\ UNCHANGED <<mem, scan, nonce, faults>>

MemoryNext ==
    \/ \E p \in Procs :
          Start(p) \/ Recovery(p) \/ Operation(p) \/ Commit(p) \/ MemoryConflict(p)
    \/ Quiescent

MemorySpec == Init /\ [][MemoryNext]_vars

-----------------------------------------------------------------------------
\* "One guard for check+apply makes concurrent bundles atomic here too"
\* (_InMemoryTx.__exit__; StoreTx: "One atomic bundle of store writes"): the
\* store changes by whole bundles or not at all.  It does not: TLC refutes it.
BundleAtomic ==
    [][db' # db => \E p \in Procs : pc[p] = "commit" /\ db' = Apply(db, tx[p])]_vars
=============================================================================
