------------------------- MODULE PlatformProperties -------------------------
(***************************************************************************)
(* What the platform promises: the properties of the processes and their   *)
(* store that the runs check and PlatformProofs proves.                    *)
(***************************************************************************)
EXTENDS Platform
Sets == INSTANCE FiniteSetsExt

MetricOf(action) ==
    CASE action = "query.histogram"   -> "histogram"
      [] action = "query.variance"    -> "variance"
      [] action = "query.correlation" -> "correlation"
      [] action = "federated.round"   -> RoundMetric

IsRelease(e) == e.action \notin {"org.join", "consent.update"}
IsRound(e) == e.action = "federated.round"

Statuses == {"down", "starting", "idle", "commit", "reconverging"}

\* Every variable keeps its type, and a bundle exists exactly while its
\* process commits.
TypeOK ==
    /\ db \in Stores
    /\ mem \in [Procs -> Memories]
    /\ pc \in [Procs -> Statuses]
    /\ tx \in [Procs -> Bundles \cup {Nothing}]
    /\ \A p \in Procs : pc[p] = "commit" <=> tx[p] # Nothing
    /\ scan \in [Procs -> [state : Stores, read : 0..TableCount]]
    /\ nonce \in 0..MaxOps
    /\ faults \in 0..MaxFaults

\* The stored log is one chain: every entry extends the one before it, and no
\* two entries share an id, whatever processes raced to append
\* (audit.verify_chain over what append_audit let in).
AuditChained ==
    \A i \in DOMAIN db.audit :
        /\ db.audit[i].prev = IF i = 1 THEN Genesis ELSE db.audit[i - 1].id
        /\ \A j \in 1..(i - 1) : db.audit[j].id # db.audit[i].id

\* No release without its charge: what the stored log shows as released has
\* its event in the stored ledger, whoever else was committing
\* (save_budget and append_audit are one bundle).
Released == {db.audit[i] : i \in {j \in DOMAIN db.audit : IsRelease(db.audit[j])}}
ReleasesCharged ==
    \A e \in Released :
        db.budget # NoBudget /\ \E x \in db.budget.events : x.id = e.id

\* No two processes spend the same budget: the stored spend covers the sum of
\* the epsilons and deltas of everything released.
EventOf(e) == CHOOSE x \in db.budget.events : x.id = e.id
SpendCoversReleases ==
    Released # {} =>
        /\ SumFunction([e \in Released |-> e.eps]) <= db.budget.spent.eps
        /\ SumFunction([e \in Released |-> EventOf(e).cost.delta])
               <= db.budget.spent.delta

\* Nothing is spent that is not listed: whoever wrote the stored spend, from
\* whatever it had loaded, the ledger merged under it (save_budget) accounts for
\* all of it.
SpendIsListed ==
    db.budget # NoBudget =>
        LET listed == LedgerSpend(db.budget.events)
        IN  /\ db.budget.spent.eps <= listed.eps
            /\ db.budget.spent.delta <= listed.delta

\* Neither the stored accountant nor one in memory is ever over its limit in
\* both composition regimes.
WithinBudget ==
    /\ db.budget # NoBudget => BudgetSound(db.budget)
    /\ \A p \in Procs : BudgetSound(mem[p].acc)

\* The allow-lists organization o, registered as org, has given by entry n of a
\* log: its vertical's default and those of its updates.
JoinedBy(log, n, o) ==
    \E i \in 1..n : log[i].action = "org.join" /\ log[i].org = o
GivenBy(log, n, o, org) ==
    {DefaultPolicyFor(org).metrics} \cup
    {log[i].metrics : i \in {j \in 1..n : /\ log[j].action = "consent.update"
                                          /\ log[j].org = o}}

\* No release is made up: each one in the log is over organizations that joined
\* before it and had given the metric by then, at an epsilon within their caps,
\* and an aggregate meets the floors of all of them; no torn load, race,
\* rebuild or restart lends consent nobody gave.
ReleasesWereConsented ==
    \A i \in DOMAIN db.audit :
        LET e == db.audit[i]
        IN  IsRelease(e) =>
                /\ \A o \in e.participants :
                      /\ JoinedBy(db.audit, i - 1, o)
                      /\ \E metrics \in GivenBy(db.audit, i - 1, o, db.orgs[o]) :
                            MetricOf(e.action) \in metrics
                      /\ e.eps <= DefaultPolicyFor(db.orgs[o]).cap
                      /\ ~IsRound(e) => Cardinality(e.participants)
                                             >= DefaultPolicyFor(db.orgs[o]).floor
                /\ ~IsRound(e) => Cardinality(e.participants) >= MinParticipants

\* A release commits only over organizations whose stored policy, at the
\* instant of the commit, allows that metric at that epsilon: consent
\* withdrawn by another process before the commit is never overridden.
ConsentedNow(e) ==
    \A o \in e.participants :
        /\ db.orgs[o] # NoOrg /\ db.policies[o] # NoPolicy
        /\ MetricOf(e.action) \in db.policies[o].metrics
        /\ e.eps <= db.policies[o].cap
ReleasesHonourConsent ==
    [][\A p \in Procs : /\ pc[p] = "commit"
                        /\ db'.audit = Append(db.audit, tx[p].entry)
                        /\ IsRelease(tx[p].entry)
                        => ConsentedNow(tx[p].entry)]_vars

\* The log accounts for governance: the members are the organizations that
\* joined, each once, and every stored policy is the vertical default of its
\* organization with the allow-list of the latest consent update, so no race
\* loosens a cap or a floor.
JoinsOf(o) == {i \in DOMAIN db.audit : db.audit[i].action = "org.join" /\ db.audit[i].org = o}
ConsentsOf(o) ==
    {i \in DOMAIN db.audit : db.audit[i].action = "consent.update" /\ db.audit[i].org = o}
ReplayedPolicy(o) ==
    LET default == DefaultPolicyFor(db.orgs[o])
    IN  IF ConsentsOf(o) = {} THEN default
        ELSE [default EXCEPT !.metrics = db.audit[Sets!Max(ConsentsOf(o))].metrics]
GovernanceReplays ==
    \A o \in OrgIds :
        /\ Cardinality(JoinsOf(o)) = IF db.orgs[o] = NoOrg THEN 0 ELSE 1
        /\ db.policies[o] = IF db.orgs[o] = NoOrg THEN NoPolicy ELSE ReplayedPolicy(o)

\* The stored rounds are the audited rounds: each is kept under one cohort,
\* in the order of the log, and none is kept that the log does not show.
RoundIds(k) == {db.rounds[k][n] : n \in DOMAIN db.rounds[k]}
AuditedRounds == {db.audit[i].id : i \in {j \in DOMAIN db.audit : IsRound(db.audit[j])}}
RoundsAudited ==
    /\ UNION {RoundIds(k) : k \in Cohorts} = AuditedRounds
    /\ \A k, l \in Cohorts : k # l => RoundIds(k) \cap RoundIds(l) = {}
    /\ \A k \in Cohorts : \A m, n \in DOMAIN db.rounds[k], i, j \in DOMAIN db.audit :
           /\ m < n
           /\ db.audit[i].id = db.rounds[k][m]
           /\ db.audit[j].id = db.rounds[k][n]
           => i < j

\* No process shows a log that forks from the stored one: what it holds is a
\* stored prefix, followed by entries that were never stored only while its
\* own operation is in flight or once storage has failed it.
StoredIds == {db.audit[i].id : i \in DOMAIN db.audit}
LogNeverForks ==
    \A p \in Procs :
        \E n \in 0..Len(mem[p].audit) :
            LET unsaved == {mem[p].audit[i].id : i \in (n + 1)..Len(mem[p].audit)}
            IN  /\ n <= Len(db.audit)
                /\ SubSeq(mem[p].audit, 1, n) = SubSeq(db.audit, 1, n)
                /\ unsaved \cap StoredIds = {}
                /\ unsaved = {} \/ pc[p] \in {"commit", "reconverging"} \/ faults > 0

\* What a process knows of the members its own log tells: they joined in it, and
\* the consent it holds is one they gave in it.  Loads read the log last, so
\* knowledge may lag behind the log and never leads it.
KnowledgeIsLogged ==
    \A p \in Procs, o \in OrgIds :
        LET m == mem[p]
        IN  m.orgs[o] # NoOrg =>
                /\ JoinedBy(m.audit, Len(m.audit), o)
                /\ \E metrics \in GivenBy(m.audit, Len(m.audit), o, m.orgs[o]) :
                       m.policies[o] = [DefaultPolicyFor(m.orgs[o]) EXCEPT
                                           !.metrics = metrics]

\* preview() answers what the request would meet: a process allows a preview
\* exactly when the same request, sent next, would be cleared and charged.
AdmittedNext(m, k, metric, eps, delta) ==
    /\ Cleared(m, k, metric, eps)
    /\ IF metric = RoundMetric
       THEN Admits(m.acc, RoundCost(eps, delta), GaussianRdp[eps])
       ELSE Admits(m.acc, QueryCost(eps), LaplaceRdp[eps])
PreviewTellsTruth ==
    \A p \in Procs, k \in Cohorts, metric \in AllowedMetrics,
       eps \in Epsilons, delta \in Deltas :
        pc[p] = "idle" =>
            (Previewed(mem[p], k, metric, eps, delta)
                <=> AdmittedNext(mem[p], k, metric, eps, delta))

-----------------------------------------------------------------------------
(* What the code's own words say and its behaviour does not keep: TLC      *)
(* refutes each of these.                                                  *)

\* "Single-process callers always present matching proofs" (StoreTx): with no
\* other process and no fault, a bundle is fresh when it commits.
FreshAlone == \A p \in Procs : pc[p] = "commit" => Fresh(db, tx[p])

\* "in-memory and stored state cannot silently diverge" (store.py): a process
\* that is up to date serves the models that are stored.
ModelStored ==
    \A p \in Procs, k \in Cohorts :
        /\ pc[p] = "idle" /\ Tip(mem[p].audit) = Tip(db.audit)
        /\ mem[p].servers[k] # NoServer /\ mem[p].servers[k].model # <<>>
        =>
            /\ db.servers[k] # NoServer
            /\ db.servers[k].model = mem[p].servers[k].model

\* "if the commit fails the platform rebuilds its live objects from the last
\* committed state" (store.py): no charge survives that was never stored.
LedgerRebuilt ==
    [][\A p \in Procs :
          pc[p] = "reconverging" /\ pc'[p] = "idle" /\ faults' = faults =>
              mem'[p].acc.events \subseteq
                  (IF db'.budget = NoBudget THEN {} ELSE db'.budget.events)]_vars

\* "deterministic restart replay" (README): what is stored can be loaded.
RestartDecodes == ~Undecodable(db)

\* "Explicit constructor args act as seed defaults for an empty store"
\* (__post_init__): until a budget is stored, the limit is the seed's.
SeedLimitKept == \A p \in Procs : db.budget = NoBudget => mem[p].acc.limit = SeedLimit

\* "a result is only released when at least this many distinct organizations
\* contributed" (config.py): the survivors of a round meet the floor.
RoundKeepsFloor ==
    \A e \in Released : IsRound(e) => Cardinality(e.participants) >= MinParticipants

\* "404 until a round has run" (app.py): a server is there to be served only
\* once a round of its cohort has run.
ServedAfterRound ==
    \A p \in Procs, k \in Cohorts :
        mem[p].servers[k] # NoServer => mem[p].servers[k].history # <<>>
=============================================================================
