------------------------------ MODULE Platform ------------------------------
(***************************************************************************)
(* SentryLinkPlatform (platform.py): processes that each keep the registry, *)
(* the consent policies, the privacy accountant, the federated servers and *)
(* the audit log in memory and share one state store.  An operation runs   *)
(* under the process's lock from reading its memory to the outcome of its  *)
(* commit, so a process has at most one in flight.  It changes memory      *)
(* first and then commits one bundle; when the commit is refused or fails, *)
(* memory is rebuilt from the store.                                       *)
(***************************************************************************)
EXTENDS StoreState

CONSTANTS Procs,
          Epsilons,        \* the epsilons requests ask for
          Deltas,          \* the deltas federated rounds ask for
          ConsentChoices,  \* the allow-lists an organization sets
          SeedLimit,       \* limit of the accountant passed to the constructor
          DefaultLimit,    \* DEFAULT_EPSILON * 100, DEFAULT_DELTA * 100
          LaplaceRdp,      \* LaplaceRdp[e]: laplace_rdp_cost at epsilon e
          GaussianRdp,     \* GaussianRdp[e]: gaussian_rdp_cost at epsilon e
          MaxOps,          \* bound: operations that change anything
          MaxFaults        \* bound: crashes and storage failures

ASSUME PlatformAssumption ==
    /\ Epsilons \subseteq Nat
    /\ Deltas \subseteq Nat
    /\ ConsentChoices \subseteq SUBSET AllowedMetrics
    /\ SeedLimit \in Amounts
    /\ DefaultLimit \in Amounts
    /\ LaplaceRdp \in [Epsilons -> RdpCosts]
    /\ GaussianRdp \in [Epsilons -> RdpCosts]
    /\ MaxOps \in Nat
    /\ MaxFaults \in Nat

VARIABLES db,      \* the store's committed state
          mem,     \* mem[p]: the live objects of process p
          pc,      \* pc[p]: what p's lock holder is doing
          tx,      \* tx[p]: the bundle p is committing
          scan,    \* scan[p]: the tables store.load() has read so far
          nonce,   \* the ids drawn
          faults   \* the faults that struck
vars == <<db, mem, pc, tx, scan, nonce, faults>>

-----------------------------------------------------------------------------
(* The live objects and their recovery from the store.                     *)

LiveServers == [dim : Dims, model : Seq(Nat), history : Seq(Nat)]
Memories == [orgs : Registries, policies : PolicyTables, acc : Accountants,
             servers : [Cohorts -> LiveServers \cup {NoServer}],
             last : [Cohorts -> Nat], audit : Seq(Entries)]

ASSUME LiveAssumption == NoServer \notin LiveServers

LiveObjects(limit) ==
    [orgs    |-> Nobody,
     policies |-> NoPolicies,
     acc     |-> NewAccountant(limit),
     servers |-> [k \in Cohorts |-> NoServer],
     last    |-> [k \in Cohorts |-> Genesis],
     audit   |-> <<>>]

\* SQLiteStateStore.load sends one SELECT per table, each its own transaction:
\* the state `seen` so far, with table number n read from d.
TableCount == 6

\* Mutation: the log is read before everything else.
ReadFrom_AuditFirst(seen, d, n) ==
    [orgs     |-> IF n = 2 THEN d.orgs ELSE seen.orgs,
     policies |-> IF n = 3 THEN d.policies ELSE seen.policies,
     budget   |-> IF n = 4 THEN d.budget ELSE seen.budget,
     servers  |-> IF n = 5 THEN d.servers ELSE seen.servers,
     rounds   |-> IF n = 6 THEN d.rounds ELSE seen.rounds,
     audit    |-> IF n = 1 THEN d.audit ELSE seen.audit]

ReadFrom(seen, d, n) ==
    [orgs     |-> IF n = 1 THEN d.orgs ELSE seen.orgs,
     policies |-> IF n = 2 THEN d.policies ELSE seen.policies,
     budget   |-> IF n = 3 THEN d.budget ELSE seen.budget,
     servers  |-> IF n = 4 THEN d.servers ELSE seen.servers,
     rounds   |-> IF n = 5 THEN d.rounds ELSE seen.rounds,
     audit    |-> IF n = 6 THEN d.audit ELSE seen.audit]

NothingRead == [state |-> EmptyStore, read |-> 0]

\* decode_server asserts that the stored round count and the rounds agree.
Undecodable(s) ==
    \E k \in Cohorts : /\ s.servers[k] # NoServer
                       /\ s.servers[k].rounds # Len(s.rounds[k])

\* Mutation: the latest round is not replayed.
DecodedServer_DropsLast(s, k) ==
    IF s.servers[k] = NoServer THEN NoServer
    ELSE [dim |-> s.servers[k].dim, model |-> s.servers[k].model,
          history |-> SubSeq(s.rounds[k], 1, Len(s.rounds[k]) - 1)]

DecodedServer(s, k) ==
    IF s.servers[k] = NoServer THEN NoServer
    ELSE [dim |-> s.servers[k].dim, model |-> s.servers[k].model,
          history |-> s.rounds[k]]

LastOf(history) == IF history = <<>> THEN Genesis ELSE history[Len(history)]

\* _restore() over the live objects m.  A store without a budget row keeps
\* the accountant, and rounds that do not decode leave the servers as they
\* were: the objects before them in the method are replaced by then.
Restored(m, s) ==
    [orgs     |-> s.orgs,
     policies |-> [o \in OrgIds |-> IF s.orgs[o] = NoOrg THEN NoPolicy
                                    ELSE s.policies[o]],
     acc      |-> IF s.budget = NoBudget THEN m.acc ELSE s.budget,
     servers  |-> IF Undecodable(s) THEN m.servers
                  ELSE [k \in Cohorts |-> DecodedServer(s, k)],
     last     |-> IF Undecodable(s) THEN m.last
                  ELSE [k \in Cohorts |-> IF s.servers[k] = NoServer THEN Genesis
                                          ELSE LastOf(s.rounds[k])],
     audit    |-> s.audit]

\* The next SELECT of p's load.  Others may commit before the one after it.
ReadTable(p) ==
    LET n == scan[p].read + 1
    IN  /\ pc[p] \in {"starting", "reconverging"}
        /\ n <= TableCount
        /\ scan' = [scan EXCEPT ![p] =
               [state |-> ReadFrom(scan[p].state, db, n), read |-> n]]
        /\ UNCHANGED <<db, mem, pc, tx, nonce, faults>>

Loaded(p, status, m) ==
    /\ pc[p] = status
    /\ scan[p].read = TableCount
    /\ mem' = [mem EXCEPT ![p] = m]
    /\ scan' = [scan EXCEPT ![p] = NothingRead]
    /\ UNCHANGED <<db, tx, nonce, faults>>

\* A process comes up (__post_init__): constructor arguments seed an empty
\* store, a state that does not decode keeps the process down.
Start(p) ==
    /\ pc[p] = "down"
    /\ pc' = [pc EXCEPT ![p] = "starting"]
    /\ UNCHANGED <<db, mem, tx, scan, nonce, faults>>

Started(p) ==
    LET s     == scan[p].state
        seeds == LiveObjects(SeedLimit)
        fails == ~IsEmpty(s) /\ Undecodable(s)
    IN  /\ Loaded(p, "starting", IF IsEmpty(s) \/ fails THEN seeds ELSE Restored(seeds, s))
        /\ pc' = [pc EXCEPT ![p] = IF fails THEN "down" ELSE "idle"]

\* The rebuild after a refused or failed commit; _reset_empty when the store
\* is empty.  The operation's error is raised in every case.
Reconverged(p) ==
    LET s == scan[p].state
    IN  /\ Loaded(p, "reconverging", IF IsEmpty(s) THEN LiveObjects(DefaultLimit)
                                     ELSE Restored(mem[p], s))
        /\ pc' = [pc EXCEPT ![p] = "idle"]

-----------------------------------------------------------------------------
(* Operations.  Each draws one id, changes the live objects and leaves a   *)
(* bundle to commit, or an error and no bundle.                            *)

Id == nonce + 1
Begin(p) == pc[p] = "idle" /\ nonce < MaxOps

Submit(p, m, bundle) ==
    /\ mem' = [mem EXCEPT ![p] = [m EXCEPT !.audit = Append(@, bundle.entry)]]
    /\ tx' = [tx EXCEPT ![p] = bundle]
    /\ pc' = [pc EXCEPT ![p] = "commit"]
    /\ nonce' = Id
    /\ UNCHANGED <<db, scan, faults>>

\* The operation raises with the live objects as m.
Abort(p, m) ==
    /\ mem' = [mem EXCEPT ![p] = m]
    /\ nonce' = Id
    /\ UNCHANGED <<db, pc, tx, scan, faults>>

\* The id of a new organization is random (secrets.token_hex): it is none that
\* is stored or that any process holds.
Undrawn(o) == db.orgs[o] = NoOrg /\ \A p \in Procs : mem[p].orgs[o] = NoOrg

Join(p, o, cohort) ==
    LET m      == mem[p]
        org    == [sector |-> cohort.sector, domain |-> cohort.domain, active |-> TRUE]
        policy == DefaultPolicyFor(org)
        entry  == Entry(Id, m.audit, "org.join", o, {}, {}, 0)
    IN  /\ Begin(p)
        /\ Undrawn(o)
        /\ Submit(p, [m EXCEPT !.orgs[o] = org, !.policies[o] = policy],
                  [Bundle(entry) EXCEPT !.org = [id |-> o, data |-> org],
                                        !.policy = [id |-> o, data |-> policy]])

\* Mutation: an update replaces the whole policy, caps and floor included.
ConsentBase_Reset(m, o) == FallbackPolicy

\* The policy a consent update starts from: its caps and floor stay.
ConsentBase(m, o) ==
    IF m.policies[o] = NoPolicy THEN DefaultPolicyFor(m.orgs[o]) ELSE m.policies[o]

SetConsent(p, o, metrics) ==
    LET m      == mem[p]
        policy == [ConsentBase(m, o) EXCEPT !.metrics = metrics]
        entry  == Entry(Id, m.audit, "consent.update", o, metrics, {}, 0)
    IN  /\ Begin(p)
        /\ m.orgs[o] # NoOrg
        /\ Submit(p, [m EXCEPT !.policies[o] = policy],
                  [Bundle(entry) EXCEPT !.policy = [id |-> o, data |-> policy]])

-----------------------------------------------------------------------------
(* Aggregate queries: evaluate, charge (epsilon only), audit, commit.      *)

Cleared(m, cohort, metric, eps) == Allows(m.orgs, m.policies, cohort, metric, eps)
Contributors(m, cohort, metric, eps) ==
    Participants(m.orgs, m.policies, cohort, metric, eps)

QueryCost(eps) == [eps |-> eps, delta |-> 0]

\* Mutation: the accountant is encoded before it is charged.
BudgetWrite_Early(before, after) == [data |-> before, expect |-> before.spent]

BudgetWrite(before, after) == [data |-> after, expect |-> before.spent]

\* The steps histogram, variance and correlation share.
Query(p, cohort, metric, action, eps) ==
    LET m     == mem[p]
        acc   == Charged(m.acc, Id, QueryCost(eps), LaplaceRdp[eps])
        entry == Entry(Id, m.audit, action, NoOrg, {},
                       Contributors(m, cohort, metric, eps), eps)
    IN  /\ Begin(p)
        /\ Cleared(m, cohort, metric, eps)
        /\ Admits(m.acc, QueryCost(eps), LaplaceRdp[eps])
        /\ Submit(p, [m EXCEPT !.acc = acc],
                  [Bundle(entry) EXCEPT !.budget = BudgetWrite(m.acc, acc)])

Histogram(p, cohort, eps) == Query(p, cohort, "histogram", "query.histogram", eps)
Variance(p, cohort, eps) == Query(p, cohort, "variance", "query.variance", eps)
Correlation(p, cohort, eps) == Query(p, cohort, "correlation", "query.correlation", eps)

\* labels that do not match the buckets are rejected after the charge
HistogramBadLabels(p, cohort, eps) ==
    LET m == mem[p]
    IN  /\ Begin(p)
        /\ Cleared(m, cohort, "histogram", eps)
        /\ Admits(m.acc, QueryCost(eps), LaplaceRdp[eps])
        /\ Abort(p, [m EXCEPT !.acc = Charged(@, Id, QueryCost(eps), LaplaceRdp[eps])])

-----------------------------------------------------------------------------
(* A federated round: the server is created on demand, the round changes   *)
(* its model and history, and only then is the budget charged.             *)

RoundMetric == "federated_model_round"

ServerFor(m, cohort, dim) ==
    IF m.servers[cohort] = NoServer
    THEN [dim |-> dim, model |-> <<>>, history |-> <<>>]
    ELSE m.servers[cohort]

\* Server `cohort` after round `Id` over clients of dimension dim.
Trained(m, cohort, dim) ==
    LET server == ServerFor(m, cohort, dim)
    IN  [m EXCEPT !.servers[cohort] =
            [server EXCEPT !.model = Append(@, Id), !.history = Append(@, Id)]]

RoundRuns(p, cohort, eps, dim) ==
    /\ Begin(p)
    /\ Cleared(mem[p], cohort, RoundMetric, eps)
    /\ ServerFor(mem[p], cohort, dim).dim = dim

RoundCost(eps, delta) == [eps |-> eps, delta |-> delta]

\* survivors: the roster without the clients the request drops
FederatedRound(p, cohort, eps, delta, dim, survivors) ==
    LET m       == mem[p]
        roster  == Contributors(m, cohort, RoundMetric, eps)
        trained == Trained(m, cohort, dim)
        acc     == Charged(m.acc, Id, RoundCost(eps, delta), GaussianRdp[eps])
        server  == trained.servers[cohort]
        row     == [dim |-> server.dim, model |-> server.model,
                    rounds |-> Len(server.history)]
        entry   == Entry(Id, m.audit, "federated.round", NoOrg, {}, survivors, eps)
    IN  /\ RoundRuns(p, cohort, eps, dim)
        /\ survivors \in (SUBSET roster) \ {{}}
        /\ Admits(m.acc, RoundCost(eps, delta), GaussianRdp[eps])
        /\ Submit(p, [trained EXCEPT !.acc = acc, !.last[cohort] = Id],
                  [Bundle(entry) EXCEPT
                      !.budget = BudgetWrite(m.acc, acc),
                      !.server = [key |-> cohort, data |-> row,
                                  expect |-> Len(ServerFor(m, cohort, dim).history)],
                      !.round  = [key |-> cohort, id |-> Id]])

\* PrivacyBudgetError: raised when the round is already in model and history
RoundOverBudget(p, cohort, eps, delta, dim) ==
    /\ RoundRuns(p, cohort, eps, dim)
    /\ ~Admits(mem[p].acc, RoundCost(eps, delta), GaussianRdp[eps])
    /\ Abort(p, Trained(mem[p], cohort, dim))

\* The first round of a cohort fails before it changes the model (clients of
\* other dimensions, no epochs, everyone dropped); its server stays.
FirstRoundFails(p, cohort, eps, dim) ==
    /\ Begin(p)
    /\ Cleared(mem[p], cohort, RoundMetric, eps)
    /\ mem[p].servers[cohort] = NoServer
    /\ Abort(p, [mem[p] EXCEPT !.servers[cohort] = ServerFor(mem[p], cohort, dim)])

-----------------------------------------------------------------------------
(* preview(): what a request would meet, answered from the live objects and *)
(* changing nothing.                                                       *)

\* Mutation: every mechanism is previewed with the delta of the request.
PreviewDelta_Always(metric, delta) == delta

\* only the Gaussian mechanism of a round is charged the delta of the request
PreviewDelta(metric, delta) == IF metric = RoundMetric THEN delta ELSE 0

PreviewRdp(metric, eps) == IF metric = RoundMetric THEN GaussianRdp[eps] ELSE LaplaceRdp[eps]

Previewed(m, cohort, metric, eps, delta) ==
    /\ Cleared(m, cohort, metric, eps)
    /\ Preview(m.acc, [eps |-> eps, delta |-> PreviewDelta(metric, delta)],
               PreviewRdp(metric, eps)).allowed

-----------------------------------------------------------------------------
(* The outcome of a commit.                                                *)

Commit(p) ==
    /\ pc[p] = "commit"
    /\ Fresh(db, tx[p])
    /\ db' = Apply(db, tx[p])
    /\ tx' = [tx EXCEPT ![p] = Nothing]
    /\ pc' = [pc EXCEPT ![p] = "idle"]
    /\ UNCHANGED <<mem, scan, nonce, faults>>

\* Mutation: a conflict is reported without rebuilding memory.
Reload_Skipped(p) ==
    /\ tx' = [tx EXCEPT ![p] = Nothing]
    /\ pc' = [pc EXCEPT ![p] = "idle"]
    /\ UNCHANGED <<db, mem, scan, nonce>>

\* Mutation: the refused bundle stays pending.
Reload_KeepsBundle(p) ==
    /\ pc' = [pc EXCEPT ![p] = "reconverging"]
    /\ UNCHANGED <<db, mem, tx, scan, nonce>>

Reload(p) ==
    /\ tx' = [tx EXCEPT ![p] = Nothing]
    /\ pc' = [pc EXCEPT ![p] = "reconverging"]
    /\ UNCHANGED <<db, mem, scan, nonce>>

\* ConcurrentWriteError
Conflict(p) ==
    /\ pc[p] = "commit"
    /\ ~Fresh(db, tx[p])
    /\ Reload(p)
    /\ UNCHANGED faults

Fault == faults < MaxFaults /\ faults' = faults + 1

\* any other exception (a busy or full database): nothing was written
CommitFails(p) == pc[p] = "commit" /\ Fault /\ Reload(p)

\* the rebuild cannot read the store either: its error leaves memory as it is
ReloadFails(p) ==
    /\ pc[p] = "reconverging"
    /\ Fault
    /\ pc' = [pc EXCEPT ![p] = "idle"]
    /\ scan' = [scan EXCEPT ![p] = NothingRead]
    /\ UNCHANGED <<db, mem, tx, nonce>>

Crash(p) ==
    /\ pc[p] # "down"
    /\ Fault
    /\ mem' = [mem EXCEPT ![p] = LiveObjects(SeedLimit)]
    /\ pc' = [pc EXCEPT ![p] = "down"]
    /\ tx' = [tx EXCEPT ![p] = Nothing]
    /\ scan' = [scan EXCEPT ![p] = NothingRead]
    /\ UNCHANGED <<db, nonce>>

-----------------------------------------------------------------------------
Init ==
    /\ db = EmptyStore
    /\ mem = [p \in Procs |-> LiveObjects(SeedLimit)]
    /\ pc = [p \in Procs |-> "down"]
    /\ tx = [p \in Procs |-> Nothing]
    /\ scan = [p \in Procs |-> NothingRead]
    /\ nonce = 0
    /\ faults = 0

Operation(p) ==
    \/ \E o \in OrgIds, k \in Cohorts : Join(p, o, k)
    \/ \E o \in OrgIds, metrics \in ConsentChoices : SetConsent(p, o, metrics)
    \/ \E k \in Cohorts, eps \in Epsilons :
          \/ Histogram(p, k, eps)
          \/ Variance(p, k, eps)
          \/ Correlation(p, k, eps)
          \/ HistogramBadLabels(p, k, eps)
          \/ \E dim \in Dims :
                \/ FirstRoundFails(p, k, eps, dim)
                \/ \E delta \in Deltas :
                      \/ RoundOverBudget(p, k, eps, delta, dim)
                      \/ \E survivors \in SUBSET OrgIds :
                            FederatedRound(p, k, eps, delta, dim, survivors)

Recovery(p) == ReadTable(p) \/ Started(p) \/ Reconverged(p)

\* The bound on operations is reached and nothing is in flight.
Quiescent ==
    /\ nonce = MaxOps
    /\ \A p \in Procs : pc[p] \in {"idle", "down"}
    /\ UNCHANGED vars

Next ==
    \/ \E p \in Procs :
          \/ Start(p) \/ Recovery(p)
          \/ Operation(p)
          \/ Commit(p) \/ Conflict(p)
          \/ CommitFails(p) \/ ReloadFails(p) \/ Crash(p)
    \/ Quiescent

Spec == Init /\ [][Next]_vars
=============================================================================
