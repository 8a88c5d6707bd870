# SentryLink in TLA+

A verification project for SentryLink (`src/sentrylink`): a platform that lets
organizations pool answers - histograms, variances, correlations, federated
model rounds - under consent policies and a privacy budget, with every release
written to a hash-chained audit log. The modules here are translated from the
code, TLC checks them on small instances, and TLAPS proves the central results
for every value of the constants.

Run, inside this directory, `tlc -config MCPlatform.cfg MCPlatform.tla` (any
configuration of the table in section 4) and `tlapm PlatformProofs.tla` (any
module whose name ends in `Proofs`, and `SumLemmas`).

## 1. The system

### Components, their state, and what makes them correct

| component (code) | state | operations | correct when |
|---|---|---|---|
| **Platform** (`platform.py`) | live registry, policies, accountant, servers, audit log; one `RLock` | `join`, `set_consent`, `histogram`, `variance`, `correlation`, `run_federated_round`, `preview`, reports; internally `_commit`, `_restore`, `_reset_empty` | what is released was consented to, charged and audited; memory agrees with the store whenever it is used to decide |
| **State store** (`storage/store.py`, `codec.py`, `models.py`) | six tables: orgs, policies, budget with its ledger, servers, rounds, audit | `load`, and bundles of `save_*`/`append_*` in `transaction()`, each with an `expect_*` proof of freshness | bundles computed from an outdated log, spend or model are refused; what is stored can be loaded; ledger rows are neither lost nor counted twice |
| **Privacy accountant** (`crypto/differential_privacy.py`) | limit, spent, events, Renyi totals | `charge`, `preview` | delta and one of two composition regimes within the limit; preview and charge decide alike |
| **Governance** (`governance/policy.py`, `registry.py`) | registry, policies | `evaluate`, `cohort`, `update`, `authenticate` | only active, consenting organizations of a cohort contribute, and no fewer than the strictest floor |
| **Audit log** (`governance/audit.py`) | entries linked by hash | `record`, `restore`, `verify_chain`, `timeline` | one chain |
| **Federated server** (`federated/*.py`) | global model, history | `run_round`, training, evaluation | history is what was audited |
| **Secure aggregation** (`crypto/secure_aggregation.py`, `prg.py`) | keys, contributions, revealed seeds of a round | `register`, `mask_and_send`, `receive`, `reveal_seed`, `add_recovery_seed`, `finalize` | every mask cancels; dropouts do not stop the round |
| **Secret-shared statistics** (`mpc/stats.py`, `crypto/secret_sharing.py`) | none | `share_vector`, `reconstruct`, `run_histogram`, `run_variance`, `run_correlation` | the opened totals are the pooled ones |
| **Rate limiter** (`ratelimit.py`) | times of recent calls per key; one lock | `allow` | at most the limit in a window, nobody refused without cause |
| **Schema migrations** (`storage/migrations.py`, `engine.py`) | the SQLite file and its version stamp | `migrate` at every process start | the stamp claims no table or column the file lacks; whoever serves finds them all; an index is lost to a crash only |
| **HTTP API** (`api/*.py`, `settings.py`, `errors.py`) | the requests its threads are working on | endpoints: authenticate, membership, rate limit, platform call, response | an answer is true of what is stored; keys keep working; every request is answered |
| **Cards, reports, observability; demos, simulations, benchmarks** | log records, counters | formatting, drivers | not modelled: they hold no state of the system |

### How they interact

Every state-changing operation of the platform has one shape. Under the
process's lock it reads the live objects and decides (policy, budget); it
*changes the live objects first* - charging the accountant, training the model,
appending to the audit log - and then hands one bundle to `store.transaction()`.
The store compares the proofs the bundle carries (the audit tip, the spend, the
round count) with what it holds and either writes everything or raises
`ConcurrentWriteError`. On any exception of the commit the platform rebuilds its
live objects from `store.load()` and raises. Several processes do this against
one SQLite file; nothing but the proofs coordinates them.

### What is hard

* **Two processes over one store**: memory is stale the moment another process
  commits, and every decision is taken on memory.
* **Memory first, store second**: an operation that raises between its first
  change of memory and its commit leaves memory ahead of the store. Only the
  commit's own failure is followed by a rebuild.
* **Loads are six queries, not one transaction**: another process may commit
  between two of them.
* **Crashes and storage failures**, during commit and during the rebuild.
* **Two composition regimes** in the accountant, decided by `charge` and again,
  in code of its own, by `preview`.
* **A SQLite bundle is several statements**: its SELECTs run before its first
  write takes the database's lock, and only changed columns are sent. **An
  in-memory bundle is several writes**, with nothing undone when one is refused.
* **Requests act around the lock**: they authenticate before they hold it, and a
  federated round lets go of it twice between its commit and its answer.
* **Clock read outside the lock** in the rate limiter; **statement-wise
  commits** in migrations; **late, repeated and missing messages** in secure
  aggregation; **wrap-around** in the shared statistics.

`PROJECT.json` lists these hazards at their lines, with the properties that
would catch each.

## 2. The modules

```
PolicyEngine   Accounting ------------ PrivacyAccountant -- MCPrivacyAccountant
      \          /
       StoreState ------------- Consortium  (what the processes promise together)
           |                        :
        Platform                    : INSTANCE ... WITH
           |                        :
     PlatformProperties ------ PlatformRefines -- MCPlatform
           |  |  |
           |  |  \--- SqliteStore -- MCSqliteStore     (the store, by statements)
           |  \------ MemoryStore -- MCMemoryStore     (the store, by writes)
           \--------- Gateway ------ MCGateway         (requests over processes)

RateLimiter -- MCRateLimiter      SecureAggregation -- MCSecureAggregation
Migrations -- MCMigrations        MpcStats -- MCMpcStats

SumLemmas                 sums over finite sets
   |-- PlatformProofs     the processes: one lemma per operation, then chain,
   |      |               spending, ledgers, previews, tips, forks, knowledge,
   |      |               consent given
   |      \-- RefinementProofs    with PlatformRefines, SqliteStore and Gateway:
   |                              the one service, governance, rounds; statements;
   |                              requests: answers, keys, cards
   |-- PrivacyAccountantProofs    with PrivacyAccountant
   |-- SecureAggregationProofs    with SecureAggregation
   \-- MpcStatsProofs             with MpcStats
RateLimiterProofs, MigrationsProofs       with the module they are named after
```

**PolicyEngine** - cohorts, consent, caps and floors as
`PolicyEngine.evaluate` applies them, and the vertical defaults. Pure operators.

**Accounting** - what a charge costs in the two regimes (`Admits`, `Charged`,
`Preview`). Pure operators, shared by the accountant's own module and the
platform's.

**PrivacyAccountant** - one accountant under any sequence of charges, with and
without a Renyi cost. The platform always passes one; the fallback to basic
composition is behaviour of the library alone and is exercised here.

**StoreState** - the six tables, a bundle (`Bundle`), the proofs the store
compares (`Fresh`: audit tip, spend, round count) and what the bundle writes
(`Apply`, with the merge of ledger rows by id).

**Platform** - the processes. `mem[p]` are the live objects, `db` the store,
`tx[p]` the bundle that process `p` is committing, `scan[p]` what its `load()`
has read. One action per operation:

| action | code |
|---|---|
| `Join`, `SetConsent` | `join`, `set_consent` up to the commit |
| `Histogram`, `Variance`, `Correlation` | the three queries: evaluate, charge, audit |
| `HistogramBadLabels` | the labels check that raises after the charge |
| `FederatedRound` | evaluate, create the server, train, charge, audit |
| `RoundOverBudget` | the charge is refused, with model and history already changed |
| `FirstRoundFails` | a first round raises after its server was registered |
| `Commit`, `Conflict`, `CommitFails` | `_commit`: written; `ConcurrentWriteError`; any other exception |
| `ReadTable`, `Reconverged`, `ReloadFails` | one SELECT of `load()`, and `_restore`/`_reset_empty` after a failed commit |
| `Start`, `Started`, `Crash` | `__post_init__`, and the death of a process |
| `Previewed` (operator) | `preview` |

A process is in one operation at a time because operations hold the lock from
the first read to the outcome of the commit. The steps of an operation before
its commit touch only the process's own memory, so they are one step; the
commit is another. `load()` sends one autocommitted SELECT per table, in the
order of `store.py:376-439`: each is a step, and other processes may commit
between any two of them. A new organization's id is random (`Undrawn`).

**Consortium** - the abstract specification: one registry, one table of
consent, one budget, one log, and no processes. `Enrol`, `Allow`, `Answer` and
`Train` each happen at once and state what a member relies on: contributors of
the cohort who *gave* the metric, by their vertical's default or in an update of
the log, at an epsilon within their caps; for an aggregate, no fewer than any of
them asks for; a new ledger event, paid for in full, for every release, with
nothing forgotten and no limit overspent in both regimes; one log entry per
operation. It does not promise that the consent was not replaced since: that is
what two processes over SQLite do not keep (`torn_consent`, section 6).

**PlatformRefines** - `Platform` implements `Consortium`. The mapping takes
what is stored as the abstract state; an operation happens when its bundle
commits, and everything in memory, refused commits, reloads and deaths are
stutters.

**SqliteStore** - `Platform` with `Commit` and `Conflict` taken apart into what
`_SQLiteTx` sends. `SelectRow` is the `session.get` of one `save_*` and its
freshness check; `FirstWrite` the first INSERT or flushed UPDATE, which takes
SQLite's one write lock; `PassGate` the conditional INSERT of `append_audit`;
`CommitTx` the flush of the changed columns and the COMMIT; `RefuseTx` every way
to `ConcurrentWriteError`; `FailTx`, `CrashTx` the rest. Other processes act
between any two of them. Assumed of the libraries, which are not in this
repository: Python's `sqlite3` begins a transaction at the first INSERT or UPDATE
and not at a SELECT (its default transaction control, which `engine.py` does not
change), a WAL database (`engine.py:30-33`) has one writer and makes the next
wait (up to the `timeout` of `engine.py:26`, after which `FailTx`), a session
flushes pending rows ahead of an ORM query but not ahead of a textual INSERT, and
an UPDATE carries only the columns whose value changed since the row was read.

**MemoryStore** - `Platform` over `_InMemoryTx`: `Leftover` is what a refused
bundle leaves applied. No faults and no restarts: this store lives and dies with
its program.

**Gateway** - the API's threads over `Platform`'s processes. A request is
`Arrive`d (authenticated on the live registry, outside the lock) or `PostOrg`
(open enrolment), waits, runs its operation under the lock, and is answered by
the outcome: `Committed`, `Refused` (409), `Failed` (500), after the rebuild when
there is one. A round's answer takes the lock twice more, `Metadata` and `Card`.
`keys` is who holds an API key. `Dies` cuts the connections of a process.

**RateLimiter** - the threads of a server in `allow()`: reading the clock
and entering the locked section are separate steps, with time passing between.
`hits` maps each listed call to the time recorded for it: nothing reads the order
of the list, which `allow()` filters and measures.

**SecureAggregation** - one round. A vector is a quantized update plus a formal
sum of mask streams, one for each pair of clients, so that "exact" means that
every stream has coefficient 0. Contributions may be masked again, arrive in any
order, repeatedly or never; seeds may be revealed at any time.

**Migrations** - `migrate()` of several processes on one file, one DDL statement
or stamp per step in the order of the code (`todo` is what is left), from an empty
file, a version 1 file, a file older than the version table, and a half-migrated
one. `create_all` lists the tables that are missing, then sends each one's CREATE
TABLE followed by the CREATE INDEX of its indexed columns (`models.py:85`); the
driver commits each statement by itself, so that a process can die between them.
A table that is there is passed over together with its indexes.

**MpcStats** - sharing, node-wise addition, opening and the answers computed
from the opened totals, over a small prime field. Shares and totals are exact
integers in the code too; the answers are differences taken in floats, each of
which may come out up to `Rounding` off (`InFloats`), in the comparison with zero
as well as in the result. The reference definitions are sums over pairs of rows
pooled in one place.

### Abstractions

* Ids and hashes are numbers from one counter (`nonce`): an operation, its
  ledger event, its round and its audit entry share one. Hashes do not collide.
* The model's parameters are the ids of the rounds summed into it.
* Budgets are whole units: the floats and the `1e-12` slack of comparisons are
  exact here. Renyi costs and the conversion overhead are constants, a cost for
  each epsilon: that a Gaussian's depends on its delta too is left out.
* Deltas of requests are legal ones; requests the platform rejects before it
  changes anything are not actions of `Platform`. In `Gateway` they leave their
  thread as free as before (`TurnedAway`): which answer it was is not told.
* Noise, training arithmetic, quantization and clipping are left out. An
  evaluation that raises after the model has changed (`server.py:107-109`) is not
  an action: what it leaves behind is what `RoundOverBudget` leaves, without a
  round in the history.
* In `Gateway` a key is membership in the registry of the process that is asked.
* In `Migrations` a step's inspection of the file is one step, and then each
  statement is one of its own (the driver commits DDL by itself). The stamp may
  go back for a moment when a slower process stamps version 1 after a faster
  one stamped 2; it is still true of the file.
* In `SecureAggregation` int64 sums wrap modulo 2^64, which keeps them additive.
* In `MpcStats` values are quantized integers and fractions are compared by
  cross-multiplication. `Rounding` bounds what floats add to a difference, in the
  unit of those integers; where in that range a value falls is left open.

### Not modelled

* The read-only endpoints (`/health`, `/ready`, `/orgs`, `/preview`,
  `/federated/model`, `/audit`, `/timeline`, `/budgets`, `/transparency`),
  request schemas and settings: they hold no state. What `/audit`, `/timeline`
  and `/transparency` show while a commit is in flight, and `/federated/model`
  after a denied round, is listed with the hazards; no property follows what a
  reader was shown.
* Key hashing, cards, reports, the log formatter and metrics: formatting, or
  counters nothing reads back.
* Demos, simulations, benchmarks and the red-team harness: drivers.
* The samplers and calibration formulas of differential privacy, training and
  evaluation arithmetic: numeric, out of TLC's reach.

## 3. The properties

Of the platform (`PlatformProperties`, `PlatformRefines`):

* `ActsAsOne` - processes that race, conflict, reload and die implement
  `Consortium`: every commit is one operation on what is stored at that instant.
  Consent given, caps, floors, a ledger that forgets nothing and the order of
  rounds are all part of it.
* `AuditChained` - the stored log is one chain, whoever raced to append.
* `ReleasesCharged`, `SpendCoversReleases` - no release without its charge; the
  stored spend covers all of them.
* `SpendIsListed` - the stored spend never exceeds what the stored ledger lists,
  although the spend is overwritten by writers who may not know all of the ledger
  that is merged under it.
* `WithinBudget` - stored and live accountants are sound in one of the regimes.
* `GovernanceReplays` - members and policies are what the log's joins and
  consent updates give: no race loosens a cap, a floor or an allow-list.
* `KnowledgeIsLogged` - a process knows no member and no consent that its own
  log does not tell. Loads read the registry first and the log last: knowledge
  lags behind the log and never leads it.
* `ReleasesWereConsented` - each release in the log is over organizations that had
  joined and given the metric before it, within their caps and, for an aggregate,
  their floors.
* `RoundsAudited` - stored rounds are the audited rounds, in the log's order.
* `LogNeverForks` - a process holds a stored prefix, plus entries of its own
  only while in flight or after a storage failure.
* `PreviewTellsTruth` - `preview` allows exactly what would be admitted next.

Of a bundle over SQLite (`SqliteStore`):

* `AtomicCommits` - the statements implement the one-step commit: `SqliteSpec`
  satisfies `Platform`'s `Spec`.
* `RowsAgree` - while a bundle's audit entry can still be appended, the rows it
  has read are the rows that are stored.
* `OneWriter` - one connection writes at a time, and the tip stands still under it.

Of requests (`Gateway`):

* `AnswersTrue` - after a 200 the operation is in the log; after a refusal it is
  not, and does not appear later.
* `KeysWork` - a key works at the process that issued it through its rebuilds and
  restarts, and who was let in is still a member when the lock is free.
* `CardCoversRound` - the answer to a round can always be built and is about a
  model that has this round in it.
* `EveryRequestAnswered` - liveness: no admitted request waits for ever.

The other modules: `Sound`, `PreviewExact`, `LedgerExact`, `AdmissionShrinks`;
`LimitKept`, `RefusalJustified`; `AggregateExact`, `RoundCloses`;
`UpFindsTables`, `IndexFollowsTable` (an index is lost to a
crash only), `SomeoneServes`, `RestartSafe`; `OpenedExact`, `AnswersPooled` (up to
rounding). Each is stated in words above its definition.

Each property of a passing run is paired in `PROJECT.json` with a mutation of
the code's model (the operators with an underscore in their names) that breaks it.

## 4. The runs

| run | configuration | instance and bounds | question |
|---|---|---|---|
| `platform` | `MCPlatform.cfg` | 2 processes, 2 organizations, 2 metrics (one of them, the round, only by an update of consent), floor of 2, cap of 1, 5 operations, 1 fault | do the processes implement the one service, and keep its promises, under conflicts, torn loads, a crash or a storage failure? |
| `sqlite_statements` | `MCSqliteStore.cfg` | 2 processes, 1 organization, 4 metrics (2 of them only by an update of consent), 4 operations, 1 fault | is a bundle sent by statements atomic, with reads and statements of others in between? |
| `gateway` | `MCGateway.cfg` | 2 processes, 3 threads (two on one process), 1 organization, 2 metrics (one of them only by an update of consent), 3 operations, 1 fault, fairness | are answers true, keys good, requests answered? |
| `privacy_accountant` | `MCPrivacyAccountant.cfg` | 4 charges, 2 orders, costs with and without Renyi part | do the regimes compose? |
| `rate_limiter` | `MCRateLimiter.cfg` | 3 threads, limit 2, window 3, stall 1, time to 7 | what does the limiter keep under delays? |
| `secure_aggregation` | `MCSecureAggregation.cfg` | 3 clients, 2 updates, 2 contributions each | is every opened sum exact; does the round close? |
| `migrations` | `MCMigrations.cfg` | 3 processes, 3 tables, 1 index, 2 columns, 1 crash | do concurrent and interrupted starts leave a usable file? |
| `mpc_stats` | `MCMpcStats.cfg` | 2 organizations, 2 nodes, field of 13, differences off by at most 1 | are opened totals and answers the pooled ones? |
| `bundle_atomic`, `restart_decodes`, `round_keeps_floor`, `torn_consent` | one `.cfg` each | 1 process, no fault (`torn_consent`: 2 processes) | the findings of section 6: TLC must find the violation |

**Bounds.** `MaxOps` counts operations that draw an id. In `platform` 5 are two
joins, a consent update and two that race, which is what a release over a cohort
of two takes, or two joins, two updates and the round they allow; over one organization 4 leave as many to race, and 3 in `gateway`
are a join and two rounds, the shortest way to a second round between a first
one's commit and its card, or a join, an update of consent and the histogram it
allows. The three aggregate metrics differ in their names only:
`sqlite_statements` reaches each of them, the other runs the histogram. Every
mutation is caught within these bounds. `MaxFaults` counts crashes and storage
failures together. In the instances with a limit of 3 units, one release of cost
2 is admitted by basic composition and a second only by the Renyi bound, so both
regimes and their boundary are reached; in `platform` releases cost at most 1
(the cap), and the limit is 1, in epsilon and in delta, so that a round may
exceed it after its training. The constructor's limit always differs from the
default one. In `mpc_stats` a difference may be off by one unit in either
direction, which is enough for a difference of 0 to pass the comparison with
zero and for one of 1 to be stopped by it. In `migrations` one table is indexed,
and the crash may fall between it and its index. `MaxCharges`, `MaxStall`,
`MaxTime`, `MaxCalls`, `MaxSends` and `MaxCrashes` are declared with the module
that uses them. In `rate_limiter` two windows and the longest stall fit in
`MaxTime`; in `mpc_stats` pooled totals reach the largest magnitude the field
can tell, 6, and pass it; the draws of the shares are the two ends of the field,
between which every carry occurs. The updates 1 and 5 of `secure_aggregation`
make sums tell which updates are in them.

**Symmetry** is used over processes, organizations or the threads of the limiter,
and only in runs without liveness.

**Deadlock** is checked in the platform, store, gateway, accountant and
aggregation runs; `Quiescent` (`Done` in `Gateway`) is the only way the platform
may stop, when the bound on operations is reached and nothing is in flight. It
is off where the system stops by design: all processes up or failed in
`migrations`, all answers opened in `mpc_stats`, time exhausted in
`rate_limiter`.

**Fairness.** `Gateway`: a thread that can enter the lock does, a holder of the
lock runs on to its outcome and answer, and a load reads on, all weakly; nothing
obliges a client to send a request, a process to start, or a fault to strike.
Threads of a server run on by themselves, which is all this asks of them. The
platform's lock is not a queue, so that a waiter might be overtaken for ever by
ever new requests: that it is not rests on the bound on requests, and what
`EveryRequestAnswered` shows is that no path through conflict, rebuild and answer
holds the lock for ever or loses a request. `SecureAggregation`: the coordinator
asks those it heard from for seeds and finalizes (`run_round` does so in a loop);
no client is obliged to contribute. `Migrations`: a starting process takes its
steps; none is obliged to start.

## 5. The proofs

| theorem | module | holds |
|---|---|---|
| `TypeCorrect` | `PlatformProofs` | `Spec => []TypeOK` |
| `LogIsChained` | `PlatformProofs` | `Spec => []AuditChained` |
| `EveryReleaseIsCharged` | `PlatformProofs` | `Spec => []ReleasesCharged` |
| `BudgetsHold` | `PlatformProofs` | `Spec => []WithinBudget` |
| `SpendCoversWhatIsReleased` | `PlatformProofs` | `Spec => []SpendCoversReleases` |
| `PreviewIsTruthful` | `PlatformProofs` | `Spec => []PreviewTellsTruth` |
| `LogsNeverFork` | `PlatformProofs` | `Spec => []LogNeverForks` |
| `StoredSpendIsListed` | `PlatformProofs` | `Spec => []SpendIsListed` |
| `KnowledgeFollowsLog` | `PlatformProofs` | `Spec => []KnowledgeIsLogged` |
| `ReleasesHadConsent` | `PlatformProofs` | `Spec => []ReleasesWereConsented` |
| `PlatformActsAsOne` | `RefinementProofs` | `Spec => ActsAsOne`: the platform implements `Consortium` |
| `LogReplaysGovernance` | `RefinementProofs` | `Spec => []GovernanceReplays` |
| `RoundsAreAudited` | `RefinementProofs` | `Spec => []RoundsAudited` |
| `StatementsAreAtomic` | `RefinementProofs` | `SqliteSpec => AtomicCommits`: the detailed store implements `Platform` |
| `ReadsStayTrue`, `WritersExclude` | `RefinementProofs` | `SqliteSpec => []RowsAgree`, `SqliteSpec => []OneWriter` |
| `GatewayRunsPlatform` | `RefinementProofs` | `GatewaySpec => Spec` |
| `AnswersAreTrue`, `KeysAlwaysWork`, `CardsCoverRounds` | `RefinementProofs` | `GatewaySpec` implies `[]AnswersTrue`, `[]KeysWork`, `[]CardCoversRound` |
| `PromisesKept` | `RefinementProofs` | `SqliteSpec` and `GatewaySpec` each imply `[]Promises`: chain, forks, rounds, charges, coverage, ledger, budgets, governance, knowledge, consent given, previews |
| `LayersActAsOne` | `RefinementProofs` | `SqliteSpec` and `GatewaySpec` each imply `ActsAsOne` |
| `AccountantTyped`, `AccountantSound`, `PreviewPromises`, `RefusalsAreFinal`, `TotalsAreTheLedgers` | `PrivacyAccountantProofs` | `TypeOK`, `Sound`, `PreviewExact`, `AdmissionShrinks`, `LedgerExact` |
| `LimiterTyped`, `LimiterKeepsLimit`, `RefusalsAreJustified` | `RateLimiterProofs` | `TypeOK`, `LimitKept`, `RefusalJustified` |
| `SchemaTyped`, `StampIsHonest`, `UpFindsItsTables`, `IndexLostToCrashOnly` | `MigrationsProofs` | `TypeOK`, `StampNamesTheFile` (the stamp claims no table or column that the file lacks), `UpFindsTables`, `IndexFollowsTable` |
| `RoundTyped`, `AggregatesAreExact` | `SecureAggregationProofs` | `TypeOK`, `AggregateExact` |
| `TheSumAloneShows` | `SecureAggregationProofs` | `Spec => []OnlyTheSumShows`: the coordinator learns the sum and no more |
| `SharesTyped`, `TotalsAreExact`, `AnswersAreThePooled` | `MpcStatsProofs` | `TypeOK`, `OpenedExact`, `AnswersPooled` |
| `SharesHide` | `MpcStatsProofs` | all nodes but one learn nothing of a vector from its shares |

They hold for any number of processes, organizations, cohorts, threads and
clients, any limits and costs, and any bounds, from the assumptions named
`...Assumption` in the modules, all of which TLC evaluates, and with loads that
other processes' commits may fall between. The next paragraphs give the
invariant behind each and why it is needed.

**The platform.** The first part of `PlatformProofs` reduces the eight operations
to two shapes: an operation *prepares* a bundle (`Prepares`) or *raises*
(`Raises`), and each has one lemma that says which and what is known of it:
whose log the entry extends, that the accountant was charged at most once, for
exactly what the bundle writes. The invariants are then built on top of
`TypeOK`:

1. `ChainInv` strengthens `AuditChained`, which is not inductive: an appended
   entry could repeat an id. It adds that ids in flight are at most `nonce`,
   are not logged, and are pairwise different.
2. `SpendInv` strengthens `ReleasesCharged` and `WithinBudget`: a bundle in
   flight pays for its own release, and a budget row that a load has read, but
   not yet installed, was sound when it was read.
3. `LedgerInv` says where an event can be: every accountant - stored, live or
   read by a load - is `Kept` (finitely many events, ids that have been drawn,
   each once), and the id of a bundle in flight is in its own process's
   accountant and `Lacks` in every other. A commit then adds its event and keeps
   the others, and the spend that `expect_spent` compared is the one its charge
   was added to; `CoverInv` (with the finiteness of what is released)
   carries the sums of `SpendCoversReleases` over it (`CoverGrows`).
4. `TipsInv` says whose an audit tip is: an entry in flight is the last of its
   own process's log and of no other log, read or stored. Whoever extends the
   stored log thereby outdates every other process.
5. `ForkInv` strengthens `LogNeverForks`: each process's log is a stored prefix
   and then only `PrivateIds`, ids that are neither stored nor in any other
   process's flight, so that no commit can turn a tail into a fork; what a load
   has read is a stored prefix; a log in flight is some log with the tip that its
   entry expects.
6. `KnowledgeInv` is what torn loads leave of governance. They read the registry
   first and the log last, so whatever a process knows of its members, its own
   log tells (`Told`): they joined in it, and the consent held is one they gave in
   it. Members are never removed and stored once, so two who know an organization
   know it alike (`Includes`), until its id is drawn a second time, which
   `Undrawn` excludes (`OnlyMember`). A bundle in flight was decided from some
   memory that its own log tells (`DecidedFrom`); when it commits, that log is the
   stored one (`CommitFinds`). What it releases was therefore given, whether or
   not it has been replaced since.
7. `ListedInv` strengthens `SpendIsListed`: every accountant's spend is at most the
   sum of its own events, and an event is the same wherever it is listed. A writer
   overwrites the spend by its own and merges its events into the ledger; the merged
   ledger contains its own, and a ledger with more events accounts for no less
   (`LedgerIsMonotone`).

`SpendCoversReleases` needs the comparison of the spend by `save_budget`: its
mutant in `sqlite_statements` drops it, and its proof uses it. `PreviewTellsTruth`
follows from `TypeOK` alone: `preview` and `charge` decide alike at every
accountant, each by its own code.

**The one service.** The invariants 1-3 and 4-6 together are `Knowing`. By
`CommitDecided` the bundle that commits enrols an organization that nobody has
stored, updates the consent of a stored one, or releases over a cohort evaluated
in a memory `x` whose log is the stored log; by `WillingIsAgreed` those it is over
are members who gave their consent for all the stored log says. Each commit is
then an action of `Consortium` (`Enrol`, `Allow`, `Answer`, `Train`, one lemma each;
`CommitCharges` is the budget's part of the latter two) and every other step a
stutter, which is `PlatformActsAsOne`. `LogReplaysGovernance` keeps, for each
organization, where it joined and which consent update is its last (`ReplayInv`);
what a process's load had mixed does not enter, since an update sends the whole
policy and its base differs from the vertical's only in the allow-list it
replaces. `RoundsAreAudited` keeps that a bundle brings a round exactly when its
entry is one's (`RoundLogInv`).

**The store.** `StatementInv` strengthens `RowsAgree` and `OneWriter`: a process
has read, holds the lock or passed the gate only while its bundle is in flight;
what it has read is stored and is what its bundle expects *as long as the tip is
the one it expects* (`AgreedInv`); who passed the gate has read everything. Its
step through another process's commit is where `TipsInv` is needed: that commit
moves the tip to an id no other bundle in flight expects, so all that others have
read stops mattering. Then behind the gate every freshness proof holds, an
UPDATE of changed columns over the row it was computed from is the whole row
(`SentWhole`), the flush is `Apply` (`FlushIsApply`), and each step of
`SqliteNext` is a step of `Next` or a stutter (`StatementsSimulate`). Platform's
invariants therefore carry over at every instant between two statements.

**Requests.** Every step of `Gateway` is a step of `Platform` or leaves it alone
(`GatewayRunsPlatform`), so what is proved above holds under it. `HoldersInv`
ties the stage of a request to the state of its process: one holder of the lock,
and its operation is the one in flight. For answers, `HonestInv` also says that the
id of a running or refused operation is not stored and is in nobody else's
flight. For keys, `KeysInv` follows a member through store, load and memory: a key
belongs to a stored organization, a load under way has not missed anybody its
process must know, and a joining id is nobody else's. For cards, `StoreInv` and
`RoundsInv` say that stored rounds only grow in number and id, and that whatever
replaces a server between a round's commit and its card - later rounds, rebuilds,
restarts - still has that round (`KeptBy`).

**The smaller parts.** `LimiterInv` relates the recorded times to the real ones:
a call is recorded at most `MaxStall` before it is granted, and one that is off
the list was granted at least a window less a stall ago, whoever dropped it.
`SchemaInv` says how far a process in the middle of a step may trust the file
(`Honest`): tables are never dropped, so what it has seen stays true. `IndexInv`
follows the indexes: who has just created a table owes its indexes, which are
not there and which nobody else owes (`OwesAlone`), since only one CREATE TABLE
succeeds; so no start fails at an index (`FailsOwingNothing`), and a debt is
lost with its process only. `MaskedInv` says that whatever is held of a client
is one of its updates with its half of every stream; a seed takes out exactly
the half that an absent peer would have cancelled (`StreamsOfPair`).

**What a round of aggregation hides.** `TheSumAloneShows` gives the formal streams
values (`Wire`: what travels for a vector, as a whole number; the `int64` that
really travels is that number modulo 2^64) and shows that other updates with the
same sum would have looked the same: let client `a` be one whose seeds with the
others that were heard are unrevealed; move each other client's difference into
the stream it shares with `a` (`Shift`). The differences add up to nothing, so
they cancel in `a`'s own vector (`ShiftOfOne`), and no revealed stream has moved.
`run_round` asks for seeds of clients it has not heard, so the condition holds
until a client thought lost is heard after all; then the theorem says of which
others the condition is still met. It speaks of the one vector held of each
client: two vectors masked in the same round by one client carry the same masks.

**Shares.** `ShareInv` is the invariant behind `MpcStats`: for each component,
what all nodes hold together is congruent, modulo `P`, to the statistics of the
organizations that have contributed (`Congruent`, `Held`, `Given`), and what is
opened is a total of all. `SharesAddUp` adds a contribution on both sides;
`SignSurvives` says why `signed_mod` finds the one number in its range that the
field element stands for. `OpenedExact` says nothing of the other numbers, as
nothing can be said. `AnswersPooled` is algebra over sums: a statistic summed row
by row within each organization and then over organizations is the sum over all
rows (`SumsOverRows`, by `SumOfFibres`), the sum of products of differences
over all pairs of rows is twice `n * sum(xy) - sum(x) * sum(y)`
(`CovarianceOfPairs`), and each difference is off by no more than `Rounding`.
`SharesHide` assumes `Draws = Field`, which is
`secrets.randbelow(FIELD_P)`: for every other vector exactly one draw shows the
same shares to all nodes but one, so that equally likely draws tell nothing.

**Sums.** `SumFunction` is a fold, and the facts about it (`SumWithout`: the sum
does not depend on the order the fold picks) are induction over finite sets. That
does not need an induction theorem over predicates: `SumLemmas` takes a smallest
subset for which the claim fails, which exists because strict inclusion is
well-founded on the subsets of a finite set, and shows that it does not fail.
Sums of sums are taken over unions of fibres (`SumOfFibres`) and images
(`SumOfImage`).

**Only model-checked:** liveness (`EveryRequestAnswered`, `RoundCloses`,
`SomeoneServes`, `RestartSafe`), since `ENABLED` and fairness are out of the
prover's reach, and the `violation` runs, which are counterexamples. Every other
property of a passing run is a theorem above.

## 6. What the code does otherwise than it says

* `bundle_atomic` - the in-memory store, one process, no fault: a bundle refused
  at its model has already written its budget, and the store keeps a charge
  whose release was never logged.
* `restart_decodes` - after a round denied by the budget, the next successful
  round stores a round count that a restart refuses to decode.
* `round_keeps_floor` - clients dropped by the request leave a round released
  over fewer organizations than the floor.
* `torn_consent` - a load that pairs old policies with the new audit tip lets a
  release over withdrawn consent through.

One promise is deliberately not made, for the reason behind `torn_consent`: that
the stored spend *equals* what the stored ledger lists. A process may read the
budget before, and the log after, a release of another process; one of its own
queries then raises after a charge of the same cost; now it *expects* exactly the
spend that is stored, and its next release passes `save_budget`'s comparison
(`store.py:265`) on a ledger it never saw. The events are merged, the spend is
overwritten, and the stored spend lacks a charge that the stored ledger lists. What
remains true is that the ledger accounts for all of the spend (`SpendIsListed`)
and the spend for all that was released (`SpendCoversReleases`).

Eight more statements in the modules are refuted by TLC when they are put in a
configuration, and are kept for the reader:

* `FreshAlone` (as the next four, in `PlatformProperties`): a single process whose
  query raised after its charge (labels of the wrong length) has its next budget
  write refused as stale.
* `ModelStored`: an aborted round is served although it was never stored.
* `LedgerRebuilt`: rebuilding from a store without a budget row keeps the live
  accountant.
* `SeedLimitKept`: a commit that fails on an empty store replaces the
  constructor's limit by the default.
* `ServedAfterRound`: a first round that raises leaves a server behind.
* `WindowKept` (`RateLimiter`): a thread delayed between clock and lock lets a
  window see more than the limit, by the delay. `LimitKept` is what remains true.
* `UpMeansComplete` (`Migrations`): a process that dies after CREATE TABLE and
  before CREATE INDEX leaves a file whose index no later start creates, and which
  is stamped and served all the same. `IndexFollowsTable` is what remains true.
* `ConstantColumnUncorrelated` (`MpcStats`): the correlation's guard against
  columns that do not vary (`stats.py:147-151`) compares a float difference with
  zero, and one that is off by a unit gets past it. The code's example is
  `x = y = [0.1, 0.1, 0.1]`: covariance and variances all come out at about
  1.7e-18 and the answer is 1.0, where `test_properties.py:95` has 0 for a
  constant column of ones. `AnswersPooled` promises covariance and variances up
  to that rounding, and no more.

## 7. Plan

1. **Requests over statements**: no module is needed for the composition. The
   conjunction `GatewaySpec /\ SqliteSpec` is requests whose commits are sent
   statement by statement (the two share the platform's variables, and a step of
   one alone is a stutter of the other), and it keeps what either keeps; a
   module of its own would only pay for liveness over statements.
2. **Statistics and federated arithmetic** in more detail where a property can
   tell the difference (contribution caps, evaluation tallies).
