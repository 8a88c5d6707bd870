----------------------------- MODULE StoreState -----------------------------
(***************************************************************************)
(* What is persisted (storage/store.py, storage/models.py) and what one    *)
(* bundle of writes does to it.  A bundle is what a platform operation     *)
(* hands to store.transaction(): the rows to write, each with the proof    *)
(* of freshness (`expect_*`) it was computed from, closed by one audit     *)
(* entry.                                                                  *)
(*                                                                         *)
(* Ids and hashes are numbers drawn from one counter: an operation, its    *)
(* ledger event, its round and its audit entry share one, and the hash of  *)
(* an entry is its id (no two entries hash alike).  The parameters of a    *)
(* model are the ids of the rounds summed into it.                         *)
(***************************************************************************)
EXTENDS Sequences, PolicyEngine, Accounting

CONSTANTS Cohorts,     \* the pairs sector_group:domain that key the models
          NoBudget,    \* no budget row was ever committed
          NoServer,    \* no federated server for a cohort
          Nothing,     \* a bundle does not write this table
          Dims         \* feature dimensions of the clients' data

Genesis == 0   \* the hash "0" * 64 an empty log starts from

Actions == {"org.join", "consent.update", "query.histogram", "query.variance",
            "query.correlation", "federated.round"}
Entries == [id : Nat, prev : Nat, action : Actions, org : OrgIds \cup {NoOrg},
            metrics : SUBSET AllowedMetrics, participants : SUBSET OrgIds, eps : Nat]
ServerRows == [dim : Dims, model : Seq(Nat), rounds : Nat]
Stores == [orgs : Registries, policies : PolicyTables,
           budget : Accountants \cup {NoBudget},
           servers : [Cohorts -> ServerRows \cup {NoServer}],
           rounds : [Cohorts -> Seq(Nat)], audit : Seq(Entries)]

\* The writes of a bundle.
OrgWrites == [id : OrgIds, data : Organizations]
PolicyWrites == [id : OrgIds, data : Policies]
BudgetWrites == [data : Accountants, expect : Amounts]
ServerWrites == [key : Cohorts, data : ServerRows, expect : Nat]
RoundWrites == [key : Cohorts, id : Nat]
Bundles == [org : OrgWrites \cup {Nothing}, policy : PolicyWrites \cup {Nothing},
            budget : BudgetWrites \cup {Nothing}, server : ServerWrites \cup {Nothing},
            round : RoundWrites \cup {Nothing}, entry : Entries]

ASSUME StoreAssumption ==
    /\ Cohorts \subseteq [sector : Sectors, domain : Domains]
    /\ NoBudget \notin Accountants
    /\ NoServer \notin ServerRows
    /\ Nothing \notin Bundles \cup OrgWrites \cup PolicyWrites \cup BudgetWrites
                         \cup ServerWrites \cup RoundWrites

Tip(log) == IF log = <<>> THEN Genesis ELSE log[Len(log)].id

EmptyStore ==
    [orgs     |-> Nobody,
     policies |-> NoPolicies,
     budget   |-> NoBudget,
     servers  |-> [k \in Cohorts |-> NoServer],
     rounds   |-> [k \in Cohorts |-> <<>>],
     audit    |-> <<>>]

\* PersistedState.is_empty: stored policies alone do not count
IsEmpty(d) ==
    /\ d.orgs = Nobody
    /\ d.budget = NoBudget
    /\ d.audit = <<>>
    /\ \A k \in Cohorts : d.servers[k] = NoServer /\ d.rounds[k] = <<>>

\* An audit entry, and a bundle that writes nothing but it.
Entry(id, log, action, org, metrics, contributors, eps) ==
    [id |-> id, prev |-> Tip(log), action |-> action, org |-> org,
     metrics |-> metrics, participants |-> contributors, eps |-> eps]

Bundle(entry) ==
    [org |-> Nothing, policy |-> Nothing, budget |-> Nothing,
     server |-> Nothing, round |-> Nothing, entry |-> entry]

-----------------------------------------------------------------------------
(* The proofs of freshness, checked against the state the bundle meets.    *)

\* Mutation: the spend may have moved since it was read.
BudgetFresh_Unchecked(d, b) == TRUE

BudgetFresh(d, b) ==
    b.budget # Nothing /\ d.budget # NoBudget => d.budget.spent = b.budget.expect

ServerFresh(d, b) ==
    b.server # Nothing /\ d.servers[b.server.key] # NoServer
        => d.servers[b.server.key].rounds = b.server.expect

\* Mutation: the audit entry is appended without a look at the tip.
TipFresh_Unchecked(d, b) == TRUE

TipFresh(d, b) == Tip(d.audit) = b.entry.prev

Fresh(d, b) == BudgetFresh(d, b) /\ ServerFresh(d, b) /\ TipFresh(d, b)

-----------------------------------------------------------------------------
(* The writes.                                                             *)

\* Mutation: events are told apart by what they cost.
MergeEvents_ByCost(existing, incoming) ==
    existing \cup {e \in incoming : \A x \in existing : x.cost # e.cost}

\* _merge_events: the stored events, and those of the bundle it does not have
MergeEvents(existing, incoming) ==
    existing \cup {e \in incoming : \A x \in existing : x.id # e.id}

SaveBudget(old, write) ==
    IF write = Nothing THEN old
    ELSE IF old = NoBudget THEN write.data
    ELSE [write.data EXCEPT !.events = MergeEvents(old.events, @)]

\* Mutation: the round row goes in front of the earlier ones.
AppendRound_Front(rounds, write) ==
    IF write = Nothing THEN rounds ELSE [rounds EXCEPT ![write.key] = <<write.id>> \o @]

AppendRound(rounds, write) ==
    IF write = Nothing THEN rounds ELSE [rounds EXCEPT ![write.key] = Append(@, write.id)]

Apply(d, b) ==
    [orgs     |-> IF b.org = Nothing THEN d.orgs
                  ELSE [d.orgs EXCEPT ![b.org.id] = b.org.data],
     policies |-> IF b.policy = Nothing THEN d.policies
                  ELSE [d.policies EXCEPT ![b.policy.id] = b.policy.data],
     budget   |-> SaveBudget(d.budget, b.budget),
     servers  |-> IF b.server = Nothing THEN d.servers
                  ELSE [d.servers EXCEPT ![b.server.key] = b.server.data],
     rounds   |-> AppendRound(d.rounds, b.round),
     audit    |-> Append(d.audit, b.entry)]
=============================================================================
