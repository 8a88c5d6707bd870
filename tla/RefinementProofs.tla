--------------------------- MODULE RefinementProofs ---------------------------
(***************************************************************************)
(* The refinements of the platform and what follows from them, for every   *)
(* value of the constants.                                                 *)
(*                                                                         *)
(* 1. The platform's processes act as one service: a bundle that commits   *)
(*    was decided from live objects with the stored log, which tells all   *)
(*    they knew of the members, however torn the loads behind them, and so *)
(*    each commit is one operation of the abstract service on the state it *)
(*    meets.                                                               *)
(* 2. Bundles sent to SQLite statement by statement are atomic:            *)
(*    SqliteStore implements Platform, in which a commit is one step.      *)
(* 3. The HTTP API only takes steps of the platform, with torn loads,      *)
(*    crashes and storage failures: answers tell the truth, keys keep      *)
(*    working, and a round's answer can be built.                          *)
(* 4. So both layers keep whatever the platform promises.                  *)
(***************************************************************************)
EXTENDS PlatformRefines, SqliteStore, Gateway, PlatformProofs

-----------------------------------------------------------------------------
(* A commit is an operation of the service.                                *)

\* Everything the tip vouches for when a bundle commits.
Knowing ==
    TypeOK /\ ChainInv /\ TipsInv /\ ForkInv /\ SpendInv /\ LedgerInv /\ KnowledgeInv

LEMMA KnowingIsInvariant == Spec => []Knowing
<1>1. Init => Knowing
  BY InitType, InitChains, InitTips, InitForks, InitSpends, InitLedgers, InitKnows
     DEF Knowing
<1>2. Knowing /\ [Next]_vars => Knowing'
  BY NextType, NextChains, NextTips, NextForks, NextSpends, NextLedgers, NextKnows
     DEF Knowing
<1>. QED
  BY <1>1, <1>2, PTL DEF Spec

\* A release was decided from x, which knows only what is stored or was.
Releases(x, b) ==
    /\ x.audit = db.audit /\ Told(x, db.audit) /\ Includes(db, x)
    /\ Reports(x, b) \/ Trains(x, b)

\* The bundle that commits enrols an organization nobody stored, updates a
\* stored consent, or releases.
LEMMA CommitDecided ==
    ASSUME Knowing, NEW p \in Procs, Commit(p)
    PROVE  LET b == tx[p]
           IN  /\ b \in Bundles /\ (b.org # Nothing => db.orgs[b.org.id] = NoOrg)
               /\ Enrols(db, b) \/ Updates(db, b) \/ \E x \in Memories : Releases(x, b)
<1>. DEFINE b == tx[p]
<1>1. b \in Bundles /\ pc[p] = "commit" /\ db.policies \in PolicyTables
  BY DEF Knowing, Commit, TypeOK, Stores
<1>2. b.org # Nothing => db.orgs[b.org.id] = NoOrg
  BY <1>1 DEF Knowing, KnowledgeInv, BundleTold, OnlyMember
<1>. PICK x \in Memories : DecidedFrom(x, p) /\ x.audit = db.audit /\ Includes(db, x)
  BY CommitFinds DEF Knowing
<1>3. Decided(x, b) /\ Told(x, db.audit) /\ Told(db, db.audit)
  BY DEF DecidedFrom, Knowing, KnowledgeInv, StoreTold
<1>. HIDE DEF b
<1>4. CASE Enrols(x, b)
  <2>1. Enrols(db, b)
    BY <1>4 DEF Enrols
  <2>. QED
    BY <1>1, <1>2, <2>1 DEF b
<1>5. CASE Updates(x, b)
  <2>. PICK o \in OrgIds, metrics \in SUBSET AllowedMetrics :
           /\ x.orgs[o] # NoOrg
           /\ b.entry = Entry(b.entry.id, x.audit, "consent.update", o, metrics, {}, 0)
           /\ b.org = Nothing
           /\ b.policy = [id |-> o, data |-> [x.policies[o] EXCEPT !.metrics = metrics]]
           /\ b.budget = Nothing /\ b.round = Nothing
    BY <1>5 DEF Updates
  <2>. DEFINE default == DefaultPolicyFor(x.orgs[o])
  <2>1. db.orgs[o] = x.orgs[o] /\ x.orgs[o] \in Organizations
    BY DEF Includes, Memories, Registries
  <2>2. default \in Policies
    BY <2>1, DefaultPolicyType
  <2>3. PICK first : x.policies[o] = [default EXCEPT !.metrics = first]
    BY <1>3 DEF Told
  <2>4. PICK second : db.policies[o] = [default EXCEPT !.metrics = second]
    BY <1>3, <2>1 DEF Told
  <2>. HIDE DEF default
  <2>5. [x.policies[o] EXCEPT !.metrics = metrics]
            = [db.policies[o] EXCEPT !.metrics = metrics]
    <3>1. \A other : [[default EXCEPT !.metrics = other] EXCEPT !.metrics = metrics]
                         = [default EXCEPT !.metrics = metrics]
      BY <2>2 DEF Policies
    <3>. QED
      BY <2>3, <2>4, <3>1
  <2>6. Updates(db, b)
    BY <2>1, <2>5 DEF Updates
  <2>. QED
    BY <1>1, <1>2, <2>6 DEF b
<1>6. CASE Reports(x, b) \/ Trains(x, b)
  BY <1>1, <1>2, <1>3, <1>6 DEF Releases, b
<1>. QED
  BY <1>3, <1>4, <1>5, <1>6 DEF Decided

\* The service's operators on ids, accountants and floors are the platform's.
LEMMA SameOperators ==
    /\ \A id, log, action, org, metrics, some, eps :
           Service!Entry(id, log, action, org, metrics, some, eps)
               = Entry(id, log, action, org, metrics, some, eps)
    /\ \A acc : Service!BudgetSound(acc) <=> BudgetSound(acc)
    /\ \A a, b : Service!Plus(a, b) = Plus(a, b)
    /\ \A org : Service!DefaultPolicyFor(org) = DefaultPolicyFor(org)
    /\ \A S : Service!Cardinality(S) = Cardinality(S)
<1>1. \A id, log, action, org, metrics, some, eps :
          Service!Entry(id, log, action, org, metrics, some, eps)
              = Entry(id, log, action, org, metrics, some, eps)
  BY DEF Service!Entry, Entry, Service!Tip, Tip, Service!Genesis, Genesis
<1>2. \A acc : Service!BudgetSound(acc) <=> BudgetSound(acc)
  BY DEF Service!BudgetSound, BudgetSound, Service!BasicFits, BasicFits,
         Service!RdpFits, RdpFits
<1>3. \A a, b : Service!Plus(a, b) = Plus(a, b)
  BY DEF Service!Plus, Plus
<1>4. \A org : Service!DefaultPolicyFor(org) = DefaultPolicyFor(org)
  BY DEF Service!DefaultPolicyFor, DefaultPolicyFor
<1>5. \A S : Service!Cardinality(S) = Cardinality(S)
  BY DEF Service!Cardinality, Cardinality
<1>. QED
  BY <1>1, <1>2, <1>3, <1>4, <1>5

\* The entry of the bundle that commits has an id of its own.
LEMMA CommitIsNew ==
    ASSUME Knowing, NEW p \in Procs, Commit(p)
    PROVE  /\ db'.audit = Append(db.audit, tx[p].entry) /\ db'.audit # db.audit
           /\ tx[p].entry.id \in 1..MaxOps
           /\ \A i \in DOMAIN db.audit : db.audit[i].id # tx[p].entry.id
<1>. DEFINE e == tx[p].entry
<1>1. db'.audit = Append(db.audit, e) /\ pc[p] = "commit"
  BY DEF Commit, Apply
<1>2. \A i \in DOMAIN db.audit : db.audit[i].id # e.id
  BY <1>1 DEF Knowing, ChainInv, Logged
<1>3. db'.audit # db.audit
  <2>1. db.audit \in Seq(Entries) /\ e \in Entries
    BY <1>1, TipsAreNumbers DEF Knowing, TypeOK, Stores
  <2>2. Len(Append(db.audit, e)) = Len(db.audit) + 1 /\ Len(db.audit) \in Nat
    BY <2>1
  <2>. QED
    BY <1>1, <2>2
<1>4. e.id \in 1..nonce /\ nonce \in 0..MaxOps
  BY <1>1 DEF Knowing, TipsInv, OnlyMine, TypeOK
<1>. QED
  BY <1>1, <1>2, <1>3, <1>4, PlatformAssumption

LEMMA CommitLogs ==
    ASSUME Knowing, NEW p \in Procs, Commit(p), NEW action, NEW org, NEW metrics,
           NEW some, NEW eps,
           tx[p].entry = Entry(tx[p].entry.id, db.audit, action, org, metrics, some, eps)
    PROVE  Service!Logs(tx[p].entry.id, action, org, metrics, some, eps)
  BY CommitIsNew, SameOperators DEF Service!Logs

\* What a bundle leaves of the tables it writes and of those it does not.
LEMMA CommitWrites ==
    ASSUME Knowing, NEW p \in Procs, Commit(p)
    PROVE  LET b == tx[p]
           IN  /\ b \in Bundles /\ db \in Stores
               /\ b.org = Nothing => db'.orgs = db.orgs
               /\ b.org # Nothing => db'.orgs = [db.orgs EXCEPT ![b.org.id] = b.org.data]
               /\ b.policy = Nothing => db'.policies = db.policies
               /\ b.policy # Nothing =>
                      db'.policies = [db.policies EXCEPT ![b.policy.id] = b.policy.data]
               /\ db'.budget = SaveBudget(db.budget, b.budget)
               /\ b.budget = Nothing => db'.budget = db.budget
               /\ b.round = Nothing => db'.rounds = db.rounds
               /\ b.round # Nothing =>
                      db'.rounds = [db.rounds EXCEPT ![b.round.key] = Append(@, b.round.id)]
<1>. DEFINE b == tx[p]
<1>1. b \in Bundles /\ db \in Stores /\ db' = Apply(db, b) /\ pc[p] = "commit"
  BY DEF Knowing, TypeOK, Commit
<1>. HIDE DEF b
<1>3. /\ b.org = Nothing => db'.orgs = db.orgs
      /\ b.org # Nothing => db'.orgs = [db.orgs EXCEPT ![b.org.id] = b.org.data]
      /\ b.policy = Nothing => db'.policies = db.policies
      /\ b.policy # Nothing =>
             db'.policies = [db.policies EXCEPT ![b.policy.id] = b.policy.data]
      /\ db'.budget = SaveBudget(db.budget, b.budget)
      /\ db'.rounds = AppendRound(db.rounds, b.round)
  BY <1>1 DEF Apply
<1>4. /\ b.budget = Nothing => db'.budget = db.budget
      /\ b.round = Nothing => db'.rounds = db.rounds
      /\ b.round # Nothing =>
             db'.rounds = [db.rounds EXCEPT ![b.round.key] = Append(@, b.round.id)]
  BY <1>3 DEF SaveBudget, AppendRound
<1>. QED
  BY <1>1, <1>3, <1>4 DEF b

\* The charge of a release enters the stored ledger and is paid for.
LEMMA CommitCharges ==
    ASSUME Knowing, NEW p \in Procs, Commit(p), tx[p].budget # Nothing
    PROVE  Service!Charges(tx[p].entry.id, tx[p].entry.eps)
<1>. DEFINE b   == tx[p]
            acc == mem[p].acc
            old == db.budget
            new == db'.budget
<1>1. /\ old \in Accountants \cup {NoBudget} /\ b.budget \in BudgetWrites
      /\ new = SaveBudget(old, b.budget) /\ pc[p] = "commit"
  BY CommitWrites DEF Stores, Bundles, Commit
<1>2. new # NoBudget /\ (old # NoBudget => old.events \subseteq new.events)
  BY <1>1, SaveBudgetSpends
<1>3. BudgetSound(new)
  BY <1>2, CommitSpends DEF Knowing, SpendInv, WithinBudget
<1>4. /\ Pays(acc, b) /\ Lacks(old, b.entry.id)
      /\ old # NoBudget => old.spent = b.budget.expect
  BY <1>1 DEF Knowing, LedgerInv, Commit, Fresh, BudgetFresh
<1>5. PICK x \in acc.events :
          /\ x.id = b.entry.id /\ x.cost.eps = b.entry.eps
          /\ acc.spent = Plus(b.budget.expect, x.cost)
  BY <1>4 DEF Pays
<1>6. b.budget.data = acc /\ acc \in Accountants /\ b.budget.expect \in Amounts
  BY <1>1, <1>4 DEF Pays, BudgetWrites
<1>7. x.cost \in Amounts
  BY <1>6 DEF Accountants, Events
<1>. HIDE DEF new, old, b, acc
<1>8. x \in new.events /\ new.spent = acc.spent
  <2>1. old # NoBudget => \A y \in old.events : y.id # x.id
    BY <1>4, <1>5 DEF Lacks
  <2>2. /\ new.spent = acc.spent
        /\ old = NoBudget => new.events = acc.events
        /\ old # NoBudget => new.events = MergeEvents(old.events, acc.events)
    <3>1. b.budget # Nothing
      BY DEF b
    <3>. QED
      BY <1>1, <1>6, <3>1, SavedEvents
  <2>. QED
    BY <2>1, <2>2 DEF MergeEvents
<1>9. LET paid == IF old = NoBudget THEN x.cost ELSE Plus(old.spent, x.cost)
      IN  paid.eps <= new.spent.eps /\ paid.delta <= new.spent.delta
  <2>1. /\ new.spent.eps = b.budget.expect.eps + x.cost.eps
        /\ new.spent.delta = b.budget.expect.delta + x.cost.delta
    BY <1>5, <1>8 DEF Plus
  <2>2. CASE old = NoBudget
    BY <1>6, <1>7, <2>1, <2>2 DEF Amounts
  <2>3. CASE old # NoBudget
    <3>1. Plus(old.spent, x.cost) = new.spent
      BY <1>4, <1>5, <1>8, <2>3
    <3>2. new.spent.eps \in Nat /\ new.spent.delta \in Nat
      BY <1>6, <1>8 DEF Accountants, Amounts
    <3>. QED
      BY <2>3, <3>1, <3>2
  <2>. QED
    BY <2>2, <2>3
<1>. QED
  BY <1>2, <1>3, <1>5, <1>8, <1>9, SameOperators DEF Service!Charges, new, old, b

LEMMA CommitEnrols ==
    ASSUME Knowing, NEW p \in Procs, Commit(p), Enrols(db, tx[p])
    PROVE  \E o \in OrgIds, k \in Cohorts : Service!Enrol(tx[p].entry.id, o, k)
<1>. DEFINE b == tx[p]
<1>. PICK o \in OrgIds, k \in Cohorts :
         /\ b.entry = Entry(b.entry.id, db.audit, "org.join", o, {}, {}, 0)
         /\ b.org = [id |-> o, data |-> Enrolled(k)]
         /\ b.policy = [id |-> o, data |-> DefaultPolicyFor(Enrolled(k))]
         /\ b.budget = Nothing /\ b.round = Nothing
  BY DEF Enrols
<1>1. Enrolled(k) \in Organizations
  BY StoreAssumption DEF Enrolled, Organizations
<1>2. b.org # Nothing /\ b.policy # Nothing
  <2>1. b.org \in OrgWrites /\ b.policy \in PolicyWrites
    BY <1>1, DefaultPolicyType DEF OrgWrites, PolicyWrites
  <2>. QED
    BY <2>1, StoreAssumption
<1>3. /\ db'.orgs = [db.orgs EXCEPT ![o] = Enrolled(k)]
      /\ db'.policies = [db.policies EXCEPT ![o] = DefaultPolicyFor(Enrolled(k))]
      /\ db'.budget = db.budget /\ db'.rounds = db.rounds
      /\ db.orgs[o] = NoOrg
  <2>1. /\ b.org.id = o /\ b.org.data = Enrolled(k)
        /\ b.policy.id = o /\ b.policy.data = DefaultPolicyFor(Enrolled(k))
    OBVIOUS
  <2>2. db.orgs[o] = NoOrg
    BY <1>2, <2>1, CommitDecided
  <2>. QED
    BY <1>2, <2>1, <2>2, CommitWrites
<1>4. Service!Logs(b.entry.id, "org.join", o, {}, {}, 0)
  BY CommitLogs
<1>5. Service!Enrol(b.entry.id, o, k)
  BY <1>3, <1>4, SameOperators DEF Service!Enrol, Enrolled
<1>. QED
  BY <1>5


LEMMA CommitAllows ==
    ASSUME Knowing, NEW p \in Procs, Commit(p), Updates(db, tx[p])
    PROVE  \E o \in OrgIds, metrics \in SUBSET AllowedMetrics :
               Service!Allow(tx[p].entry.id, o, metrics)
<1>. DEFINE b == tx[p]
<1>. PICK o \in OrgIds, metrics \in SUBSET AllowedMetrics :
         /\ db.orgs[o] # NoOrg
         /\ b.entry = Entry(b.entry.id, db.audit, "consent.update", o, metrics, {}, 0)
         /\ b.org = Nothing
         /\ b.policy = [id |-> o, data |-> [db.policies[o] EXCEPT !.metrics = metrics]]
         /\ b.budget = Nothing /\ b.round = Nothing
  BY DEF Updates
<1>1. db.policies[o] \in Policies
  <2>1. db \in Stores /\ Governed(db)
    BY DEF Knowing, TypeOK, KnowledgeInv, StoreTold
  <2>. QED
    BY <2>1 DEF Stores, PolicyTables, Governed
<1>2. b.policy # Nothing
  <2>1. [db.policies[o] EXCEPT !.metrics = metrics] \in Policies
    BY <1>1 DEF Policies
  <2>2. b.policy \in PolicyWrites
    BY <2>1 DEF PolicyWrites
  <2>. QED
    BY <2>2, StoreAssumption
<1>3. /\ db'.orgs = db.orgs
      /\ db'.policies = [db.policies EXCEPT ![o] = [db.policies[o] EXCEPT !.metrics = metrics]]
      /\ db'.budget = db.budget /\ db'.rounds = db.rounds
  <2>1. b.policy.id = o /\ b.policy.data = [db.policies[o] EXCEPT !.metrics = metrics]
    OBVIOUS
  <2>. QED
    BY <1>2, <2>1, CommitWrites
<1>4. db'.policies = [db.policies EXCEPT ![o].metrics = metrics]
  BY <1>3
<1>5. Service!Logs(b.entry.id, "consent.update", o, metrics, {}, 0)
  BY CommitLogs
<1>6. Service!Allow(b.entry.id, o, metrics)
  BY <1>3, <1>4, <1>5 DEF Service!Allow
<1>. QED
  BY <1>6

\* A member that has given the metric, for all the log says, at an epsilon
\* within its cap.
LEMMA WillingIsAgreed ==
    ASSUME Knowing, NEW x \in Memories, Told(x, db.audit), Includes(db, x),
           NEW k \in Cohorts, NEW metric, NEW some \in SUBSET OrgIds, NEW eps,
           Willing(x, k, metric, some, eps)
    PROVE  /\ Service!Agreed(k, metric, some, eps)
           /\ \A o \in some : db.policies[o].floor = x.policies[o].floor
<1>1. Enrolled(k) \in Organizations /\ Enrolled(k) # NoOrg
  <2>1. Enrolled(k) \in Organizations
    BY StoreAssumption DEF Enrolled, Organizations
  <2>. QED
    BY <2>1, PolicyAssumption
<1>2. DOMAIN db.audit = 1..Len(db.audit)
  <2>1. db.audit \in Seq(Entries)
    BY DEF Knowing, TypeOK, Stores
  <2>. QED
    BY <2>1
<1>3. ASSUME NEW o \in some
      PROVE  /\ db.orgs[o] = Enrolled(k)
             /\ Service!Gave(o, metric)
             /\ eps <= db.policies[o].cap
             /\ db.policies[o].floor = x.policies[o].floor
  <2>. DEFINE default == DefaultPolicyFor(Enrolled(k))
  <2>1. x.orgs[o] = Enrolled(k) /\ metric \in x.policies[o].metrics /\ eps <= x.policies[o].cap
    BY DEF Willing
  <2>2. db.orgs[o] = Enrolled(k)
    BY <1>1, <2>1 DEF Includes
  <2>3. default \in Policies
    BY <1>1, DefaultPolicyType
  <2>4. PICK first \in GivenBy(db.audit, Len(db.audit), o, Enrolled(k)) :
                 x.policies[o] = [default EXCEPT !.metrics = first]
    BY <1>1, <2>1 DEF Told
  <2>5. PICK second : db.policies[o] = [default EXCEPT !.metrics = second]
    BY <1>1, <2>2 DEF Told, Knowing, KnowledgeInv, StoreTold
  <2>6. \/ first = default.metrics
        \/ \E i \in 1..Len(db.audit) : /\ db.audit[i].action = "consent.update"
                                       /\ db.audit[i].org = o
                                       /\ first = db.audit[i].metrics
    BY <2>4, GivenIs
  <2>7. Service!DefaultPolicyFor(db.orgs[o]) = default
    BY <2>2, SameOperators
  <2>. HIDE DEF default
  <2>8. \A other : LET new == [default EXCEPT !.metrics = other]
                   IN  new.metrics = other /\ new.cap = default.cap /\ new.floor = default.floor
    BY <2>3, PolicyParts
  <2>9. metric \in first
    BY <2>1, <2>4, <2>8
  <2>10. Service!Gave(o, metric)
    BY <1>2, <2>6, <2>7, <2>9 DEF Service!Gave
  <2>11. /\ eps <= db.policies[o].cap
         /\ db.policies[o].floor = x.policies[o].floor
    BY <2>1, <2>4, <2>5, <2>8
  <2>. QED
    BY <2>2, <2>10, <2>11
<1>4. some # {}
  BY DEF Willing
<1>. QED
  BY <1>3, <1>4 DEF Service!Agreed, Enrolled

LEMMA CommitAnswers ==
    ASSUME Knowing, NEW p \in Procs, Commit(p),
           NEW x \in Memories, Releases(x, tx[p]), Reports(x, tx[p])
    PROVE  \E k \in Cohorts, some \in SUBSET OrgIds, eps \in Epsilons :
               \/ Service!Answer(tx[p].entry.id, k, "query.histogram", "histogram", some, eps)
               \/ Service!Answer(tx[p].entry.id, k, "query.variance", "variance", some, eps)
               \/ Service!Answer(tx[p].entry.id, k, "query.correlation", "correlation", some, eps)
<1>. DEFINE b == tx[p]
<1>. PICK k \in Cohorts, some \in SUBSET OrgIds, eps \in Epsilons, action \in Queries :
         /\ b.entry = Entry(b.entry.id, x.audit, action, NoOrg, {}, some, eps)
         /\ Willing(x, k, MetricOf(action), some, eps)
         /\ Cardinality(some) >= MinParticipants
         /\ \A o \in some : Cardinality(some) >= x.policies[o].floor
         /\ b.org = Nothing /\ b.policy = Nothing
         /\ b.budget # Nothing /\ b.round = Nothing
  BY DEF Reports
<1>1. /\ db'.orgs = db.orgs /\ db'.policies = db.policies /\ db'.rounds = db.rounds
  BY CommitWrites
<1>2. Service!Logs(b.entry.id, action, NoOrg, {}, some, eps)
  BY CommitLogs DEF Releases
<1>3. b.entry.eps = eps
  <2>1. Entry(b.entry.id, x.audit, action, NoOrg, {}, some, eps).eps = eps
    BY DEF Entry
  <2>. QED
    BY <2>1
<1>4. Service!Charges(b.entry.id, eps)
  BY <1>3, CommitCharges
<1>5. /\ Service!Agreed(k, MetricOf(action), some, eps)
      /\ \A o \in some : db.policies[o].floor = x.policies[o].floor
  BY WillingIsAgreed DEF Releases
<1>6. /\ Service!Cardinality(some) >= MinParticipants
      /\ \A o \in some : Service!Cardinality(some) >= db.policies[o].floor
  BY <1>5, SameOperators
<1>7. Service!Answer(b.entry.id, k, action, MetricOf(action), some, eps)
  BY <1>1, <1>2, <1>4, <1>5, <1>6 DEF Service!Answer
<1>8. \/ action = "query.histogram" /\ MetricOf(action) = "histogram"
      \/ action = "query.variance" /\ MetricOf(action) = "variance"
      \/ action = "query.correlation" /\ MetricOf(action) = "correlation"
  BY DEF Queries, MetricOf
<1>. QED
  BY <1>7, <1>8

LEMMA CommitTrains ==
    ASSUME Knowing, NEW p \in Procs, Commit(p),
           NEW x \in Memories, Releases(x, tx[p]), Trains(x, tx[p])
    PROVE  \E k \in Cohorts, some \in SUBSET OrgIds, eps \in Epsilons :
               Service!Train(tx[p].entry.id, k, some, eps)
<1>. DEFINE b == tx[p]
<1>. PICK k \in Cohorts, some \in SUBSET OrgIds, eps \in Epsilons :
         /\ b.entry = Entry(b.entry.id, x.audit, "federated.round", NoOrg, {}, some, eps)
         /\ Willing(x, k, RoundMetric, some, eps)
         /\ b.org = Nothing /\ b.policy = Nothing
         /\ b.budget # Nothing /\ b.round = [key |-> k, id |-> b.entry.id]
  BY DEF Trains
<1>1. b.round # Nothing
  <2>1. b.entry.id \in Nat
    BY CommitWrites, IdsAreNumbers
  <2>2. b.round \in RoundWrites
    BY <2>1 DEF RoundWrites
  <2>. QED
    BY <2>2, StoreAssumption
<1>2. /\ db'.orgs = db.orgs /\ db'.policies = db.policies
      /\ db'.rounds = [db.rounds EXCEPT ![k] = Append(@, b.entry.id)]
  <2>1. b.round.key = k /\ b.round.id = b.entry.id
    OBVIOUS
  <2>. QED
    BY <1>1, <2>1, CommitWrites
<1>3. Service!Logs(b.entry.id, "federated.round", NoOrg, {}, some, eps)
  BY CommitLogs DEF Releases
<1>4. b.entry.eps = eps
  <2>1. Entry(b.entry.id, x.audit, "federated.round", NoOrg, {}, some, eps).eps = eps
    BY DEF Entry
  <2>. QED
    BY <2>1
<1>5. Service!Charges(b.entry.id, eps)
  BY <1>4, CommitCharges
<1>6. Service!Agreed(k, "federated_model_round", some, eps)
  BY WillingIsAgreed DEF RoundMetric, Releases
<1>7. Service!Train(b.entry.id, k, some, eps)
  BY <1>2, <1>3, <1>5, <1>6 DEF Service!Train
<1>. QED
  BY <1>7

\* A commit is a step of the service.
LEMMA CommitServes ==
    ASSUME Knowing, NEW p \in Procs, Commit(p)
    PROVE  Service!Next
<1>. DEFINE id == tx[p].entry.id
<1>1. Enrols(db, tx[p]) \/ Updates(db, tx[p]) \/ \E x \in Memories : Releases(x, tx[p])
  BY CommitDecided
<1>2. db'.audit # db.audit /\ id \in 1..MaxOps
  BY CommitIsNew
<1>3. CASE Enrols(db, tx[p])
  BY <1>2, <1>3, CommitEnrols DEF Service!Next
<1>4. CASE Updates(db, tx[p])
  BY <1>2, <1>4, CommitAllows DEF Service!Next
<1>5. ASSUME NEW x \in Memories, Releases(x, tx[p])
      PROVE  Service!Next
  <2>1. CASE Reports(x, tx[p])
    BY <1>2, <1>5, <2>1, CommitAnswers DEF Service!Next
  <2>2. CASE Trains(x, tx[p])
    BY <1>2, <1>5, <2>2, CommitTrains DEF Service!Next
  <2>. QED
    BY <1>5, <2>1, <2>2 DEF Releases
<1>. QED
  BY <1>1, <1>3, <1>4, <1>5

\* Nothing but a commit changes what is stored.
LEMMA OthersStutter ==
    ASSUME TypeOK, [Next]_vars, \A p \in Procs : ~Commit(p)
    PROVE  db' = db
<1>1. \A p \in Procs : Prepares(p) \/ Raises(p) => db' = db
  BY DEF Prepares, Raises, Submit, Abort
<1>2. \A p \in Procs : Recovery(p) => db' = db
  BY DEF Recovery, ReadTable, Started, Reconverged, Loaded
<1>3. \A p \in Procs : Conflict(p) \/ CommitFails(p) \/ ReloadFails(p) \/ Crash(p) \/ Start(p)
          => db' = db
  BY DEF Start, Conflict, CommitFails, Reload, ReloadFails, Crash
<1>4. UNCHANGED vars => db' = db
  BY DEF vars
<1>. QED
  BY <1>1, <1>2, <1>3, <1>4, OperationKinds DEF Next, Quiescent

\* Processes that race, conflict, reload and die act as one service: each
\* commit is one operation on the members, consents, budget, rounds and log
\* that are stored at that instant, whatever its process had read before (the
\* gates of append_audit and save_budget, and the order in which load reads).
THEOREM PlatformActsAsOne == Spec => ActsAsOne
<1>1. Init => Service!Init
  BY DEF Init, Service!Init, EmptyStore, Nobody, Service!Nobody, NoPolicies, Service!NoPolicies
<1>2. ASSUME Knowing, [Next]_vars
      PROVE  [Service!Next]_(Service!state)
  <2>1. CASE \E p \in Procs : Commit(p)
    BY <1>2, <2>1, CommitServes
  <2>2. CASE \A p \in Procs : ~Commit(p)
    <3>1. db' = db
      BY <1>2, <2>2, OthersStutter DEF Knowing
    <3>. QED
      BY <3>1 DEF Service!state
  <2>. QED
    BY <2>1, <2>2
<1>. QED
  BY <1>1, <1>2, KnowingIsInvariant, PTL DEF Spec, ActsAsOne, Service!Spec

-----------------------------------------------------------------------------
(* The log accounts for governance.                                        *)

\* What the log says of o is what is stored of it: its one join, and its
\* default terms with the allow-list of the last of its updates.
Replays(o) ==
    /\ db.orgs[o] = NoOrg => JoinsOf(o) = {} /\ ConsentsOf(o) = {}
    /\ db.orgs[o] # NoOrg => \E i \in DOMAIN db.audit : JoinsOf(o) = {i}
    /\ ConsentsOf(o) = {} =>
           db.policies[o] = IF db.orgs[o] = NoOrg THEN NoPolicy
                            ELSE DefaultPolicyFor(db.orgs[o])
    /\ ConsentsOf(o) # {} =>
           \E i \in ConsentsOf(o) :
               /\ \A j \in ConsentsOf(o) : j <= i
               /\ db.policies[o] = [DefaultPolicyFor(db.orgs[o]) EXCEPT
                                       !.metrics = db.audit[i].metrics]

ReplayInv == \A o \in OrgIds : Replays(o)

\* One more entry is one more join or consent of its organization, or neither.
LEMMA LogGrows ==
    ASSUME Knowing, NEW p \in Procs, Commit(p)
    PROVE  LET e == tx[p].entry
               n == Len(db.audit) + 1
           IN  /\ n \in Nat /\ n \in DOMAIN db'.audit /\ db'.audit[n] = e
               /\ DOMAIN db.audit \subseteq DOMAIN db'.audit
               /\ \A i \in DOMAIN db.audit : i \in Nat /\ i <= n /\ db'.audit[i] = db.audit[i]
               /\ \A o \in OrgIds :
                      /\ JoinsOf(o)' = IF e.action = "org.join" /\ e.org = o
                                       THEN JoinsOf(o) \cup {n} ELSE JoinsOf(o)
                      /\ ConsentsOf(o)' = IF e.action = "consent.update" /\ e.org = o
                                          THEN ConsentsOf(o) \cup {n} ELSE ConsentsOf(o)
<1>. DEFINE e == tx[p].entry
            n == Len(db.audit) + 1
<1>1. db'.audit = Append(db.audit, e) /\ db.audit \in Seq(Entries) /\ e \in Entries
  BY CommitIsNew, TipsAreNumbers DEF Knowing, TypeOK, Stores, Commit
<1>. HIDE DEF e
<1>2. /\ Len(db.audit) \in Nat
      /\ DOMAIN db.audit = 1..Len(db.audit) /\ DOMAIN db'.audit = 1..n
      /\ db'.audit[n] = e
      /\ \A i \in 1..Len(db.audit) : db'.audit[i] = db.audit[i]
  BY <1>1
<1>3. n \in DOMAIN db'.audit /\ DOMAIN db'.audit = DOMAIN db.audit \cup {n}
  BY <1>2
<1>4. \A i \in DOMAIN db.audit : i \in Nat /\ i <= n /\ i # n /\ db'.audit[i] = db.audit[i]
  BY <1>2
<1>5. ASSUME NEW o \in OrgIds
      PROVE  JoinsOf(o)' = IF e.action = "org.join" /\ e.org = o
                           THEN JoinsOf(o) \cup {n} ELSE JoinsOf(o)
  BY <1>2, <1>3, <1>4 DEF JoinsOf
<1>6. ASSUME NEW o \in OrgIds
      PROVE  ConsentsOf(o)' = IF e.action = "consent.update" /\ e.org = o
                              THEN ConsentsOf(o) \cup {n} ELSE ConsentsOf(o)
  BY <1>2, <1>3, <1>4 DEF ConsentsOf
<1>. QED
  BY <1>2, <1>3, <1>4, <1>5, <1>6 DEF e

\* What the log said of o it still says when o's row and entries are untouched.
LEMMA ReplaysKept ==
    ASSUME Knowing, NEW p \in Procs, Commit(p), NEW o \in OrgIds, Replays(o),
           db'.orgs[o] = db.orgs[o], db'.policies[o] = db.policies[o],
           JoinsOf(o)' = JoinsOf(o), ConsentsOf(o)' = ConsentsOf(o)
    PROVE  Replays(o)'
<1>1. \A i \in ConsentsOf(o) : i \in DOMAIN db.audit /\ db'.audit[i] = db.audit[i]
  BY LogGrows DEF ConsentsOf
<1>2. \A i \in DOMAIN db.audit : i \in DOMAIN db'.audit
  BY LogGrows
<1>3. ConsentsOf(o) # {} =>
          \E i \in ConsentsOf(o) :
              /\ \A j \in ConsentsOf(o) : j <= i
              /\ db'.policies[o] = [DefaultPolicyFor(db'.orgs[o]) EXCEPT
                                       !.metrics = db'.audit[i].metrics]
  BY <1>1 DEF Replays
<1>. QED
  BY <1>2, <1>3 DEF Replays

LEMMA CommitReplays ==
    ASSUME Knowing, ReplayInv, NEW p \in Procs, Commit(p)
    PROVE  ReplayInv'
<1>. DEFINE b == tx[p]
            e == b.entry
            n == Len(db.audit) + 1
<1>0. db \in Stores /\ Governed(db)
  BY DEF Knowing, TypeOK, KnowledgeInv, StoreTold
<1>. SUFFICES ASSUME NEW o \in OrgIds PROVE Replays(o)'
  BY DEF ReplayInv
<1>1. Replays(o)
  BY DEF ReplayInv
<1>2. CASE Enrols(db, b)
  <2>. PICK i \in OrgIds, k \in Cohorts :
           /\ e = Entry(e.id, db.audit, "org.join", i, {}, {}, 0)
           /\ b.org = [id |-> i, data |-> Enrolled(k)]
           /\ b.policy = [id |-> i, data |-> DefaultPolicyFor(Enrolled(k))]
    BY <1>2 DEF Enrols
  <2>1. Enrolled(k) \in Organizations /\ Enrolled(k) # NoOrg
    <3>1. Enrolled(k) \in Organizations
      BY StoreAssumption DEF Enrolled, Organizations
    <3>. QED
      BY <3>1, PolicyAssumption
  <2>2. b.org # Nothing /\ b.policy # Nothing
    <3>1. b.org \in OrgWrites /\ b.policy \in PolicyWrites
      BY <2>1, DefaultPolicyType DEF OrgWrites, PolicyWrites
    <3>. QED
      BY <3>1, StoreAssumption
  <2>3. e.action = "org.join" /\ e.org = i
    BY DEF Entry
  <2>4. /\ b.org.id = i /\ b.org.data = Enrolled(k)
        /\ b.policy.id = i /\ b.policy.data = DefaultPolicyFor(Enrolled(k))
    OBVIOUS
  <2>5. /\ db'.orgs = [db.orgs EXCEPT ![i] = Enrolled(k)]
        /\ db'.policies = [db.policies EXCEPT ![i] = DefaultPolicyFor(Enrolled(k))]
        /\ db.orgs[i] = NoOrg
    BY <2>2, <2>4, CommitWrites, CommitDecided
  <2>6. /\ JoinsOf(o)' = IF i = o THEN JoinsOf(o) \cup {n} ELSE JoinsOf(o)
        /\ ConsentsOf(o)' = ConsentsOf(o)
    BY <2>3, LogGrows
  <2>7. CASE i = o
    <3>1. JoinsOf(o)' = {n} /\ ConsentsOf(o)' = {} /\ n \in DOMAIN db'.audit
      BY <1>1, <2>5, <2>6, <2>7, LogGrows DEF Replays
    <3>2. db'.orgs[o] = Enrolled(k) /\ db'.policies[o] = DefaultPolicyFor(Enrolled(k))
      BY <1>0, <2>5, <2>7 DEF Stores, Registries, PolicyTables
    <3>. QED
      BY <2>1, <3>1, <3>2 DEF Replays
  <2>8. CASE i # o
    <3>1. db'.orgs[o] = db.orgs[o] /\ db'.policies[o] = db.policies[o]
      BY <1>0, <2>5, <2>8 DEF Stores, Registries, PolicyTables
    <3>. QED
      BY <1>1, <2>6, <2>8, <3>1, ReplaysKept
  <2>. QED
    BY <2>7, <2>8
<1>3. CASE Updates(db, b)
  <2>. PICK i \in OrgIds, metrics \in SUBSET AllowedMetrics :
           /\ db.orgs[i] # NoOrg
           /\ e = Entry(e.id, db.audit, "consent.update", i, metrics, {}, 0)
           /\ b.org = Nothing
           /\ b.policy = [id |-> i, data |-> [db.policies[i] EXCEPT !.metrics = metrics]]
    BY <1>3 DEF Updates
  <2>1. db.policies[i] \in Policies
    BY <1>0 DEF Stores, PolicyTables, Governed
  <2>2. b.policy # Nothing
    <3>1. [db.policies[i] EXCEPT !.metrics = metrics] \in Policies
      BY <2>1 DEF Policies
    <3>2. b.policy \in PolicyWrites
      BY <3>1 DEF PolicyWrites
    <3>. QED
      BY <3>2, StoreAssumption
  <2>3. e.action = "consent.update" /\ e.org = i /\ e.metrics = metrics
    BY DEF Entry
  <2>4. b.policy.id = i /\ b.policy.data = [db.policies[i] EXCEPT !.metrics = metrics]
    OBVIOUS
  <2>5. /\ db'.orgs = db.orgs
        /\ db'.policies = [db.policies EXCEPT ![i] = [db.policies[i] EXCEPT !.metrics = metrics]]
    BY <2>2, <2>4, CommitWrites
  <2>6. /\ JoinsOf(o)' = JoinsOf(o)
        /\ ConsentsOf(o)' = IF i = o THEN ConsentsOf(o) \cup {n} ELSE ConsentsOf(o)
    BY <2>3, LogGrows
  <2>7. CASE i = o
    <3>. DEFINE default == DefaultPolicyFor(db.orgs[o])
    <3>1. /\ n \in ConsentsOf(o)' /\ db'.audit[n].metrics = metrics
          /\ \A j \in ConsentsOf(o)' : j <= n
      <4>1. \A j \in ConsentsOf(o) : j <= n
        BY LogGrows DEF ConsentsOf
      <4>. QED
        BY <2>3, <2>6, <2>7, <4>1, LogGrows
    <3>2. default \in Policies
      <4>1. db.orgs[o] \in Organizations
        BY <1>0, <2>7 DEF Stores, Registries
      <4>. QED
        BY <4>1, DefaultPolicyType
    <3>3. db'.policies[o] = [db.policies[o] EXCEPT !.metrics = metrics]
      BY <1>0, <2>5, <2>7 DEF Stores, PolicyTables
    <3>4. \/ db.policies[o] = default
          \/ \E old : db.policies[o] = [default EXCEPT !.metrics = old]
      BY <1>1, <2>7 DEF Replays
    <3>. HIDE DEF default
    <3>5. db'.policies[o] = [default EXCEPT !.metrics = metrics]
      BY <3>2, <3>3, <3>4 DEF Policies
    <3>6. JoinsOf(o)' = JoinsOf(o) /\ db'.orgs[o] = db.orgs[o]
      BY <2>5, <2>6
    <3>7. \E j \in DOMAIN db'.audit : JoinsOf(o)' = {j}
      BY <1>1, <2>7, <3>6, LogGrows DEF Replays
    <3>. QED
      BY <2>7, <3>1, <3>5, <3>6, <3>7 DEF Replays, default
  <2>8. CASE i # o
    <3>1. db'.orgs[o] = db.orgs[o] /\ db'.policies[o] = db.policies[o]
      BY <1>0, <2>5, <2>8 DEF Stores, PolicyTables
    <3>. QED
      BY <1>1, <2>6, <2>8, <3>1, ReplaysKept
  <2>. QED
    BY <2>7, <2>8
<1>4. ASSUME NEW x \in Memories, Reports(x, b) \/ Trains(x, b)
      PROVE  Replays(o)'
  <2>1. e.action # "org.join" /\ e.action # "consent.update"
    <3>1. ASSUME NEW action, NEW some, NEW eps,
                 e = Entry(e.id, x.audit, action, NoOrg, {}, some, eps)
          PROVE  e.action = action
      BY <3>1 DEF Entry
    <3>2. \E action \in Queries \cup {"federated.round"} : e.action = action
      <4>1. CASE Reports(x, b)
        BY <4>1, <3>1 DEF Reports
      <4>2. CASE Trains(x, b)
        BY <4>2, <3>1 DEF Trains
      <4>. QED
        BY <1>4, <4>1, <4>2
    <3>. QED
      BY <3>2 DEF Queries
  <2>2. b.org = Nothing /\ b.policy = Nothing
    BY <1>4 DEF Reports, Trains
  <2>3. JoinsOf(o)' = JoinsOf(o) /\ ConsentsOf(o)' = ConsentsOf(o)
    BY <2>1, LogGrows
  <2>. QED
    BY <1>1, <2>2, <2>3, CommitWrites, ReplaysKept
<1>. QED
  BY <1>2, <1>3, <1>4, CommitDecided DEF Releases

\* The log accounts for governance: the members are the organizations that
\* joined, each once, and every stored policy is its vertical default with the
\* allow-list of the latest consent update, so no race of processes loosens a
\* cap or a floor, whatever their loads had mixed (join and set_consent).
THEOREM LogReplaysGovernance == Spec => []GovernanceReplays
<1>1. Init => ReplayInv
  BY DEF Init, ReplayInv, Replays, EmptyStore, Nobody, NoPolicies, JoinsOf, ConsentsOf
<1>2. Knowing /\ ReplayInv /\ [Next]_vars => ReplayInv'
  <2>. SUFFICES ASSUME Knowing, ReplayInv, [Next]_vars PROVE ReplayInv'
    OBVIOUS
  <2>1. CASE \E p \in Procs : Commit(p)
    BY <2>1, CommitReplays
  <2>2. CASE \A p \in Procs : ~Commit(p)
    <3>1. db' = db
      BY <2>2, OthersStutter DEF Knowing
    <3>. QED
      BY <3>1 DEF ReplayInv, Replays, JoinsOf, ConsentsOf
  <2>. QED
    BY <2>1, <2>2
<1>3. Knowing /\ ReplayInv => GovernanceReplays
  <2>. SUFFICES ASSUME Knowing, ReplayInv, NEW o \in OrgIds
                PROVE  /\ Cardinality(JoinsOf(o)) = IF db.orgs[o] = NoOrg THEN 0 ELSE 1
                       /\ db.policies[o] = IF db.orgs[o] = NoOrg THEN NoPolicy
                                           ELSE ReplayedPolicy(o)
    BY DEF GovernanceReplays
  <2>1. Replays(o)
    BY DEF ReplayInv
  <2>2. Cardinality(JoinsOf(o)) = IF db.orgs[o] = NoOrg THEN 0 ELSE 1
    BY <2>1, FS_EmptySet, FS_Singleton DEF Replays
  <2>3. CASE ConsentsOf(o) = {}
    BY <2>1, <2>2, <2>3 DEF Replays, ReplayedPolicy
  <2>4. CASE ConsentsOf(o) # {}
    <3>. PICK i \in ConsentsOf(o) :
             /\ \A j \in ConsentsOf(o) : j <= i
             /\ db.policies[o] = [DefaultPolicyFor(db.orgs[o]) EXCEPT
                                     !.metrics = db.audit[i].metrics]
      BY <2>1, <2>4 DEF Replays
    <3>1. \A j \in ConsentsOf(o) : j \in Nat
      <4>1. db.audit \in Seq(Entries)
        BY DEF Knowing, TypeOK, Stores
      <4>. QED
        BY <4>1 DEF ConsentsOf
    <3>2. Sets!Max(ConsentsOf(o)) = i
      BY <3>1 DEF Sets!Max
    <3>3. db.orgs[o] # NoOrg
      BY <2>1, <2>4 DEF Replays
    <3>. QED
      BY <2>2, <2>4, <3>2, <3>3 DEF ReplayedPolicy
  <2>. QED
    BY <2>3, <2>4
<1>. QED
  BY <1>1, <1>2, <1>3, KnowingIsInvariant, PTL DEF Spec

-----------------------------------------------------------------------------
(* The log accounts for the rounds.                                        *)

\* A bundle stores a round under some cohort exactly when its entry is one's.
BringsRound(b) ==
    IF IsRound(b.entry) THEN \E k \in Cohorts : b.round = [key |-> k, id |-> b.entry.id]
    ELSE b.round = Nothing

RoundLogInv ==
    /\ RoundsAudited
    /\ \A p \in Procs : pc[p] = "commit" => BringsRound(tx[p])

LEMMA QueryBrings ==
    ASSUME TypeOK, NEW p \in Procs, NEW k, NEW metric, NEW action \in Queries, NEW eps,
           Query(p, k, metric, action, eps)
    PROVE  BringsRound(tx'[p])
<1>. DEFINE entry == Entry(Id, mem[p].audit, action, NoOrg, {},
                           Contributors(mem[p], k, metric, eps), eps)
<1>1. PICK m, budget : Submit(p, m, [Bundle(entry) EXCEPT !.budget = budget])
  BY DEF Query
<1>2. entry.action = action
  BY DEF Entry
<1>. HIDE DEF entry
<1>3. tx'[p] = [Bundle(entry) EXCEPT !.budget = budget]
  BY <1>1 DEF Submit, TypeOK
<1>4. tx'[p].entry = entry /\ tx'[p].round = Nothing
  BY <1>3 DEF Bundle
<1>. QED
  BY <1>2, <1>4 DEF BringsRound, IsRound, Queries

LEMMA OperationBrings ==
    ASSUME TypeOK, NEW p \in Procs, Operation(p), pc'[p] = "commit"
    PROVE  BringsRound(tx'[p])
<1>1. CASE Raises(p)
  <2>1. pc'[p] = "idle"
    BY <1>1 DEF Raises, Begin, Abort
  <2>. QED
    BY <2>1
<1>2. CASE \E o \in OrgIds, k \in Cohorts : Join(p, o, k)
  <2>. PICK o \in OrgIds, k \in Cohorts : Join(p, o, k)
    BY <1>2
  <2>. DEFINE entry == Entry(Id, mem[p].audit, "org.join", o, {}, {}, 0)
  <2>. DEFINE bundle ==
           [Bundle(entry) EXCEPT !.org = [id |-> o, data |-> Enrolled(k)],
                                 !.policy = [id |-> o, data |-> DefaultPolicyFor(Enrolled(k))]]
  <2>1. tx' = [tx EXCEPT ![p] = bundle]
    BY DEF Join, Submit, Enrolled
  <2>2. entry.action = "org.join"
    BY DEF Entry
  <2>. HIDE DEF entry
  <2>3. bundle.entry = entry /\ bundle.round = Nothing
    BY DEF Bundle
  <2>. HIDE DEF bundle
  <2>. QED
    BY <2>1, <2>2, <2>3 DEF BringsRound, IsRound, TypeOK
<1>3. CASE \E o \in OrgIds, metrics \in ConsentChoices : SetConsent(p, o, metrics)
  <2>. PICK o \in OrgIds, metrics \in ConsentChoices : SetConsent(p, o, metrics)
    BY <1>3
  <2>. DEFINE entry == Entry(Id, mem[p].audit, "consent.update", o, metrics, {}, 0)
  <2>1. PICK m, policy : Submit(p, m, [Bundle(entry) EXCEPT !.policy = policy])
    BY DEF SetConsent
  <2>2. entry.action = "consent.update"
    BY DEF Entry
  <2>. HIDE DEF entry
  <2>3. tx'[p].entry = entry /\ tx'[p].round = Nothing
    BY <2>1 DEF Submit, Bundle, TypeOK
  <2>. QED
    BY <2>2, <2>3 DEF BringsRound, IsRound
<1>4. CASE \E k \in Cohorts, eps \in Epsilons :
               Histogram(p, k, eps) \/ Variance(p, k, eps) \/ Correlation(p, k, eps)
  <2>. PICK k \in Cohorts, eps \in Epsilons :
               Histogram(p, k, eps) \/ Variance(p, k, eps) \/ Correlation(p, k, eps)
    BY <1>4
  <2>1. \E action \in Queries : \E metric : Query(p, k, metric, action, eps)
    BY DEF Histogram, Variance, Correlation, Queries
  <2>. QED
    BY <2>1, QueryBrings
<1>5. CASE \E k \in Cohorts, eps \in Epsilons, dim \in Dims, delta \in Deltas,
                survivors \in SUBSET OrgIds : FederatedRound(p, k, eps, delta, dim, survivors)
  <2>. PICK k \in Cohorts, eps \in Epsilons, dim \in Dims, delta \in Deltas,
            survivors \in SUBSET OrgIds : FederatedRound(p, k, eps, delta, dim, survivors)
    BY <1>5
  <2>. DEFINE entry == Entry(Id, mem[p].audit, "federated.round", NoOrg, {}, survivors, eps)
  <2>. DEFINE server == Trained(mem[p], k, dim).servers[k]
              charged == Charged(mem[p].acc, Id, RoundCost(eps, delta), GaussianRdp[eps])
              row == [dim |-> server.dim, model |-> server.model, rounds |-> Len(server.history)]
              bundle == [Bundle(entry) EXCEPT
                            !.budget = BudgetWrite(mem[p].acc, charged),
                            !.server = [key |-> k, data |-> row,
                                        expect |-> Len(ServerFor(mem[p], k, dim).history)],
                            !.round  = [key |-> k, id |-> Id]]
  <2>1. tx' = [tx EXCEPT ![p] = bundle]
    BY DEF FederatedRound, Submit
  <2>2. entry.action = "federated.round" /\ entry.id = Id
    BY DEF Entry
  <2>. HIDE DEF entry, server, charged, row
  <2>3. bundle.entry = entry /\ bundle.round = [key |-> k, id |-> Id]
    BY DEF Bundle
  <2>. HIDE DEF bundle
  <2>4. tx'[p] = bundle
    BY <2>1 DEF TypeOK
  <2>. QED
    BY <2>2, <2>3, <2>4 DEF BringsRound, IsRound
<1>6. CASE \/ \E k \in Cohorts, eps \in Epsilons : HistogramBadLabels(p, k, eps)
           \/ \E k \in Cohorts, eps \in Epsilons, dim \in Dims : FirstRoundFails(p, k, eps, dim)
           \/ \E k \in Cohorts, eps \in Epsilons, dim \in Dims, delta \in Deltas :
                  RoundOverBudget(p, k, eps, delta, dim)
  BY <1>1, <1>6, BadLabelsRaises, FirstRoundFailsRaises, RoundOverBudgetRaises
<1>. QED
  BY <1>2, <1>3, <1>4, <1>5, <1>6 DEF Operation

\* A bundle in flight is an operation's, and stays what it was.
LEMMA FlightGoesOn ==
    ASSUME TypeOK, [Next]_vars, NEW p \in Procs, pc'[p] = "commit", ~Operation(p)
    PROVE  pc[p] = "commit" /\ tx'[p] = tx[p]
<1>0. pc \in [Procs -> Statuses] /\ tx \in [Procs -> Bundles \cup {Nothing}]
  BY DEF TypeOK
<1>1. ASSUME NEW q \in Procs, Operation(q) PROVE pc[p] = "commit" /\ tx'[p] = tx[p]
  <2>1. CASE Prepares(q)
    BY <1>0, <1>1, <2>1 DEF Prepares, Submit
  <2>2. CASE Raises(q)
    BY <1>0, <1>1, <2>2 DEF Raises, Abort
  <2>. QED
    BY <1>1, <2>1, <2>2, OperationKinds
<1>2. ASSUME NEW q \in Procs, Recovery(q) PROVE pc[p] = "commit" /\ tx'[p] = tx[p]
  <2>1. CASE ReadTable(q)
    BY <1>0, <2>1 DEF ReadTable
  <2>2. CASE Started(q)
    BY <1>0, <2>2 DEF Started, Loaded
  <2>3. CASE Reconverged(q)
    BY <1>0, <2>3 DEF Reconverged, Loaded
  <2>. QED
    BY <1>2, <2>1, <2>2, <2>3 DEF Recovery
<1>3. ASSUME NEW q \in Procs, Start(q) \/ Commit(q) PROVE pc[p] = "commit" /\ tx'[p] = tx[p]
  BY <1>0, <1>3 DEF Start, Commit
<1>4. ASSUME NEW q \in Procs, Conflict(q) \/ CommitFails(q)
      PROVE  pc[p] = "commit" /\ tx'[p] = tx[p]
  BY <1>0, <1>4 DEF Conflict, CommitFails, Reload
<1>5. ASSUME NEW q \in Procs, ReloadFails(q) \/ Crash(q)
      PROVE  pc[p] = "commit" /\ tx'[p] = tx[p]
  BY <1>0, <1>5 DEF ReloadFails, Crash
<1>6. CASE UNCHANGED vars
  BY <1>6 DEF vars
<1>. QED
  BY <1>1, <1>2, <1>3, <1>4, <1>5, <1>6 DEF Next, Quiescent

\* What a commit leaves of the rounds.
LEMMA CommitRounds ==
    ASSUME TypeOK, ChainInv, RoundLogInv, NEW p \in Procs, Commit(p)
    PROVE  RoundsAudited'
<1>. DEFINE e == tx[p].entry
            last == Len(db.audit) + 1
<1>1. /\ db'.audit = Append(db.audit, e) /\ db.audit \in Seq(Entries) /\ e \in Entries
      /\ db'.rounds = AppendRound(db.rounds, tx[p].round)
      /\ db.rounds \in [Cohorts -> Seq(Nat)]
      /\ pc[p] = "commit" /\ BringsRound(tx[p])
  BY TipsAreNumbers DEF Commit, Apply, TypeOK, Stores, RoundLogInv
<1>2. \A i \in DOMAIN db.audit : db.audit[i].id # e.id
  BY <1>1 DEF ChainInv, Logged
<1>. HIDE DEF e
<1>3. /\ Len(db.audit) \in Nat /\ DOMAIN db.audit = 1..Len(db.audit)
      /\ DOMAIN db'.audit = 1..last /\ db'.audit[last] = e
      /\ \A i \in 1..Len(db.audit) : db'.audit[i] = db.audit[i]
  BY <1>1
<1>4. /\ DOMAIN db'.audit = DOMAIN db.audit \cup {last} /\ db'.audit[last] = e
      /\ \A i \in DOMAIN db.audit :
             i \in Nat /\ i # last /\ i < last /\ db'.audit[i] = db.audit[i]
  BY <1>3
<1>. HIDE DEF last
<1>5. AuditedRounds' = IF IsRound(e) THEN AuditedRounds \cup {e.id} ELSE AuditedRounds
  BY <1>4 DEF AuditedRounds
<1>6. RoundsAudited
  BY DEF RoundLogInv
<1>7. CASE ~IsRound(e)
  <2>1. db'.rounds = db.rounds
    BY <1>1, <1>7 DEF BringsRound, AppendRound, e
  <2>2. \A k \in Cohorts : RoundIds(k)' = RoundIds(k)
    BY <2>1 DEF RoundIds
  <2>3. UNION {RoundIds(k)' : k \in Cohorts} = AuditedRounds'
    BY <1>5, <1>6, <1>7, <2>2 DEF RoundsAudited
  <2>4. \A k \in Cohorts : \A n \in DOMAIN db.rounds[k] : db.rounds[k][n] \in AuditedRounds
    BY <1>6 DEF RoundsAudited, RoundIds
  <2>5. e.id \notin AuditedRounds
    BY <1>2 DEF AuditedRounds
  <2>6. \A k \in Cohorts : \A m, n \in DOMAIN db.rounds[k], i, j \in DOMAIN db'.audit :
           /\ m < n
           /\ db'.audit[i].id = db.rounds[k][m]
           /\ db'.audit[j].id = db.rounds[k][n]
           => i < j
    BY <1>4, <1>6, <2>4, <2>5 DEF RoundsAudited
  <2>. QED
    BY <1>6, <2>1, <2>2, <2>3, <2>6 DEF RoundsAudited
<1>8. CASE IsRound(e)
  <2>. PICK c \in Cohorts : tx[p].round = [key |-> c, id |-> e.id]
    BY <1>1, <1>8 DEF BringsRound, e
  <2>1. e.id \in Nat
    BY <1>1 DEF Entries
  <2>2. tx[p].round # Nothing
    <3>1. tx[p].round \in RoundWrites
      BY <2>1 DEF RoundWrites
    <3>. QED
      BY <3>1, StoreAssumption
  <2>3. db'.rounds = [db.rounds EXCEPT ![c] = Append(@, e.id)]
    BY <1>1, <2>2 DEF AppendRound
  <2>. DEFINE rounds == db.rounds[c]
              next   == Len(rounds) + 1
  <2>4. /\ db'.rounds[c] = Append(rounds, e.id) /\ rounds \in Seq(Nat)
        /\ \A k \in Cohorts : k # c => db'.rounds[k] = db.rounds[k]
    BY <1>1, <2>3
  <2>5. /\ DOMAIN db'.rounds[c] = DOMAIN rounds \cup {next} /\ db'.rounds[c][next] = e.id
        /\ next \in Nat
        /\ \A n \in DOMAIN rounds :
               n \in Nat /\ n # next /\ n < next /\ db'.rounds[c][n] = rounds[n]
    <3>. HIDE DEF rounds
    <3>1. /\ Len(rounds) \in Nat /\ DOMAIN rounds = 1..Len(rounds)
          /\ DOMAIN Append(rounds, e.id) = 1..(Len(rounds) + 1)
          /\ Append(rounds, e.id)[Len(rounds) + 1] = e.id
          /\ \A n \in 1..Len(rounds) : Append(rounds, e.id)[n] = rounds[n]
      BY <2>1, <2>4
    <3>2. db'.rounds[c] = Append(rounds, e.id)
      BY <2>4
    <3>. QED
      BY <3>1, <3>2
  <2>. HIDE DEF rounds, next
  <2>6. RoundIds(c)' = RoundIds(c) \cup {e.id}
    BY <2>5 DEF RoundIds, rounds
  <2>7. \A k \in Cohorts : k # c => RoundIds(k)' = RoundIds(k)
    BY <2>4 DEF RoundIds
  <2>8. UNION {RoundIds(k)' : k \in Cohorts} = AuditedRounds'
    <3>1. UNION {RoundIds(k) : k \in Cohorts} = AuditedRounds
      BY <1>6 DEF RoundsAudited
    <3>2. \A x : x \in AuditedRounds' <=> x \in AuditedRounds \/ x = e.id
      BY <1>5, <1>8
    <3>3. \A x : (\E k \in Cohorts : x \in RoundIds(k)')
                 <=> (\E k \in Cohorts : x \in RoundIds(k)) \/ x = e.id
      BY <2>6, <2>7
    <3>. QED
      BY <3>1, <3>2, <3>3
  <2>9. e.id \notin AuditedRounds
    BY <1>2 DEF AuditedRounds
  <2>10. \A k \in Cohorts : e.id \notin RoundIds(k) /\ RoundIds(k) \subseteq AuditedRounds
    BY <1>6, <2>9 DEF RoundsAudited
  <2>11. \A k, l \in Cohorts : k # l => RoundIds(k)' \cap RoundIds(l)' = {}
    BY <1>6, <2>6, <2>7, <2>10 DEF RoundsAudited
  <2>12. \A k \in Cohorts : \A n \in DOMAIN db.rounds[k] : db.rounds[k][n] # e.id
    BY <2>10 DEF RoundIds
  <2>13. ASSUME NEW k \in Cohorts, NEW m \in DOMAIN db'.rounds[k], NEW n \in DOMAIN db'.rounds[k],
                NEW i \in DOMAIN db'.audit, NEW j \in DOMAIN db'.audit,
                m < n, db'.audit[i].id = db'.rounds[k][m], db'.audit[j].id = db'.rounds[k][n]
         PROVE  i < j
    <3>1. CASE k # c
      <4>1. m \in DOMAIN db.rounds[k] /\ n \in DOMAIN db.rounds[k]
            /\ db'.rounds[k] = db.rounds[k]
        BY <2>4, <3>1
      <4>2. i \in DOMAIN db.audit /\ j \in DOMAIN db.audit
        BY <1>4, <2>12, <2>13, <4>1
      <4>. QED
        BY <1>4, <1>6, <2>13, <4>1, <4>2 DEF RoundsAudited
    <3>2. CASE k = c
      <4>1. m \in DOMAIN rounds
        <5>1. m # next
          BY <2>5, <2>13, <3>2
        <5>. QED
          BY <2>5, <2>13, <3>2, <5>1
      <4>2. db'.rounds[k][m] = rounds[m] /\ rounds[m] # e.id
        BY <2>5, <2>12, <3>2, <4>1 DEF rounds
      <4>3. i \in DOMAIN db.audit /\ db.audit[i].id = rounds[m]
        BY <1>4, <2>13, <4>2
      <4>4. CASE n = next
        <5>1. j = last
          BY <1>2, <1>4, <2>5, <2>13, <3>2, <4>4
        <5>. QED
          BY <1>4, <4>3, <5>1
      <4>5. CASE n # next
        <5>1. n \in DOMAIN rounds /\ db'.rounds[k][n] = rounds[n] /\ rounds[n] # e.id
          BY <2>5, <2>12, <2>13, <3>2, <4>5 DEF rounds
        <5>2. j \in DOMAIN db.audit /\ db.audit[j].id = rounds[n]
          BY <1>4, <2>13, <5>1
        <5>. QED
          BY <1>6, <2>13, <3>2, <4>1, <4>3, <5>1, <5>2 DEF RoundsAudited, rounds
      <4>. QED
        BY <4>4, <4>5
    <3>. QED
      BY <3>1, <3>2
  <2>. QED
    BY <2>8, <2>11, <2>13 DEF RoundsAudited
<1>. QED
  BY <1>7, <1>8

\* The stored rounds are the audited ones, each under one cohort and in the
\* order of the log, with torn loads, crashes and storage failures included
\* (append_round and append_audit are one bundle).
THEOREM RoundsAreAudited == Spec => []RoundsAudited
<1>1. Init => TypeOK /\ ChainInv /\ RoundLogInv
  <2>. SUFFICES ASSUME Init PROVE RoundLogInv
    BY InitType, InitChains
  <2>1. db = EmptyStore /\ \A p \in Procs : pc[p] # "commit"
    BY DEF Init
  <2>2. AuditedRounds = {} /\ \A k \in Cohorts : RoundIds(k) = {} /\ DOMAIN db.rounds[k] = {}
    BY <2>1 DEF EmptyStore, AuditedRounds, RoundIds
  <2>. QED
    BY <2>1, <2>2 DEF RoundLogInv, RoundsAudited
<1>2. TypeOK /\ ChainInv /\ RoundLogInv /\ [Next]_vars => RoundLogInv'
  <2>. SUFFICES ASSUME TypeOK, ChainInv, RoundLogInv, [Next]_vars PROVE RoundLogInv'
    OBVIOUS
  <2>1. RoundsAudited'
    <3>1. CASE \E p \in Procs : Commit(p)
      BY <3>1, CommitRounds
    <3>2. CASE \A p \in Procs : ~Commit(p)
      <4>1. db' = db
        BY <3>2, OthersStutter
      <4>2. AuditedRounds' = AuditedRounds /\ \A k \in Cohorts : RoundIds(k)' = RoundIds(k)
        BY <4>1 DEF RoundIds, AuditedRounds
      <4>3. RoundsAudited
        BY DEF RoundLogInv
      <4>4. UNION {RoundIds(k)' : k \in Cohorts} = AuditedRounds'
        BY <4>2, <4>3 DEF RoundsAudited
      <4>. QED
        BY <4>1, <4>2, <4>3, <4>4 DEF RoundsAudited
    <3>. QED
      BY <3>1, <3>2
  <2>2. ASSUME NEW p \in Procs, pc'[p] = "commit" PROVE BringsRound(tx'[p])
    <3>1. CASE Operation(p)
      BY <2>2, <3>1, OperationBrings
    <3>2. CASE ~Operation(p)
      <4>1. pc[p] = "commit" /\ tx'[p] = tx[p]
        BY <2>2, <3>2, FlightGoesOn
      <4>. QED
        BY <4>1 DEF RoundLogInv
    <3>. QED
      BY <3>1, <3>2
  <2>. QED
    BY <2>1, <2>2 DEF RoundLogInv
<1>3. RoundLogInv => RoundsAudited
  BY DEF RoundLogInv
<1>4. TypeOK /\ ChainInv /\ [Next]_vars => (TypeOK /\ ChainInv)'
  BY NextType, NextChains
<1>. QED
  BY <1>1, <1>2, <1>3, <1>4, PTL DEF Spec

-----------------------------------------------------------------------------
(* The inductive invariant: what a bundle has read agrees with what is     *)
(* stored and with what the bundle expects, unless the tip has moved; and  *)
(* only a bundle in flight has read, holds the lock or passed the gate.    *)

StatementType ==
    /\ rows \in [Procs -> RowSets]
    /\ writers \subseteq Procs
    /\ gated \subseteq Procs

OnlyInFlight ==
    \A p \in Procs : pc[p] # "commit" =>
        rows[p] = NoRows /\ p \notin writers /\ p \notin gated

Agreed(p) ==
    \A t \in RowTables : rows[p][t] # Unread =>
        /\ Writes(tx[p], t)
        /\ rows[p][t] = StoredRow(db, tx[p], t)
        /\ ExpectedRow(db, tx[p], t)
AgreedInv == \A p \in Procs : pc[p] = "commit" /\ TipFresh(db, tx[p]) => Agreed(p)

GatePassed == \A p \in gated : AllRead(p)

PlatformInv == TypeOK /\ ChainInv /\ TipsInv
StatementInv == StatementType /\ OnlyInFlight /\ AgreedInv /\ OneWriter /\ GatePassed

-----------------------------------------------------------------------------
(* Rows.                                                                   *)

LEMMA StoredRowType ==
    ASSUME NEW d \in Stores, NEW b \in Bundles, NEW t \in RowTables, Writes(b, t)
    PROVE  /\ t = "org"    => StoredRow(d, b, t) \in Organizations \cup {NoOrg}
           /\ t = "policy" => StoredRow(d, b, t) \in Policies \cup {NoPolicy}
           /\ t = "budget" => StoredRow(d, b, t) \in Accountants \cup {NoBudget}
           /\ t = "server" => StoredRow(d, b, t) \in ServerRows \cup {NoServer}
           /\ StoredRow(d, b, t) # Unread
<1>1. /\ t = "org"    => b.org \in OrgWrites
      /\ t = "policy" => b.policy \in PolicyWrites
      /\ t = "server" => b.server \in ServerWrites
  BY DEF Bundles, Writes
<1>2. CASE t = "org"
  BY <1>1, <1>2, UnreadAssumption DEF StoredRow, Stores, Registries, OrgWrites
<1>3. CASE t = "policy"
  BY <1>1, <1>3, UnreadAssumption DEF StoredRow, Stores, PolicyTables, PolicyWrites
<1>4. CASE t = "budget"
  BY <1>4, UnreadAssumption DEF StoredRow, Stores
<1>5. CASE t = "server"
  BY <1>1, <1>5, UnreadAssumption DEF StoredRow, Stores, ServerWrites
<1>. QED
  BY <1>2, <1>3, <1>4, <1>5 DEF RowTables

LEMMA NoRowsType ==
    /\ NoRows \in RowSets
    /\ \A t \in RowTables : NoRows[t] = Unread
  BY DEF NoRows, RowSets, RowTables

\* What an UPDATE sends over the row it was computed from is the whole row.
LEMMA SentWhole ==
    ASSUME NEW old, NEW new, new = [f \in DOMAIN new |-> new[f]]
    PROVE  Sent(old, old, new) = new
  BY DEF Sent

LEMMA FlushIsApply ==
    ASSUME NEW d \in Stores, NEW b \in Bundles, NEW r \in RowSets,
           \A t \in RowTables : Writes(b, t) => r[t] = StoredRow(d, b, t)
    PROVE  Flushed(d, b, r) = Apply(d, b)
<1>1. /\ b.org # Nothing => b.org \in OrgWrites
      /\ b.policy # Nothing => b.policy \in PolicyWrites
      /\ b.budget # Nothing => b.budget \in BudgetWrites
      /\ b.server # Nothing => b.server \in ServerWrites
  BY DEF Bundles
<1>2. /\ b.org # Nothing => r.org = d.orgs[b.org.id]
      /\ b.policy # Nothing => r.policy = d.policies[b.policy.id]
      /\ b.budget # Nothing => r.budget = d.budget
      /\ b.server # Nothing => r.server = d.servers[b.server.key]
  BY DEF RowTables, Writes, StoredRow
<1>3. b.org # Nothing =>
          [d.orgs EXCEPT ![b.org.id] = Sent(@, r.org, b.org.data)]
              = [d.orgs EXCEPT ![b.org.id] = b.org.data]
  <2>. SUFFICES ASSUME b.org # Nothing
                PROVE  Sent(d.orgs[b.org.id], r.org, b.org.data) = b.org.data
    OBVIOUS
  <2>1. b.org.data = [f \in DOMAIN b.org.data |-> b.org.data[f]]
    BY <1>1 DEF OrgWrites, Organizations
  <2>. QED
    BY <1>2, <2>1, SentWhole
<1>4. b.policy # Nothing =>
          [d.policies EXCEPT ![b.policy.id] = Sent(@, r.policy, b.policy.data)]
              = [d.policies EXCEPT ![b.policy.id] = b.policy.data]
  <2>. SUFFICES ASSUME b.policy # Nothing
                PROVE  Sent(d.policies[b.policy.id], r.policy, b.policy.data)
                           = b.policy.data
    OBVIOUS
  <2>1. b.policy.data = [f \in DOMAIN b.policy.data |-> b.policy.data[f]]
    BY <1>1 DEF PolicyWrites, Policies
  <2>. QED
    BY <1>2, <2>1, SentWhole
<1>5. b.server # Nothing =>
          [d.servers EXCEPT ![b.server.key] = Sent(@, r.server, b.server.data)]
              = [d.servers EXCEPT ![b.server.key] = b.server.data]
  <2>. SUFFICES ASSUME b.server # Nothing
                PROVE  Sent(d.servers[b.server.key], r.server, b.server.data)
                           = b.server.data
    OBVIOUS
  <2>1. b.server.data = [f \in DOMAIN b.server.data |-> b.server.data[f]]
    BY <1>1 DEF ServerWrites, ServerRows
  <2>. QED
    BY <1>2, <2>1, SentWhole
<1>6. b.budget # Nothing => SentBudget(d.budget, r.budget, b.budget) = SaveBudget(d.budget, b.budget)
  <2>. SUFFICES ASSUME b.budget # Nothing
                PROVE  SentBudget(d.budget, d.budget, b.budget) = SaveBudget(d.budget, b.budget)
    BY <1>2
  <2>. DEFINE merged == [b.budget.data EXCEPT !.events = MergeEvents(d.budget.events, @)]
  <2>1. b.budget.data \in Accountants
    BY <1>1 DEF BudgetWrites
  <2>2. CASE d.budget = NoBudget
    BY <2>2 DEF SentBudget, SaveBudget, Sent, Missing
  <2>3. CASE d.budget # NoBudget
    <3>1. d.budget \in Accountants
      BY <2>3 DEF Stores
    <3>2. merged = [f \in DOMAIN merged |-> merged[f]]
      BY <2>1 DEF Accountants
    <3>3. SaveBudget(d.budget, b.budget) = merged
      BY <2>3 DEF SaveBudget
    <3>4. CASE Missing(d.budget)
      BY <3>4, <3>1, <2>3, UnreadAssumption DEF Missing
    <3>5. CASE ~Missing(d.budget)
      <4>1. SentBudget(d.budget, d.budget, b.budget) = Sent(d.budget, d.budget, merged)
        BY <3>5 DEF SentBudget
      <4>. QED
        BY <4>1, <3>2, <3>3, SentWhole
    <3>. QED
      BY <3>4, <3>5
  <2>. QED
    BY <2>2, <2>3
<1>7. b.budget = Nothing => SaveBudget(d.budget, b.budget) = d.budget
  BY DEF SaveBudget
<1>. QED
  BY <1>3, <1>4, <1>5, <1>6, <1>7 DEF Flushed, Apply

-----------------------------------------------------------------------------
(* Every step of the statements is a step of the platform or a stutter.    *)

LEMMA SendingRow ==
    ASSUME PlatformInv, NEW p \in Procs
    PROVE  /\ pc[p] = "commit" <=> Committing(p)
           /\ pc[p] = "commit" => tx[p] \in Bundles
           /\ db \in Stores
  BY DEF PlatformInv, TypeOK, Committing

\* Behind the gate the bundle is fresh and the flush writes what it says.
LEMMA CommitTxCommits ==
    ASSUME PlatformInv, StatementInv, NEW p \in Procs, CommitTx(p)
    PROVE  Commit(p)
<1>. DEFINE b == tx[p]
<1>1. /\ pc[p] = "commit" /\ p \in gated /\ TipFresh(db, b) /\ AllRead(p)
      /\ rows[p] \in RowSets
  BY DEF CommitTx, Committing, StatementInv, StatementType, OneWriter, GatePassed
<1>2. db \in Stores /\ b \in Bundles
  BY <1>1, SendingRow
<1>3. Agreed(p)
  BY <1>1 DEF StatementInv, AgreedInv
<1>4. \A t \in RowTables : Writes(b, t) => /\ rows[p][t] = StoredRow(db, b, t)
                                           /\ ExpectedRow(db, b, t)
  BY <1>1, <1>3 DEF AllRead, Agreed
<1>5. BudgetFresh(db, b) /\ ServerFresh(db, b)
  BY <1>4 DEF RowTables, Writes, ExpectedRow, BudgetFresh, ServerFresh
<1>6. Flushed(db, b, rows[p]) = Apply(db, b)
  BY <1>1, <1>2, <1>4, FlushIsApply
<1>. QED
  BY <1>1, <1>5, <1>6 DEF CommitTx, Commit, Fresh

\* A refused bundle is not fresh.
LEMMA RefuseTxConflicts ==
    ASSUME PlatformInv, StatementInv, NEW p \in Procs, RefuseTx(p)
    PROVE  Conflict(p)
<1>1. pc[p] = "commit"
  BY DEF RefuseTx, ReadsNext, AtGate, Committing
<1>. SUFFICES ASSUME Fresh(db, tx[p]) PROVE FALSE
  BY <1>1 DEF RefuseTx, Conflict
<1>2. /\ TipFresh(db, tx[p])
      /\ \A t \in RowTables : ExpectedRow(db, tx[p], t)
  BY DEF Fresh, ExpectedRow
<1>3. PICK t \in {"budget", "server"} : /\ Missing(rows[p][t])
                                        /\ ~Missing(StoredRow(db, tx[p], t))
  BY <1>2 DEF RefuseTx, Blocked
<1>4. rows[p][t] # Unread
  BY <1>3, UnreadAssumption DEF Missing
<1>5. rows[p][t] = StoredRow(db, tx[p], t)
  BY <1>1, <1>2, <1>4 DEF StatementInv, AgreedInv, Agreed, RowTables
<1>. QED
  BY <1>3, <1>5

LEMMA StatementsSimulate ==
    PlatformInv /\ StatementInv /\ [SqliteNext]_sqliteVars => [Next]_vars
<1>. SUFFICES ASSUME PlatformInv, StatementInv, [SqliteNext]_sqliteVars PROVE [Next]_vars
  OBVIOUS
<1>1. CASE \E p \in Procs : CommitTx(p)
  BY <1>1, CommitTxCommits DEF Next
<1>2. CASE \E p \in Procs : RefuseTx(p)
  BY <1>2, RefuseTxConflicts DEF Next
<1>3. CASE \E p \in Procs : (\E t \in RowTables : SelectRow(p, t)) \/ FirstWrite(p) \/ PassGate(p)
  BY <1>3 DEF SelectRow, FirstWrite, PassGate
<1>4. CASE \E p \in Procs : Elsewhere(p) \/ FailTx(p) \/ CrashTx(p)
  BY <1>4 DEF Elsewhere, FailTx, CrashTx, Next
<1>5. CASE Quiescent
  BY <1>5 DEF Next
<1>6. CASE UNCHANGED sqliteVars
  BY <1>6 DEF sqliteVars
<1>. QED
  BY <1>1, <1>2, <1>3, <1>4, <1>5, <1>6 DEF SqliteNext, Statement

-----------------------------------------------------------------------------
(* The invariant is kept.                                                  *)

LEMMA SelectRowKeeps ==
    ASSUME PlatformInv, StatementInv, NEW p \in Procs, NEW t \in RowTables, SelectRow(p, t)
    PROVE  StatementInv'
<1>. DEFINE row == StoredRow(db, tx[p], t)
<1>1. /\ db' = db /\ pc' = pc /\ tx' = tx /\ writers' = writers /\ gated' = gated
      /\ pc[p] = "commit" /\ rows[p][t] = Unread /\ Writes(tx[p], t)
      /\ ExpectedRow(db, tx[p], t)
      /\ rows' = [rows EXCEPT ![p][t] = row]
  BY DEF SelectRow, ReadsNext, Committing, vars
<1>2. rows \in [Procs -> RowSets] /\ RowTables = {"org", "policy", "budget", "server"}
  BY DEF StatementInv, StatementType, RowTables
<1>3. /\ \A q \in Procs : q # p => rows'[q] = rows[q]
      /\ \A u \in RowTables : rows'[p][u] = IF u = t THEN row ELSE rows[p][u]
  BY <1>1, <1>2 DEF RowSets
<1>4. /\ t = "org"    => row \in Organizations \cup {NoOrg}
      /\ t = "policy" => row \in Policies \cup {NoPolicy}
      /\ t = "budget" => row \in Accountants \cup {NoBudget}
      /\ t = "server" => row \in ServerRows \cup {NoServer}
      /\ row # Unread
  BY <1>1, SendingRow, StoredRowType
<1>5. StatementType'
  <2>1. [rows[p] EXCEPT ![t] = row] \in RowSets
    BY <1>2, <1>4 DEF RowSets
  <2>2. rows' = [rows EXCEPT ![p] = [rows[p] EXCEPT ![t] = row]]
    BY <1>1
  <2>. HIDE DEF row
  <2>3. rows' \in [Procs -> RowSets]
    BY <1>2, <2>1, <2>2
  <2>. QED
    BY <1>1, <2>3 DEF StatementInv, StatementType
<1>6. OnlyInFlight'
  BY <1>1, <1>3 DEF StatementInv, OnlyInFlight
<1>7. AgreedInv'
  <2>. SUFFICES ASSUME NEW q \in Procs, pc[q] = "commit", TipFresh(db, tx[q])
                PROVE  Agreed(q)'
    BY <1>1 DEF AgreedInv
  <2>1. Agreed(q)
    BY DEF StatementInv, AgreedInv
  <2>. SUFFICES ASSUME NEW u \in RowTables, rows'[q][u] # Unread
                PROVE  /\ Writes(tx[q], u)
                       /\ rows'[q][u] = StoredRow(db, tx[q], u)
                       /\ ExpectedRow(db, tx[q], u)
    BY <1>1 DEF Agreed
  <2>2. CASE q = p /\ u = t
    BY <1>1, <1>3, <2>2
  <2>3. CASE ~(q = p /\ u = t)
    <3>1. rows'[q][u] = rows[q][u]
      BY <1>3, <2>3
    <3>. QED
      BY <2>1, <3>1 DEF Agreed
  <2>. QED
    BY <2>2, <2>3
<1>8. OneWriter'
  BY <1>1 DEF StatementInv, OneWriter
<1>9. GatePassed'
  BY <1>1, <1>3, <1>4 DEF StatementInv, GatePassed, StatementType, AllRead
<1>. QED
  BY <1>5, <1>6, <1>7, <1>8, <1>9 DEF StatementInv

\* A process that takes the lock, and perhaps passes the gate.
LEMMA LockKeeps ==
    ASSUME StatementInv, NEW p \in Procs, pc[p] = "commit", MayWrite(p),
           writers' = writers \cup {p}, UNCHANGED <<vars, rows>>,
           \/ gated' = gated
           \/ gated' = gated \cup {p} /\ TipFresh(db, tx[p]) /\ AllRead(p)
    PROVE  StatementInv'
<1>1. db' = db /\ pc' = pc /\ tx' = tx /\ rows' = rows
  BY DEF vars
<1>2. StatementType'
  BY <1>1 DEF StatementInv, StatementType
<1>3. OnlyInFlight'
  BY <1>1 DEF StatementInv, OnlyInFlight
<1>4. AgreedInv'
  BY <1>1 DEF StatementInv, AgreedInv, Agreed
<1>5. OneWriter'
  BY <1>1 DEF StatementInv, OneWriter, MayWrite
<1>6. GatePassed'
  BY <1>1 DEF StatementInv, GatePassed, AllRead
<1>. QED
  BY <1>2, <1>3, <1>4, <1>5, <1>6 DEF StatementInv

\* The lock holder's commit moves the tip, which no other bundle expected.
LEMMA CommitTxKeeps ==
    ASSUME PlatformInv, StatementInv, NEW p \in Procs, CommitTx(p)
    PROVE  StatementInv'
<1>1. /\ pc[p] = "commit" /\ p \in gated /\ p \in writers
      /\ \A q \in Procs : q # p => pc'[q] = pc[q] /\ tx'[q] = tx[q] /\ rows'[q] = rows[q]
      /\ pc'[p] = "idle" /\ rows'[p] = NoRows
      /\ writers' = writers \ {p} /\ gated' = gated \ {p}
  BY DEF CommitTx, EndsTx, Committing, PlatformInv, TypeOK, StatementInv, StatementType, OneWriter
<1>2. writers' = {} /\ gated' = {}
  BY <1>1 DEF StatementInv, OneWriter, StatementType
<1>3. Tip(db'.audit) = tx[p].entry.id
  <2>1. Commit(p)
    BY CommitTxCommits
  <2>2. db'.audit = Append(db.audit, tx[p].entry)
    BY <2>1 DEF Commit, Apply
  <2>3. db.audit \in Seq(Entries) /\ tx[p].entry \in Entries
    BY <1>1, TipsAreNumbers DEF PlatformInv, TypeOK, Stores
  <2>. QED
    BY <2>2, <2>3, TipAppended
<1>4. \A q \in Procs : q # p /\ pc[q] = "commit" => tx[q].entry.prev # tx[p].entry.id
  BY <1>1 DEF PlatformInv, TipsInv, OnlyMine
<1>5. StatementType'
  BY <1>2, NoRowsType DEF CommitTx, EndsTx, StatementInv, StatementType
<1>6. OnlyInFlight'
  BY <1>1, <1>2 DEF StatementInv, OnlyInFlight
<1>7. AgreedInv'
  BY <1>1, <1>3, <1>4 DEF AgreedInv, TipFresh
<1>. QED
  BY <1>2, <1>5, <1>6, <1>7 DEF StatementInv, OneWriter, GatePassed

\* A step that stores nothing, in which every process has nothing under way or
\* is where it was.
LEMMA QuietKeeps ==
    ASSUME StatementInv, StatementType', db' = db,
           \A q \in Procs :
               \/ rows'[q] = NoRows /\ q \notin writers' /\ q \notin gated'
               \/ /\ pc[q] = "commit" /\ pc'[q] = "commit"
                  /\ tx'[q] = tx[q] /\ rows'[q] = rows[q]
                  /\ q \in writers' <=> q \in writers
                  /\ q \in gated' <=> q \in gated
    PROVE  StatementInv'
<1>1. OnlyInFlight'
  BY DEF OnlyInFlight
<1>2. AgreedInv'
  <2>. SUFFICES ASSUME NEW q \in Procs, pc'[q] = "commit", TipFresh(db, tx'[q])
                PROVE  Agreed(q)'
    BY DEF AgreedInv
  <2>1. CASE rows'[q] = NoRows
    BY <2>1, NoRowsType DEF Agreed
  <2>2. CASE pc[q] = "commit" /\ tx'[q] = tx[q] /\ rows'[q] = rows[q]
    BY <2>2 DEF StatementInv, AgreedInv, Agreed
  <2>. QED
    BY <2>1, <2>2
<1>3. OneWriter'
  BY DEF StatementInv, StatementType, OneWriter
<1>4. GatePassed'
  BY DEF StatementInv, StatementType, GatePassed, AllRead
<1>. QED
  BY <1>1, <1>2, <1>3, <1>4 DEF StatementInv

LEMMA EndsTxKeeps ==
    ASSUME PlatformInv, StatementInv, NEW p \in Procs, EndsTx(p), db' = db,
           \A q \in Procs : q # p => pc'[q] = pc[q] /\ tx'[q] = tx[q]
    PROVE  StatementInv'
<1>1. /\ \A q \in Procs : q # p => /\ rows'[q] = rows[q]
                                   /\ q \in writers' <=> q \in writers
                                   /\ q \in gated' <=> q \in gated
      /\ rows'[p] = NoRows /\ p \notin writers' /\ p \notin gated'
  BY DEF EndsTx, StatementInv, StatementType
<1>2. StatementType'
  BY NoRowsType DEF EndsTx, StatementInv, StatementType
<1>. QED
  BY <1>1, <1>2, QuietKeeps DEF StatementInv, OnlyInFlight

LEMMA ElsewhereKeeps ==
    ASSUME PlatformInv, StatementInv, NEW p \in Procs, Elsewhere(p)
    PROVE  StatementInv'
<1>1. /\ db' = db /\ pc[p] # "commit"
      /\ \A q \in Procs : q # p => pc'[q] = pc[q] /\ tx'[q] = tx[q]
  <2>1. CASE Start(p) \/ Recovery(p) \/ ReloadFails(p)
    BY <2>1 DEF Start, Recovery, ReadTable, Started, Reconverged, Loaded, ReloadFails,
                PlatformInv, TypeOK
  <2>2. CASE Operation(p)
    <3>1. Prepares(p) \/ Raises(p)
      BY <2>2, OperationKinds DEF PlatformInv
    <3>. QED
      BY <3>1 DEF Prepares, Raises, Submit, Abort, Begin, PlatformInv, TypeOK
  <2>. QED
    BY <2>1, <2>2 DEF Elsewhere
<1>2. rows' = rows /\ writers' = writers /\ gated' = gated
  BY DEF Elsewhere, statement
<1>3. StatementType'
  BY <1>2 DEF StatementInv, StatementType
<1>. QED
  BY <1>1, <1>2, <1>3, QuietKeeps DEF StatementInv, OnlyInFlight

LEMMA StatementsKeep ==
    PlatformInv /\ StatementInv /\ [SqliteNext]_sqliteVars => StatementInv'
<1>. SUFFICES ASSUME PlatformInv, StatementInv, [SqliteNext]_sqliteVars PROVE StatementInv'
  OBVIOUS
<1>1. CASE \E p \in Procs, t \in RowTables : SelectRow(p, t)
  BY <1>1, SelectRowKeeps
<1>2. CASE \E p \in Procs : FirstWrite(p) \/ PassGate(p)
  BY <1>2, LockKeeps DEF FirstWrite, PassGate, AtGate, Committing
<1>3. CASE \E p \in Procs : CommitTx(p)
  BY <1>3, CommitTxKeeps
<1>4. CASE \E p \in Procs : RefuseTx(p) \/ FailTx(p) \/ CrashTx(p)
  <2>. PICK p \in Procs : RefuseTx(p) \/ FailTx(p) \/ CrashTx(p)
    BY <1>4
  <2>1. /\ EndsTx(p) /\ db' = db
        /\ \A q \in Procs : q # p => pc'[q] = pc[q] /\ tx'[q] = tx[q]
    BY DEF RefuseTx, FailTx, CrashTx, CommitFails, Crash, Reload, PlatformInv, TypeOK
  <2>. QED
    BY <2>1, EndsTxKeeps
<1>5. CASE \E p \in Procs : Elsewhere(p)
  BY <1>5, ElsewhereKeeps
<1>6. CASE UNCHANGED vars /\ UNCHANGED statement
  <2>1. db' = db /\ pc' = pc /\ tx' = tx /\ rows' = rows /\ writers' = writers /\ gated' = gated
    BY <1>6 DEF vars, statement
  <2>. QED
    BY <2>1 DEF StatementInv, StatementType, OnlyInFlight, AgreedInv, Agreed, OneWriter,
                GatePassed, AllRead
<1>. QED
  BY <1>1, <1>2, <1>3, <1>4, <1>5, <1>6 DEF SqliteNext, Statement, Quiescent, sqliteVars

LEMMA SqliteInitInv == SqliteInit => PlatformInv /\ StatementInv
<1>. SUFFICES ASSUME SqliteInit PROVE PlatformInv /\ StatementInv
  OBVIOUS
<1>1. PlatformInv
  BY InitType, InitChains, InitTips DEF SqliteInit, PlatformInv
<1>2. StatementType /\ OnlyInFlight /\ OneWriter /\ GatePassed
  BY NoRowsType DEF SqliteInit, StatementType, OnlyInFlight, OneWriter, GatePassed
<1>3. AgreedInv
  BY DEF SqliteInit, Init, AgreedInv
<1>. QED
  BY <1>1, <1>2, <1>3 DEF StatementInv

LEMMA SqliteInvariant == SqliteSpec => [](PlatformInv /\ StatementInv)
<1>1. PlatformInv /\ StatementInv /\ [SqliteNext]_sqliteVars => PlatformInv'
  BY StatementsSimulate, NextType, NextChains, NextTips DEF PlatformInv
<1>. QED
  BY <1>1, SqliteInitInv, StatementsKeep, PTL DEF SqliteSpec

\* A bundle sent to SQLite statement by statement, with other processes
\* committing between its statements, commits or is refused as if it were one
\* step of the platform (_SQLiteTx; the conditional INSERT of append_audit is
\* what makes it so).
THEOREM StatementsAreAtomic == SqliteSpec => AtomicCommits
<1>1. SqliteInit => Init
  BY DEF SqliteInit
<1>. QED
  BY <1>1, StatementsSimulate, SqliteInvariant, PTL DEF SqliteSpec, AtomicCommits, Spec

\* What a process has read is what is stored while its entry can be appended.
THEOREM ReadsStayTrue == SqliteSpec => []RowsAgree
<1>1. PlatformInv /\ StatementInv => RowsAgree
  BY DEF StatementInv, AgreedInv, Agreed, RowsAgree
<1>. QED
  BY <1>1, SqliteInvariant, PTL

\* One connection writes at a time, and the tip does not move under it.
THEOREM WritersExclude == SqliteSpec => []OneWriter
<1>1. PlatformInv /\ StatementInv => OneWriter
  BY DEF StatementInv
<1>. QED
  BY <1>1, SqliteInvariant, PTL

-----------------------------------------------------------------------------
(* The API runs the platform: every step of it is a step of some process,  *)
(* or touches requests alone.                                              *)

\* The calls that take the lock are operations of the platform.
LEMMA CallsOperate ==
    ASSUME NEW t \in Threads,
           \/ Consent(t) \/ Ask(t) \/ Round(t)
           \/ \E o \in OrgIds, k \in Cohorts : PostOrg(t, o, k),
           req[t].stage = "admitted" => req[t].org \in OrgIds /\ req[t].cohort \in Cohorts
    PROVE  Operation(Home[t])
<1>1. CASE \E o \in OrgIds, k \in Cohorts : PostOrg(t, o, k)
  BY <1>1 DEF PostOrg, Operation
<1>2. CASE Consent(t)
  BY <1>2 DEF Consent, Admitted, Operation
<1>3. CASE Ask(t)
  <2>. DEFINE p == Home[t]
              k == req[t].cohort
  <2>1. k \in Cohorts
    BY <1>3 DEF Ask, Admitted
  <2>2. CASE \E eps \in Epsilons : HistogramBadLabels(p, k, eps)
    BY <2>1, <2>2 DEF Operation
  <2>3. CASE \E eps \in Epsilons, metric \in DOMAIN Aggregates :
                 Query(p, k, metric, Aggregates[metric], eps)
    <3>1. \E eps \in Epsilons : \/ Query(p, k, "histogram", "query.histogram", eps)
                                \/ Query(p, k, "variance", "query.variance", eps)
                                \/ Query(p, k, "correlation", "query.correlation", eps)
      BY <2>3 DEF Aggregates
    <3>. QED
      BY <2>1, <3>1 DEF Operation, Histogram, Variance, Correlation
  <2>. QED
    BY <1>3, <2>2, <2>3 DEF Ask
<1>4. CASE Round(t)
  BY <1>4 DEF Round, Admitted, Operation
<1>. QED
  BY <1>1, <1>2, <1>3, <1>4

\* Requests in the hands of the platform name what their operation is about.
Named(r) ==
    /\ r.stage = "admitted" => r.org \in OrgIds /\ r.cohort \in Cohorts
    /\ r.stage = "running" /\ r.kind = "join" => r.org \in OrgIds
    /\ r.stage = "running" /\ r.kind = "round" => r.cohort \in Cohorts
    /\ r.stage \in {"metadata", "card"} => r.cohort \in Cohorts

NamesInv ==
    /\ req \in [Threads -> Requests]
    /\ keys \in [Procs -> SUBSET OrgIds]
    /\ \A t \in Threads : Named(req[t])

LEMMA NoRequestNamed ==
    /\ NoRequest \in Requests /\ Named(NoRequest)
    /\ TurnedAway \in Requests /\ Named(TurnedAway)
  BY DEF NoRequest, TurnedAway, Requests, Stages, Kinds, Answers, Named

\* One request changes, to one that is well named.
LEMMA NamesKept ==
    ASSUME NamesInv, NEW t \in Threads, NEW r \in Requests, Named(r), To(t, r),
           keys' = keys
    PROVE  NamesInv'
  BY DEF NamesInv, To

LEMMA AnsweredNamed ==
    ASSUME NamesInv, NEW t \in Threads, NEW status \in Answers
    PROVE  /\ Answered(t, status) \in Requests /\ Named(Answered(t, status))
           /\ Answered(t, status).stage = "answered" /\ Answered(t, status).status = status
           /\ Answered(t, status).id = req[t].id /\ Answered(t, status).kind = req[t].kind
<1>1. req[t] \in Requests
  BY DEF NamesInv
<1>. QED
  BY <1>1 DEF Answered, Requests, Stages, Named

\* What a call does: it takes the free lock, draws the next id, and leaves its
\* request running over a bundle or answered with an error.
Launches(t, r) ==
    LET p == Home[t]
    IN  /\ Operation(p) /\ pc[p] = "idle"
        /\ To(t, r) /\ keys' = keys /\ r \in Requests /\ r.id = Id
        /\ \/ r.stage = "running" /\ pc'[p] = "commit"
           \/ r.stage = "answered" /\ r.status \in {"400", "403", "500"} /\ pc' = pc

LEMMA PostOrgLaunches ==
    ASSUME TypeOK, NamesInv, NEW t \in Threads, NEW o \in OrgIds, NEW k \in Cohorts,
           PostOrg(t, o, k)
    PROVE  LET r == [NoRequest EXCEPT !.stage = "running", !.kind = "join", !.org = o,
                                      !.cohort = k, !.id = Id]
           IN  Launches(t, r) /\ Named(r)
<1>. DEFINE r == [NoRequest EXCEPT !.stage = "running", !.kind = "join", !.org = o,
                                   !.cohort = k, !.id = Id]
<1>1. Join(Home[t], o, k) /\ To(t, r) /\ keys' = keys
  BY DEF PostOrg
<1>2. Home[t] \in Procs /\ Id \in Nat /\ pc \in [Procs -> Statuses]
  BY GatewayAssumption, LogTypes DEF Id, TypeOK
<1>3. Operation(Home[t]) /\ pc[Home[t]] = "idle" /\ pc'[Home[t]] = "commit"
  BY <1>1, <1>2 DEF Operation, Join, Begin, Submit
<1>4. r \in Requests /\ r.stage = "running" /\ r.kind = "join" /\ r.org = o /\ r.id = Id
  BY <1>2 DEF NoRequest, Requests, Stages, Kinds, Answers
<1>. HIDE DEF r
<1>5. Named(r)
  BY <1>4 DEF Named
<1>. QED
  BY <1>1, <1>3, <1>4, <1>5 DEF Launches, r

\* The request of a thread let in, once its operation runs.
LEMMA RunsLaunches ==
    ASSUME TypeOK, NamesInv, NEW t \in Threads, req[t].stage = "admitted",
           Operation(Home[t]), pc[Home[t]] = "idle", keys' = keys,
           \/ Runs(t) /\ pc'[Home[t]] = "commit"
           \/ \E status \in {"400", "403", "500"} : Aborts(t, status) /\ pc' = pc
    PROVE  \E r \in Requests : /\ Launches(t, r) /\ Named(r)
                               /\ r.stage = "running" => /\ r.kind = req[t].kind
                                                         /\ r.org = req[t].org
                                                         /\ r.cohort = req[t].cohort
<1>1. req[t] \in Requests /\ Named(req[t]) /\ Id \in Nat
  BY LogTypes DEF NamesInv, Id
<1>2. CASE Runs(t) /\ pc'[Home[t]] = "commit"
  <2>. DEFINE r == [req[t] EXCEPT !.stage = "running", !.id = Id]
  <2>1. /\ r \in Requests /\ r.stage = "running" /\ r.id = Id /\ r.kind = req[t].kind
        /\ r.org = req[t].org /\ r.cohort = req[t].cohort
    BY <1>1 DEF Requests, Stages
  <2>2. To(t, r)
    BY <1>2 DEF Runs
  <2>. HIDE DEF r
  <2>3. Named(r)
    BY <1>1, <2>1 DEF Named
  <2>. QED
    BY <1>2, <2>1, <2>2, <2>3 DEF Launches
<1>3. CASE \E status \in {"400", "403", "500"} : Aborts(t, status) /\ pc' = pc
  <2>. PICK status \in {"400", "403", "500"} : Aborts(t, status) /\ pc' = pc
    BY <1>3
  <2>. DEFINE a == Answered(t, status)
              r == [a EXCEPT !.id = Id]
  <2>1. a \in Requests /\ a.stage = "answered" /\ a.status = status
    BY AnsweredNamed DEF Answers
  <2>2. To(t, r)
    BY DEF Aborts
  <2>. HIDE DEF a
  <2>3. r \in Requests /\ r.stage = "answered" /\ r.status = status /\ r.id = Id
    BY <1>1, <2>1 DEF Requests
  <2>. HIDE DEF r
  <2>4. Named(r)
    BY <2>3 DEF Named
  <2>. QED
    BY <2>2, <2>3, <2>4 DEF Launches
<1>. QED
  BY <1>2, <1>3

LEMMA CallLaunches ==
    ASSUME TypeOK, NamesInv, NEW t \in Threads, Consent(t) \/ Ask(t) \/ Round(t)
    PROVE  /\ req[t].stage = "admitted"
           /\ \E r \in Requests : /\ Launches(t, r) /\ Named(r)
                                  /\ r.stage = "running" => /\ r.kind = req[t].kind
                                                            /\ r.org = req[t].org
                                                            /\ r.cohort = req[t].cohort
<1>. DEFINE p == Home[t]
<1>1. req[t].stage = "admitted" /\ keys' = keys
  BY DEF Consent, Ask, Round, Admitted
<1>2. Operation(p)
  BY <1>1, CallsOperate DEF NamesInv, Named
<1>3. p \in Procs /\ pc \in [Procs -> Statuses]
  BY GatewayAssumption DEF TypeOK
<1>. HIDE DEF p
<1>4. CASE Consent(t)
  BY <1>1, <1>2, <1>3, <1>4, RunsLaunches DEF Consent, SetConsent, Begin, Submit, p
<1>5. CASE Ask(t)
  <2>1. CASE \E eps \in Epsilons : HistogramBadLabels(p, req[t].cohort, eps) /\ Aborts(t, "400")
    <3>1. pc[p] = "idle" /\ pc' = pc /\ Aborts(t, "400")
      BY <2>1 DEF HistogramBadLabels, Begin, Abort
    <3>. QED
      BY <1>1, <1>2, <3>1, RunsLaunches DEF p
  <2>2. CASE \E eps \in Epsilons, metric \in DOMAIN Aggregates :
                 Query(p, req[t].cohort, metric, Aggregates[metric], eps) /\ Runs(t)
    <3>1. pc[p] = "idle" /\ pc'[p] = "commit" /\ Runs(t)
      BY <1>3, <2>2 DEF Query, Begin, Submit
    <3>. QED
      BY <1>1, <1>2, <3>1, RunsLaunches DEF p
  <2>. QED
    BY <1>5, <2>1, <2>2 DEF Ask, p
<1>6. CASE Round(t)
  <2>1. CASE \E eps \in Epsilons, dim \in Dims, delta \in Deltas, survivors \in SUBSET OrgIds :
                 FederatedRound(p, req[t].cohort, eps, delta, dim, survivors) /\ Runs(t)
    <3>1. pc[p] = "idle" /\ pc'[p] = "commit" /\ Runs(t)
      BY <1>3, <2>1 DEF FederatedRound, RoundRuns, Begin, Submit
    <3>. QED
      BY <1>1, <1>2, <3>1, RunsLaunches DEF p
  <2>2. CASE \E eps \in Epsilons, dim \in Dims, delta \in Deltas :
                 RoundOverBudget(p, req[t].cohort, eps, delta, dim) /\ Aborts(t, "403")
    <3>1. pc[p] = "idle" /\ pc' = pc /\ Aborts(t, "403")
      BY <2>2 DEF RoundOverBudget, RoundRuns, Begin, Abort
    <3>. QED
      BY <1>1, <1>2, <3>1, RunsLaunches DEF p
  <2>3. CASE \E eps \in Epsilons, dim \in Dims, status \in {"400", "500"} :
                 FirstRoundFails(p, req[t].cohort, eps, dim) /\ Aborts(t, status)
    <3>1. pc[p] = "idle" /\ pc' = pc /\ \E status \in {"400", "403", "500"} : Aborts(t, status)
      BY <2>3 DEF FirstRoundFails, Begin, Abort
    <3>. QED
      BY <1>1, <1>2, <3>1, RunsLaunches DEF p
  <2>. QED
    BY <1>6, <2>1, <2>2, <2>3 DEF Round, p
<1>. QED
  BY <1>1, <1>4, <1>5, <1>6

-----------------------------------------------------------------------------
(* The lock.  A thread whose operation runs holds it through the commit,   *)
(* and one whose operation fails through the rebuild; no two of a process  *)
(* hold it.                                                                *)

Holds(t) == req[t].stage \in {"running", "failing"}

OneHolder ==
    \A t, u \in Threads : t # u /\ Home[t] = Home[u] => ~(Holds(t) /\ Holds(u))

Held(t) ==
    /\ req[t].stage = "running" => pc[Home[t]] = "commit"
    /\ req[t].stage = "failing" => pc[Home[t]] = "reconverging" /\ req[t].status # "200"
    /\ req[t].stage = "running" /\ req[t].kind = "round" =>
           mem[Home[t]].servers[req[t].cohort] # NoServer

HoldersInv == NamesInv /\ OneHolder /\ \A t \in Threads : Held(t)

\* Whoever holds the lock of a process is the only one there, and a process
\* that is neither committing nor rebuilding has no holder.
LEMMA Alone ==
    ASSUME HoldersInv, NEW t \in Threads,
           Holds(t) \/ pc[Home[t]] \notin {"commit", "reconverging"}
    PROVE  \A u \in Threads : u # t /\ Home[u] = Home[t] => ~Holds(u)
  BY DEF HoldersInv, OneHolder, Held, Holds

\* A request changes, and its process with it where that process had no
\* other thread's operation in flight.
LEMMA HoldersKept ==
    ASSUME HoldersInv, NEW t \in Threads, NEW r \in Requests, Named(r), To(t, r),
           keys' \in [Procs -> SUBSET OrgIds],
           \A q \in Procs : q # Home[t] => pc'[q] = pc[q] /\ mem'[q] = mem[q],
           \/ pc' = pc /\ mem' = mem /\ r.stage \notin {"running", "failing"}
           \/ /\ \A u \in Threads : u # t /\ Home[u] = Home[t] => ~Holds(u)
              /\ r.stage = "running" => pc'[Home[t]] = "commit"
              /\ r.stage = "failing" => pc'[Home[t]] = "reconverging" /\ r.status # "200"
              /\ r.stage = "running" /\ r.kind = "round" =>
                     mem'[Home[t]].servers[r.cohort] # NoServer
    PROVE  HoldersInv'
<1>1. /\ req' \in [Threads -> Requests] /\ req'[t] = r
      /\ \A u \in Threads : u # t => req'[u] = req[u]
      /\ \A u \in Threads : Home[u] \in Procs
  BY GatewayAssumption DEF HoldersInv, NamesInv, To
<1>2. NamesInv'
  BY <1>1 DEF HoldersInv, NamesInv
<1>3. OneHolder'
  BY <1>1 DEF HoldersInv, OneHolder, Holds
<1>4. ASSUME NEW u \in Threads PROVE Held(u)'
  BY <1>1 DEF HoldersInv, Held, Holds
<1>. QED
  BY <1>2, <1>3, <1>4 DEF HoldersInv

\* What a round leaves in memory and in its bundle.
RoundDone(p, k, dim) ==
    LET old == ServerFor(mem[p], k, dim).history
        now == mem'[p]
    IN  /\ old \in Seq(Nat) /\ Id \in Nat
        /\ now.servers[k] # NoServer /\ now.servers[k].history = Append(old, Id)
        /\ now.last[k] = Id
        /\ \A c \in Cohorts : c # k => /\ now.servers[c] = mem[p].servers[c]
                                       /\ now.last[c] = mem[p].last[c]
        /\ now.orgs = mem[p].orgs
        /\ tx'[p].org = Nothing
        /\ tx'[p].server # Nothing /\ tx'[p].server.key = k
        /\ tx'[p].server.data.rounds = Len(old) + 1 /\ tx'[p].server.expect = Len(old)
        /\ tx'[p].round = [key |-> k, id |-> Id]

LEMMA RoundEffects ==
    ASSUME TypeOK, NEW p \in Procs, NEW k \in Cohorts, NEW eps, NEW delta, NEW dim \in Dims,
           NEW survivors, FederatedRound(p, k, eps, delta, dim, survivors)
    PROVE  RoundDone(p, k, dim)
<1>. DEFINE m       == mem[p]
            server  == ServerFor(m, k, dim)
            trained == Trained(m, k, dim)
<1>1. m \in Memories /\ Id \in Nat /\ mem \in [Procs -> Memories] /\ tx \in [Procs -> Bundles \cup {Nothing}]
  BY LogTypes DEF TypeOK, Id
<1>2. server \in LiveServers
  BY <1>1, ServerForType
<1>3. trained \in Memories /\ trained.servers[k] \in LiveServers
  BY <1>1, TrainedType
<1>4. /\ trained.servers = [m.servers EXCEPT ![k] = [server EXCEPT !.model = Append(@, Id),
                                                                   !.history = Append(@, Id)]]
      /\ trained.last = m.last /\ trained.orgs = m.orgs
  BY <1>1 DEF Trained, Memories
<1>5. trained.servers[k].history = Append(server.history, Id)
  BY <1>1, <1>2, <1>4 DEF LiveServers, Memories
<1>6. \A c \in Cohorts : c # k => trained.servers[c] = m.servers[c]
  BY <1>1, <1>4 DEF Memories
<1>. HIDE DEF trained, server
<1>7. /\ mem'[p].servers = trained.servers /\ mem'[p].orgs = trained.orgs
      /\ mem'[p].last = [trained.last EXCEPT ![k] = Id]
  BY <1>1, <1>3 DEF FederatedRound, Submit, Memories, trained
<1>8. /\ tx'[p].org = Nothing
      /\ tx'[p].server.key = k /\ tx'[p].server.expect = Len(server.history)
      /\ tx'[p].server.data.rounds = Len(trained.servers[k].history)
      /\ tx'[p].round = [key |-> k, id |-> Id]
  BY <1>1 DEF FederatedRound, Submit, Bundle, trained, server
<1>9. Len(Append(server.history, Id)) = Len(server.history) + 1 /\ server.history \in Seq(Nat)
  BY <1>1, <1>2 DEF LiveServers
<1>10. tx'[p].server # Nothing
  <2>. DEFINE now   == trained.servers[k]
              row   == [dim |-> now.dim, model |-> now.model, rounds |-> Len(now.history)]
              write == [key |-> k, data |-> row, expect |-> Len(server.history)]
  <2>1. tx'[p].server = write
    BY <1>1 DEF FederatedRound, Submit, Bundle, trained, server
  <2>2. row \in ServerRows /\ Len(server.history) \in Nat
    BY <1>3, <1>9 DEF LiveServers, ServerRows
  <2>. HIDE DEF row
  <2>3. write \in ServerWrites
    BY <2>2 DEF ServerWrites
  <2>. QED
    BY <2>1, <2>3, StoreAssumption
<1>. QED
  BY <1>1, <1>3, <1>4, <1>5, <1>6, <1>7, <1>8, <1>9, <1>10, LiveAssumption
     DEF RoundDone, server, Memories

-----------------------------------------------------------------------------
(* What each step does to its thread and to the process under it.          *)

LEMMA LaunchEffects ==
    ASSUME TypeOK, NEW t \in Threads, NEW r, Launches(t, r)
    PROVE  LET p == Home[t]
           IN  /\ p \in Procs /\ (Prepares(p) \/ Raises(p))
               /\ db' = db /\ scan' = scan /\ faults' = faults
               /\ nonce \in Nat /\ nonce' = nonce + 1
               /\ \A q \in Procs : q # p => mem'[q] = mem[q] /\ pc'[q] = pc[q] /\ tx'[q] = tx[q]
               /\ r.stage = "running" =>
                      /\ tx'[p].entry.id = nonce + 1
                      /\ tx'[p].entry.prev = Tip(mem[p].audit)
               /\ r.stage = "answered" => tx' = tx
<1>. DEFINE p == Home[t]
<1>1. p \in Procs /\ nonce \in Nat /\ pc[p] = "idle" /\ (Prepares(p) \/ Raises(p))
  BY GatewayAssumption, LogTypes, OperationKinds DEF Launches
<1>. HIDE DEF p
<1>2. CASE Prepares(p)
  <2>. PICK m \in Memories, b \in Bundles :
           Begin(p) /\ Submit(p, m, b) /\ Prepared(mem[p], m, b)
    BY <1>2 DEF Prepares
  <2>1. /\ db' = db /\ scan' = scan /\ faults' = faults /\ nonce' = nonce + 1
        /\ \A q \in Procs : q # p => mem'[q] = mem[q] /\ pc'[q] = pc[q] /\ tx'[q] = tx[q]
        /\ tx'[p] = b /\ pc'[p] = "commit"
    BY <1>1 DEF Submit, Id, TypeOK
  <2>2. tx'[p].entry.id = nonce + 1 /\ tx'[p].entry.prev = Tip(mem[p].audit)
    BY <2>1 DEF Prepared, Id
  <2>3. r.stage # "answered"
    BY <1>1, <2>1 DEF Launches, p
  <2>. QED
    BY <1>1, <2>1, <2>2, <2>3 DEF p
<1>3. CASE Raises(p)
  <2>1. /\ db' = db /\ scan' = scan /\ faults' = faults /\ nonce' = nonce + 1
        /\ \A q \in Procs : q # p => mem'[q] = mem[q] /\ pc'[q] = pc[q] /\ tx'[q] = tx[q]
        /\ pc' = pc /\ tx' = tx
    BY <1>1, <1>3 DEF Raises, Abort, Id, TypeOK
  <2>2. r.stage # "running"
    BY <1>1, <2>1 DEF Launches, p
  <2>. QED
    BY <1>1, <1>3, <2>1, <2>2 DEF p
<1>. QED
  BY <1>1, <1>2, <1>3

\* The answer to a round goes on from one request to the next.
Follows(r, old) ==
    r.kind = old.kind /\ r.id = old.id /\ r.version = old.version

\* A step that touches a request alone: it is turned away, let in, or its
\* round's answer is built further.
Touches(t, r) ==
    /\ UNCHANGED <<vars, keys>>
    /\ To(t, r) /\ r \in Requests /\ Named(r)
    /\ \/ r = TurnedAway
       \/ /\ r.stage = "admitted" /\ r.id = 0
          /\ Serving(Home[t]) /\ HasKey(r.org) /\ Member(Home[t], r.org)
       \/ /\ req[t].stage = "metadata" /\ r.stage = "card" /\ Follows(r, req[t])
          /\ r.cohort = req[t].cohort /\ r.shown = Len(Server(t).history)
       \/ /\ req[t].stage = "card" /\ r.stage = "answered" /\ Follows(r, req[t])
          /\ r.status = "200" /\ r.shown = req[t].shown
          /\ r.card \in {mem[Home[t]].last[req[t].cohort], LastOf(Server(t).history)}
          /\ mem[Home[t]].last[req[t].cohort] # Genesis =>
                 r.card = mem[Home[t]].last[req[t].cohort]

LEMMA RequestTouches ==
    ASSUME TypeOK, NamesInv, NEW t \in Threads,
           \/ \E o \in OrgIds, k \in Cohorts, kind \in Kinds \ {"join"} : Arrive(t, o, k, kind)
           \/ Decline(t) \/ Metadata(t) \/ Card(t)
    PROVE  \E r \in Requests : Touches(t, r)
<1>. DEFINE p == Home[t]
            k == req[t].cohort
<1>1. req[t] \in Requests /\ Named(req[t]) /\ p \in Procs /\ mem[p] \in Memories
  BY GatewayAssumption DEF NamesInv, TypeOK
<1>2. CASE \E o \in OrgIds, cohort \in Cohorts, kind \in Kinds \ {"join"} :
               Arrive(t, o, cohort, kind)
  <2>. PICK o \in OrgIds, cohort \in Cohorts, kind \in Kinds \ {"join"} :
           Arrive(t, o, cohort, kind)
    BY <1>2
  <2>. DEFINE r == [NoRequest EXCEPT !.stage = "admitted", !.kind = kind, !.org = o,
                                     !.cohort = cohort]
  <2>1. CASE To(t, TurnedAway)
    BY <2>1, NoRequestNamed DEF Arrive, Touches
  <2>2. CASE Authorized(p, o, cohort, kind) /\ To(t, r)
    <3>1. r \in Requests /\ r.stage = "admitted" /\ r.id = 0 /\ r.org = o /\ r.cohort = cohort
      BY DEF NoRequest, Requests, Stages, Kinds, Answers
    <3>. HIDE DEF r
    <3>2. Named(r)
      BY <3>1 DEF Named
    <3>3. UNCHANGED <<vars, keys>> /\ Serving(p) /\ HasKey(r.org) /\ Member(p, r.org)
      BY <2>2, <3>1 DEF Arrive, Authorized
    <3>. QED
      BY <2>2, <3>1, <3>2, <3>3 DEF Touches
  <2>. QED
    BY <2>1, <2>2 DEF Arrive
<1>3. CASE Decline(t)
  BY <1>3, NoRequestNamed DEF Decline, Touches
<1>4. CASE Metadata(t)
  <2>. DEFINE r == [req[t] EXCEPT !.stage = "card", !.shown = Len(Server(t).history)]
  <2>1. Len(Server(t).history) \in Nat
    <3>1. mem[p].servers[k] \in LiveServers
      BY <1>1, <1>4 DEF Metadata, Server, Memories, Named
    <3>. QED
      BY <3>1 DEF Server, LiveServers
  <2>2. /\ r \in Requests /\ r.stage = "card" /\ r.kind = req[t].kind /\ r.id = req[t].id
        /\ r.version = req[t].version /\ r.cohort = req[t].cohort
        /\ r.shown = Len(Server(t).history)
    BY <1>1, <2>1 DEF Requests, Stages
  <2>3. To(t, r) /\ UNCHANGED <<vars, keys>> /\ req[t].stage = "metadata"
    BY <1>4 DEF Metadata
  <2>. HIDE DEF r
  <2>4. Named(r) /\ Follows(r, req[t])
    BY <1>1, <2>2, <2>3 DEF Named, Follows
  <2>. QED
    BY <2>2, <2>3, <2>4 DEF Touches
<1>5. CASE Card(t)
  <2>. DEFINE a    == Answered(t, "200")
              last == mem[p].last[k]
              card == IF last = Genesis THEN LastOf(Server(t).history) ELSE last
              r    == [a EXCEPT !.card = card]
  <2>1. card \in Nat
    <3>1. mem[p].servers[k] \in LiveServers /\ last \in Nat
      BY <1>1, <1>5 DEF Card, Server, Memories, Named
    <3>2. \A history \in Seq(Nat) : LastOf(history) \in Nat
      BY DEF LastOf, Genesis
    <3>3. Server(t).history \in Seq(Nat)
      BY <3>1 DEF Server, LiveServers
    <3>4. LastOf(Server(t).history) \in Nat
      BY <3>2, <3>3
    <3>. QED
      BY <3>1, <3>4
  <2>. HIDE DEF card
  <2>2. /\ a \in Requests /\ a.stage = "answered" /\ a.status = "200" /\ a.kind = req[t].kind
        /\ a.id = req[t].id /\ a.version = req[t].version /\ a.shown = req[t].shown
    BY <1>1 DEF Answered, Requests, Stages, Answers
  <2>3. To(t, r) /\ UNCHANGED <<vars, keys>> /\ req[t].stage = "card"
    BY <1>5 DEF Card, card
  <2>. HIDE DEF a
  <2>4. /\ r \in Requests /\ r.stage = "answered" /\ r.status = "200" /\ r.kind = req[t].kind
        /\ r.id = req[t].id /\ r.version = req[t].version /\ r.shown = req[t].shown
        /\ r.card = card
    BY <2>1, <2>2 DEF Requests
  <2>. HIDE DEF r
  <2>5. Named(r) /\ Follows(r, req[t])
    BY <2>4 DEF Named, Follows
  <2>. QED
    BY <2>3, <2>4, <2>5 DEF Touches, card
<1>. QED
  BY <1>2, <1>3, <1>4, <1>5

\* The outcome of an operation reaches its request.
Ends(t, r) ==
    LET p == Home[t]
    IN  /\ To(t, r) /\ r \in Requests /\ Named(r) /\ r.kind = req[t].kind /\ r.id = req[t].id
        /\ \/ /\ req[t].stage = "running" /\ Commit(p)
              /\ \/ /\ req[t].kind = "round" /\ keys' = keys
                    /\ r.stage = "metadata" /\ r.cohort = req[t].cohort
                    /\ r.version = Len(mem[p].servers[req[t].cohort].history)
                 \/ /\ req[t].kind # "round" /\ r.stage = "answered" /\ r.status = "200"
                    /\ keys' = IF req[t].kind = "join"
                               THEN [keys EXCEPT ![p] = @ \cup {req[t].org}] ELSE keys
           \/ /\ req[t].stage = "running" /\ (Conflict(p) \/ CommitFails(p))
              /\ r.stage = "failing" /\ r.status # "200" /\ keys' = keys
           \/ /\ req[t].stage = "failing" /\ (Reconverged(p) \/ ReloadFails(p))
              /\ r.stage = "answered" /\ r.status # "200" /\ keys' = keys

LEMMA OutcomeEnds ==
    ASSUME TypeOK, HoldersInv, NEW t \in Threads, Outcome(t)
    PROVE  \E r \in Requests : Ends(t, r)
<1>. DEFINE p == Home[t]
            k == req[t].cohort
<1>1. /\ req[t] \in Requests /\ Named(req[t]) /\ p \in Procs /\ mem[p] \in Memories
      /\ NamesInv /\ Held(t)
  BY GatewayAssumption DEF HoldersInv, NamesInv, TypeOK
<1>. HIDE DEF p, k
<1>2. ASSUME NEW status \in Answers \ {"200"}, Return(t, status)
      PROVE  /\ To(t, Answered(t, status)) /\ keys' = keys
             /\ Answered(t, status) \in Requests /\ Named(Answered(t, status))
             /\ Answered(t, status).stage = "answered" /\ Answered(t, status).status # "200"
             /\ Answered(t, status).id = req[t].id /\ Answered(t, status).kind = req[t].kind
  BY <1>1, <1>2, AnsweredNamed DEF Return, Issued
<1>3. CASE Committed(t)
  <2>1. CASE req[t].kind = "round"
    <3>. DEFINE n == Len(mem[p].servers[k].history)
                r == [req[t] EXCEPT !.stage = "metadata", !.version = n]
    <3>1. k \in Cohorts /\ mem[p].servers[k] \in LiveServers
      BY <1>1, <1>3, <2>1 DEF Committed, Named, Held, Memories, p, k
    <3>2. n \in Nat
      BY <3>1 DEF LiveServers
    <3>3. To(t, r) /\ keys' = keys /\ Commit(p) /\ req[t].stage = "running"
      BY <1>3, <2>1 DEF Committed, p, k
    <3>. HIDE DEF n
    <3>4. /\ r \in Requests /\ r.stage = "metadata" /\ r.kind = "round" /\ r.id = req[t].id
          /\ r.cohort = k /\ r.version = n
      BY <1>1, <2>1, <3>2 DEF Requests, Stages, k
    <3>. HIDE DEF r
    <3>5. Named(r)
      BY <3>1, <3>4 DEF Named
    <3>6. Ends(t, r)
      BY <2>1, <3>3, <3>4, <3>5 DEF Ends, p, k, n
    <3>. QED
      BY <3>4, <3>6
  <2>2. CASE req[t].kind # "round"
    <3>. DEFINE r == Answered(t, "200")
    <3>1. /\ r \in Requests /\ Named(r) /\ r.stage = "answered" /\ r.status = "200"
          /\ r.id = req[t].id /\ r.kind = req[t].kind
      BY <1>1, AnsweredNamed DEF Answers
    <3>2. /\ Commit(p) /\ req[t].stage = "running" /\ To(t, r)
          /\ keys' = IF req[t].kind = "join"
                     THEN [keys EXCEPT ![p] = @ \cup {req[t].org}] ELSE keys
      BY <1>3, <2>2 DEF Committed, Return, Issued, p
    <3>. HIDE DEF r
    <3>3. Ends(t, r)
      BY <2>2, <3>1, <3>2 DEF Ends, p
    <3>. QED
      BY <3>1, <3>3
  <2>. QED
    BY <2>1, <2>2
<1>4. CASE Refused(t) \/ Failed(t)
  <2>. PICK status \in {"409", "500"} : Fails(t, status)
    BY <1>4 DEF Refused, Failed, FailureStatus
  <2>. DEFINE r == [req[t] EXCEPT !.stage = "failing", !.status = status]
  <2>1. /\ r \in Requests /\ r.stage = "failing" /\ r.status # "200" /\ r.id = req[t].id
        /\ r.kind = req[t].kind
    BY <1>1 DEF Requests, Stages, Answers
  <2>2. /\ req[t].stage = "running" /\ To(t, r) /\ keys' = keys
        /\ Conflict(p) \/ CommitFails(p)
    BY <1>4 DEF Fails, Refused, Failed, p
  <2>. HIDE DEF r
  <2>3. Named(r)
    BY <2>1 DEF Named
  <2>4. Ends(t, r)
    BY <2>1, <2>2, <2>3 DEF Ends, p
  <2>. QED
    BY <2>1, <2>4
<1>5. CASE Rebuilt(t) \/ NotRebuilt(t)
  <2>. PICK status \in {"500", req[t].status} : Return(t, status)
    BY <1>5 DEF Rebuilt, NotRebuilt
  <2>1. req[t].stage = "failing" /\ (Reconverged(p) \/ ReloadFails(p))
    BY <1>5 DEF Rebuilt, NotRebuilt, p
  <2>2. status \in Answers \ {"200"}
    BY <1>1, <2>1 DEF Held, Requests, Answers
  <2>3. Ends(t, Answered(t, status)) /\ Answered(t, status) \in Requests
    BY <1>2, <2>1, <2>2 DEF Ends, p
  <2>. QED
    BY <2>3
<1>. QED
  BY <1>3, <1>4, <1>5 DEF Outcome

\* What the outcome does to the process.
LEMMA EndEffects ==
    ASSUME TypeOK, HoldersInv, NEW t \in Threads, NEW r \in Requests, Ends(t, r)
    PROVE  LET p == Home[t]
           IN  /\ p \in Procs /\ nonce' = nonce
               /\ \A q \in Procs : q # p => /\ mem'[q] = mem[q] /\ pc'[q] = pc[q]
                                            /\ tx'[q] = tx[q] /\ scan'[q] = scan[q]
               /\ pc'[p] = IF r.stage = "failing" THEN "reconverging" ELSE "idle"
               /\ req[t].stage = "running" => mem' = mem /\ scan' = scan
               /\ ~Commit(p) => db' = db
<1>. DEFINE p == Home[t]
<1>1. p \in Procs
  BY GatewayAssumption
<1>2. CASE Commit(p)
  <2>1. r.stage # "failing" /\ req[t].stage = "running"
    <3>1. /\ pc[p] = "commit" /\ pc'[p] = "idle"
      BY <1>1, <1>2 DEF Commit, TypeOK
    <3>2. ~(Conflict(p) \/ CommitFails(p))
      BY <1>1, <3>1 DEF Conflict, CommitFails, Reload, TypeOK
    <3>3. ~(Reconverged(p) \/ ReloadFails(p))
      BY <3>1 DEF Reconverged, Loaded, ReloadFails
    <3>. QED
      BY <3>2, <3>3 DEF Ends
  <2>. QED
    BY <1>1, <1>2, <2>1 DEF Commit, TypeOK
<1>3. CASE ~Commit(p)
  <2>1. CASE /\ req[t].stage = "running" /\ (Conflict(p) \/ CommitFails(p))
             /\ r.stage = "failing"
    BY <1>1, <2>1 DEF Conflict, CommitFails, Reload, TypeOK
  <2>2. CASE /\ req[t].stage = "failing" /\ (Reconverged(p) \/ ReloadFails(p))
             /\ r.stage = "answered"
    BY <1>1, <2>2 DEF Reconverged, Loaded, ReloadFails, TypeOK
  <2>. QED
    BY <1>3, <2>1, <2>2 DEF Ends
<1>. QED
  BY <1>2, <1>3

-----------------------------------------------------------------------------
(* The steps of the API, by what they do.                                  *)

\* A call starts the operation its request asks for.
Starts(t, r) ==
    /\ Launches(t, r) /\ Named(r)
    /\ r.stage = "running" /\ r.kind = "join" =>
           \E k \in Cohorts : Join(Home[t], r.org, k)
    /\ r.stage = "running" /\ r.kind # "join" => req[t].stage = "admitted"
    /\ r.stage = "running" /\ r.kind = "round" =>
           \E eps \in Epsilons, delta \in Deltas, dim \in Dims, survivors \in SUBSET OrgIds :
               FederatedRound(Home[t], r.cohort, eps, delta, dim, survivors)
    /\ r.stage = "running" /\ r.kind \notin {"join", "round"} =>
           \/ \E o \in OrgIds, metrics \in ConsentChoices : SetConsent(Home[t], o, metrics)
           \/ \E k \in Cohorts, metric \in DOMAIN Aggregates, eps \in Epsilons :
                  Query(Home[t], k, metric, Aggregates[metric], eps)
    /\ r.stage = "answered" =>
           \E k \in Cohorts, eps \in Epsilons :
               \/ HistogramBadLabels(Home[t], k, eps)
               \/ \E dim \in Dims :
                     \/ FirstRoundFails(Home[t], k, eps, dim)
                     \/ \E delta \in Deltas : RoundOverBudget(Home[t], k, eps, delta, dim)

LEMMA PostOrgStarts ==
    ASSUME TypeOK, NamesInv, NEW t \in Threads, NEW o \in OrgIds, NEW k \in Cohorts,
           PostOrg(t, o, k)
    PROVE  \E r \in Requests : Starts(t, r)
<1>. DEFINE r == [NoRequest EXCEPT !.stage = "running", !.kind = "join", !.org = o,
                                   !.cohort = k, !.id = Id]
<1>1. Launches(t, r) /\ Named(r)
  BY PostOrgLaunches
<1>2. r.stage = "running" /\ r.kind = "join" /\ r.org = o
  BY DEF NoRequest
<1>3. Join(Home[t], o, k)
  BY DEF PostOrg
<1>. HIDE DEF r
<1>4. r \in Requests
  BY <1>1 DEF Launches
<1>. QED
  BY <1>1, <1>2, <1>3, <1>4 DEF Starts

LEMMA CallStarts ==
    ASSUME TypeOK, NamesInv, NEW t \in Threads, Consent(t) \/ Ask(t) \/ Round(t)
    PROVE  \E r \in Requests : Starts(t, r)
<1>. DEFINE p == Home[t]
<1>0. PICK r \in Requests :
          /\ req[t].stage = "admitted" /\ Launches(t, r) /\ Named(r)
          /\ r.stage = "running" => r.kind = req[t].kind /\ r.org = req[t].org
                                    /\ r.cohort = req[t].cohort
  BY CallLaunches
<1>1. /\ p \in Procs /\ pc[p] = "idle" /\ Named(req[t]) /\ pc \in [Procs -> Statuses]
      /\ r.stage = "running" => pc'[p] = "commit"
      /\ r.stage = "answered" => pc'[p] = "idle"
  BY <1>0, GatewayAssumption DEF Launches, NamesInv, TypeOK
<1>. HIDE DEF p
<1>2. CASE Consent(t)
  <2>1. /\ req[t].kind = "consent" /\ req[t].org \in OrgIds
        /\ \E metrics \in ConsentChoices : SetConsent(p, req[t].org, metrics)
    BY <1>0, <1>1, <1>2 DEF Consent, Admitted, Named, p
  <2>2. pc'[p] = "commit"
    BY <1>1, <2>1 DEF SetConsent, Submit
  <2>. QED
    BY <1>0, <1>1, <2>1, <2>2 DEF Starts, p
<1>3. CASE Ask(t)
  <2>0. req[t].kind = "query" /\ req[t].cohort \in Cohorts
    BY <1>0, <1>1, <1>3 DEF Ask, Admitted, Named
  <2>1. CASE \E eps \in Epsilons : HistogramBadLabels(p, req[t].cohort, eps)
    <3>1. pc'[p] = "idle"
      BY <1>1, <2>1 DEF HistogramBadLabels, Abort
    <3>. QED
      BY <1>0, <1>1, <2>0, <2>1, <3>1 DEF Starts, p
  <2>2. CASE \E eps \in Epsilons, metric \in DOMAIN Aggregates :
                 Query(p, req[t].cohort, metric, Aggregates[metric], eps)
    <3>1. pc'[p] = "commit"
      BY <1>1, <2>2 DEF Query, Submit
    <3>. QED
      BY <1>0, <1>1, <2>0, <2>2, <3>1 DEF Starts, p
  <2>. QED
    BY <1>3, <2>1, <2>2 DEF Ask, p
<1>4. CASE Round(t)
  <2>0. req[t].kind = "round" /\ req[t].cohort \in Cohorts
    BY <1>0, <1>1, <1>4 DEF Round, Admitted, Named
  <2>1. CASE \E eps \in Epsilons, dim \in Dims, delta \in Deltas, survivors \in SUBSET OrgIds :
                 FederatedRound(p, req[t].cohort, eps, delta, dim, survivors)
    <3>1. pc'[p] = "commit"
      BY <1>1, <2>1 DEF FederatedRound, Submit
    <3>. QED
      BY <1>0, <1>1, <2>0, <2>1, <3>1 DEF Starts, p
  <2>2. CASE \E eps \in Epsilons, dim \in Dims, delta \in Deltas :
                 RoundOverBudget(p, req[t].cohort, eps, delta, dim)
    <3>1. pc'[p] = "idle"
      BY <1>1, <2>2 DEF RoundOverBudget, Abort
    <3>. QED
      BY <1>0, <1>1, <2>0, <2>2, <3>1 DEF Starts, p
  <2>3. CASE \E eps \in Epsilons, dim \in Dims : FirstRoundFails(p, req[t].cohort, eps, dim)
    <3>1. pc'[p] = "idle"
      BY <1>1, <2>3 DEF FirstRoundFails, Abort
    <3>. QED
      BY <1>0, <1>1, <2>0, <2>3, <3>1 DEF Starts, p
  <2>. QED
    BY <1>4, <2>1, <2>2, <2>3 DEF Round, p
<1>. QED
  BY <1>2, <1>3, <1>4

LEMMA GatewayKinds ==
    ASSUME TypeOK, HoldersInv, [GatewayNext]_gatewayVars
    PROVE  \/ \E t \in Threads, r \in Requests : Starts(t, r) \/ Touches(t, r) \/ Ends(t, r)
           \/ \E p \in Procs : Boot(p) \/ Reads(p) \/ Dies(p)
           \/ UNCHANGED gatewayVars
<1>0. NamesInv
  BY DEF HoldersInv
<1>1. CASE \E t \in Threads, o \in OrgIds, k \in Cohorts : PostOrg(t, o, k)
  BY <1>0, <1>1, PostOrgStarts
<1>2. CASE \E t \in Threads : Consent(t) \/ Ask(t) \/ Round(t)
  BY <1>0, <1>2, CallStarts
<1>3. CASE \E t \in Threads : \/ \E o \in OrgIds, k \in Cohorts, kind \in Kinds \ {"join"} :
                                     Arrive(t, o, k, kind)
                              \/ Decline(t) \/ Metadata(t) \/ Card(t)
  BY <1>0, <1>3, RequestTouches
<1>4. CASE \E t \in Threads : Outcome(t)
  BY <1>4, OutcomeEnds
<1>5. CASE Done \/ UNCHANGED gatewayVars
  BY <1>5 DEF Done, Quiescent, gatewayVars, http
<1>. QED
  BY <1>1, <1>2, <1>3, <1>4, <1>5 DEF GatewayNext, Calls

LEMMA InitHolders == GatewayInit => HoldersInv
<1>. SUFFICES ASSUME GatewayInit PROVE HoldersInv
  OBVIOUS
<1>1. NamesInv
  BY NoRequestNamed DEF GatewayInit, NamesInv
<1>2. \A t \in Threads : req[t].stage = "none"
  BY DEF GatewayInit, NoRequest
<1>. QED
  BY <1>1, <1>2 DEF HoldersInv, OneHolder, Held, Holds

LEMMA NextHolders == TypeOK /\ HoldersInv /\ [GatewayNext]_gatewayVars => HoldersInv'
<1>. SUFFICES ASSUME TypeOK, HoldersInv, [GatewayNext]_gatewayVars PROVE HoldersInv'
  OBVIOUS
<1>0. /\ Home \in [Threads -> Procs] /\ req \in [Threads -> Requests]
      /\ keys \in [Procs -> SUBSET OrgIds] /\ pc \in [Procs -> Statuses]
      /\ mem \in [Procs -> Memories]
  BY GatewayAssumption DEF HoldersInv, NamesInv, TypeOK
<1>1. ASSUME NEW t \in Threads, NEW r \in Requests, Starts(t, r) PROVE HoldersInv'
  <2>1. /\ Launches(t, r) /\ Named(r) /\ To(t, r) /\ keys' = keys /\ pc[Home[t]] = "idle"
        /\ r.stage = "running" => pc'[Home[t]] = "commit"
        /\ r.stage \in {"running", "answered"}
    BY <1>1 DEF Starts, Launches
  <2>2. \A q \in Procs : q # Home[t] => pc'[q] = pc[q] /\ mem'[q] = mem[q]
    BY <2>1, LaunchEffects
  <2>3. \A u \in Threads : u # t /\ Home[u] = Home[t] => ~Holds(u)
    BY <2>1, Alone
  <2>4. r.stage = "running" /\ r.kind = "round" => mem'[Home[t]].servers[r.cohort] # NoServer
    <3>. SUFFICES ASSUME r.stage = "running", r.kind = "round"
                  PROVE  mem'[Home[t]].servers[r.cohort] # NoServer
      OBVIOUS
    <3>1. PICK eps \in Epsilons, dim \in Dims, delta \in Deltas, survivors \in SUBSET OrgIds :
              FederatedRound(Home[t], r.cohort, eps, delta, dim, survivors)
      BY <1>1 DEF Starts
    <3>2. r.cohort \in Cohorts /\ Home[t] \in Procs
      BY <1>0, <1>1 DEF Starts, Named
    <3>3. RoundDone(Home[t], r.cohort, dim)
      BY <3>1, <3>2, RoundEffects DEF HoldersInv
    <3>. QED
      BY <3>3 DEF RoundDone
  <2>. QED
    BY <1>0, <2>1, <2>2, <2>3, <2>4, HoldersKept
<1>2. ASSUME NEW t \in Threads, NEW r \in Requests, Touches(t, r) PROVE HoldersInv'
  <2>1. /\ Named(r) /\ To(t, r) /\ keys' = keys /\ pc' = pc /\ mem' = mem
        /\ r.stage \in {"none", "answered", "admitted", "card"}
    BY <1>2 DEF Touches, vars, TurnedAway, NoRequest
  <2>. QED
    BY <1>0, <2>1, HoldersKept
<1>3. ASSUME NEW t \in Threads, NEW r \in Requests, Ends(t, r) PROVE HoldersInv'
  <2>1. /\ Named(r) /\ To(t, r) /\ Holds(t)
        /\ r.stage \in {"metadata", "answered", "failing"}
        /\ r.stage = "failing" => r.status # "200"
        /\ keys' \in [Procs -> SUBSET OrgIds]
    <3>1. req[t].stage = "running" /\ req[t].kind = "join" => req[t].org \in OrgIds
      BY DEF HoldersInv, NamesInv, Named
    <3>. QED
      BY <1>0, <1>3, <3>1 DEF Ends, Holds
  <2>2. \A q \in Procs : q # Home[t] => pc'[q] = pc[q] /\ mem'[q] = mem[q]
    BY <1>3, EndEffects
  <2>3. r.stage = "failing" => pc'[Home[t]] = "reconverging"
    BY <1>3, EndEffects
  <2>4. \A u \in Threads : u # t /\ Home[u] = Home[t] => ~Holds(u)
    BY <2>1, Alone
  <2>. QED
    BY <1>0, <2>1, <2>2, <2>3, <2>4, HoldersKept
<1>4. ASSUME NEW p \in Procs, Boot(p) \/ Reads(p) PROVE HoldersInv'
  <2>1. UNCHANGED <<req, keys>> /\ \A q \in Procs : q # p => pc'[q] = pc[q] /\ mem'[q] = mem[q]
    BY <1>0, <1>4 DEF Boot, Reads, Start, Started, Loaded, ReadTable, http
  <2>2. pc[p] \in {"down", "starting"} \/ (pc' = pc /\ mem' = mem)
    BY <1>4 DEF Boot, Reads, Start, Started, Loaded, ReadTable
  <2>3. \A t \in Threads : Held(t)'
    BY <1>0, <2>1, <2>2 DEF HoldersInv, Held
  <2>. QED
    BY <2>1, <2>3 DEF HoldersInv, NamesInv, OneHolder, Holds
<1>5. ASSUME NEW p \in Procs, Dies(p) PROVE HoldersInv'
  <2>1. /\ keys' = keys /\ \A q \in Procs : q # p => pc'[q] = pc[q] /\ mem'[q] = mem[q]
        /\ \A t \in Threads : req'[t] = IF Home[t] = p THEN NoRequest ELSE req[t]
        /\ req' \in [Threads -> Requests]
    BY <1>0, <1>5, NoRequestNamed DEF Dies, Crash
  <2>2. NoRequest.stage = "none"
    BY DEF NoRequest
  <2>3. NamesInv'
    BY <2>1, NoRequestNamed DEF HoldersInv, NamesInv
  <2>4. OneHolder'
    BY <2>1, <2>2 DEF HoldersInv, OneHolder, Holds
  <2>5. \A t \in Threads : Held(t)'
    BY <1>0, <2>1, <2>2 DEF HoldersInv, Held
  <2>. QED
    BY <2>3, <2>4, <2>5 DEF HoldersInv
<1>6. CASE UNCHANGED gatewayVars
  BY <1>6 DEF gatewayVars, vars, http, HoldersInv, NamesInv, OneHolder, Held, Holds
<1>. QED
  BY <1>1, <1>2, <1>3, <1>4, <1>5, <1>6, GatewayKinds

-----------------------------------------------------------------------------
(* The API runs the platform.                                              *)

LEMMA GatewaySteps == NamesInv /\ [GatewayNext]_gatewayVars => [Next]_vars
<1>. SUFFICES ASSUME NamesInv, [GatewayNext]_gatewayVars PROVE [Next]_vars
  OBVIOUS
<1>0. Home \in [Threads -> Procs]
  BY GatewayAssumption
<1>1. ASSUME NEW t \in Threads,
             \/ Consent(t) \/ Ask(t) \/ Round(t)
             \/ \E o \in OrgIds, k \in Cohorts : PostOrg(t, o, k)
      PROVE  Next
  <2>1. Operation(Home[t])
    BY <1>1, CallsOperate DEF NamesInv, Named
  <2>. QED
    BY <1>0, <2>1 DEF Next
<1>2. ASSUME NEW t \in Threads,
             \/ \E o \in OrgIds, k \in Cohorts, kind \in Kinds \ {"join"} :
                    Arrive(t, o, k, kind)
             \/ Decline(t) \/ Metadata(t) \/ Card(t)
      PROVE  UNCHANGED vars
  BY <1>2 DEF Arrive, Decline, Metadata, Card
<1>3. ASSUME NEW t \in Threads, Outcome(t) PROVE Next
  BY <1>0, <1>3 DEF Outcome, Committed, Refused, Failed, Rebuilt, NotRebuilt, Next, Recovery
<1>4. ASSUME NEW p \in Procs, Boot(p) \/ Reads(p) \/ Dies(p) PROVE Next
  BY <1>4 DEF Boot, Reads, Dies, Next, Recovery
<1>5. CASE Done \/ UNCHANGED gatewayVars
  BY <1>5 DEF Done, Next, gatewayVars
<1>. QED
  BY <1>1, <1>2, <1>3, <1>4, <1>5 DEF GatewayNext, Calls

\* Typed, and with at most one thread of each process in the platform's hands.
LEMMA GatewayHolds == GatewaySpec => [](TypeOK /\ HoldersInv)
<1>1. GatewayInit => TypeOK /\ HoldersInv
  BY InitType, InitHolders DEF GatewayInit
<1>2. TypeOK /\ HoldersInv /\ [GatewayNext]_gatewayVars => TypeOK' /\ HoldersInv'
  <2>1. HoldersInv => NamesInv
    BY DEF HoldersInv
  <2>. QED
    BY <2>1, NextType, NextHolders, GatewaySteps
<1>. QED
  BY <1>1, <1>2, PTL DEF GatewaySpec

\* Whatever requests arrive, and however the threads of the processes
\* interleave, the API makes the platform do nothing that the platform alone
\* could not: what is proved of the platform holds under the API.
THEOREM GatewayRunsPlatform == GatewaySpec => Spec
<1>1. GatewayInit => Init
  BY DEF GatewayInit
<1>2. HoldersInv => NamesInv
  BY DEF HoldersInv
<1>. QED
  BY <1>1, <1>2, GatewayHolds, GatewaySteps, PTL DEF GatewaySpec, Spec

-----------------------------------------------------------------------------
(* Answers.  An operation that has not ended is in flight under the id its *)
(* request will be answered with; one that failed will never be stored.    *)

InFlight(id) == \E p \in Procs : pc[p] = "commit" /\ tx[p].entry.id = id

\* What a request says of its operation agrees with the log.
Truthful(log, r) ==
    /\ r.stage = "failing" => ~Logged(log, r.id)
    /\ r.stage \in {"metadata", "card"} => Logged(log, r.id)
    /\ r.stage = "answered" /\ r.id # 0 => (r.status = "200" <=> Logged(log, r.id))

Honest(t) ==
    /\ req[t].id <= nonce
    /\ req[t].stage = "running" => req[t].id = tx[Home[t]].entry.id
    /\ req[t].stage # "running" => ~InFlight(req[t].id)
    /\ Truthful(db.audit, req[t])

HonestInv == \A t \in Threads : Honest(t)

\* A request stays truthful through what other operations do: they bring new
\* ids, and store ids that are in flight.
LEMMA OtherTold ==
    ASSUME TypeOK, NamesInv, HonestInv, NEW u \in Threads, req'[u] = req[u],
           nonce' \in Nat, nonce <= nonce',
           req[u].stage = "running" => tx'[Home[u]] = tx[Home[u]],
           \A q \in Procs : pc'[q] = "commit" =>
               (pc[q] = "commit" /\ tx'[q] = tx[q]) \/ tx'[q].entry.id = nonce + 1,
           \A id \in Nat : Logged(db'.audit, id) <=> Logged(db.audit, id) \/
               \E q \in Procs : /\ pc[q] = "commit" /\ tx[q].entry.id = id
                               /\ db' # db
    PROVE  Honest(u)'
<1>1. req[u].id \in Nat /\ nonce \in Nat /\ Honest(u)
  BY LogTypes DEF NamesInv, Requests, HonestInv
<1>2. req[u].stage # "running" => ~InFlight(req[u].id)'
  BY <1>1 DEF Honest, InFlight
<1>3. Truthful(db'.audit, req[u])
  <2>1. CASE req[u].stage = "running"
    BY <2>1 DEF Truthful
  <2>2. CASE req[u].stage # "running"
    <3>1. Logged(db'.audit, req[u].id) <=> Logged(db.audit, req[u].id)
      BY <1>1, <2>2 DEF Honest, InFlight
    <3>. QED
      BY <1>1, <3>1 DEF Honest, Truthful
  <2>. QED
    BY <2>1, <2>2
<1>. QED
  BY <1>1, <1>2, <1>3 DEF Honest

\* The ids in flight are those of requests: none is 0, none is new, and a
\* process has one that the store has not logged.
LEMMA FlightIds ==
    ASSUME TypeOK, ChainInv, TipsInv
    PROVE  /\ ~InFlight(0) /\ nonce \in Nat
           /\ ~InFlight(nonce + 1) /\ ~Logged(db.audit, nonce + 1)
           /\ \A p \in Procs : pc[p] = "commit" => /\ tx[p].entry.id \in 1..nonce
                                                  /\ ~Logged(db.audit, tx[p].entry.id)
<1>1. \A p \in Procs : pc[p] = "commit" => tx[p].entry.id \in 1..nonce
  BY DEF TipsInv, OnlyMine
<1>2. nonce \in Nat /\ db \in Stores
  BY LogTypes DEF TypeOK
<1>3. \A i \in DOMAIN db.audit : db.audit[i].id \in Nat /\ db.audit[i].id <= nonce
  BY <1>2, IdsAreNumbers DEF ChainInv
<1>. QED
  BY <1>1, <1>2, <1>3 DEF InFlight, ChainInv, Logged

LEMMA StoredIsLogged ==
    ASSUME TypeOK, NEW p \in Procs, Commit(p)
    PROVE  \A id : Logged(db'.audit, id) <=> Logged(db.audit, id) \/ id = tx[p].entry.id
<1>. DEFINE e == tx[p].entry
            n == Len(db.audit)
<1>1. db.audit \in Seq(Entries) /\ e \in Entries /\ db'.audit = Append(db.audit, e)
  BY LogTypes DEF Commit, Apply
<1>2. /\ n \in Nat /\ DOMAIN db.audit = 1..n /\ DOMAIN db'.audit = 1..(n + 1)
      /\ \A i \in 1..n : db'.audit[i] = db.audit[i]
      /\ db'.audit[n + 1] = e
  BY <1>1
<1>3. 1..(n + 1) = (1..n) \cup {n + 1}
  BY <1>2
<1>. HIDE DEF e, n
<1>4. \A id : Logged(db'.audit, id) <=> Logged(db.audit, id) \/ id = e.id
  BY <1>2, <1>3 DEF Logged
<1>. QED
  BY <1>4 DEF e

LEMMA StartsTold ==
    ASSUME TypeOK, ChainInv, TipsInv, HoldersInv, HonestInv,
           NEW t \in Threads, NEW r \in Requests, Starts(t, r)
    PROVE  HonestInv'
<1>. DEFINE p == Home[t]
<1>1. /\ p \in Procs /\ nonce \in Nat /\ nonce' = nonce + 1 /\ db' = db
      /\ pc[p] = "idle" /\ r.id = nonce + 1 /\ To(t, r) /\ NamesInv
      /\ \A q \in Procs : q # p => pc'[q] = pc[q] /\ tx'[q] = tx[q]
      /\ r.stage = "running" => tx'[p].entry.id = nonce + 1 /\ pc'[p] = "commit"
      /\ \/ r.stage = "running"
         \/ r.stage = "answered" /\ r.status # "200" /\ pc' = pc /\ tx' = tx
  BY LaunchEffects DEF Starts, Launches, Id, HoldersInv
<1>2. req'[t] = r /\ \A u \in Threads : u # t => req'[u] = req[u]
  BY <1>1 DEF To, NamesInv
<1>. HIDE DEF p
<1>3. ASSUME NEW u \in Threads, u # t PROVE Honest(u)'
  <2>1. req[u].stage = "running" => Home[u] # p /\ Home[u] \in Procs
    BY <1>1, GatewayAssumption DEF HoldersInv, Held
  <2>. QED
    BY <1>1, <1>2, <1>3, <2>1, OtherTold
<1>4. Honest(t)'
  <2>1. CASE r.stage = "running"
    BY <1>1, <1>2, <2>1 DEF Honest, Truthful, p
  <2>2. CASE r.stage = "answered" /\ r.status # "200" /\ pc' = pc /\ tx' = tx
    <3>1. PICK n \in Nat : n = nonce + 1
      BY <1>1
    <3>2. ~InFlight(n)' /\ ~Logged(db.audit, n)
      BY <2>2, <3>1, FlightIds DEF InFlight
    <3>3. req'[t].id = n /\ req'[t].stage = "answered" /\ req'[t].status # "200" /\ n <= nonce'
      BY <1>1, <1>2, <2>2, <3>1
    <3>. QED
      BY <1>1, <3>2, <3>3 DEF Honest, Truthful
  <2>. QED
    BY <1>1, <2>1, <2>2
<1>. QED
  BY <1>3, <1>4 DEF HonestInv

LEMMA TouchesTold ==
    ASSUME TypeOK, ChainInv, TipsInv, HoldersInv, HonestInv,
           NEW t \in Threads, NEW r \in Requests, Touches(t, r)
    PROVE  HonestInv'
<1>1. nonce \in Nat /\ nonce' = nonce /\ db' = db /\ pc' = pc /\ tx' = tx /\ To(t, r) /\ NamesInv
  BY LogTypes DEF Touches, vars, HoldersInv
<1>2. req'[t] = r /\ \A u \in Threads : u # t => req'[u] = req[u]
  BY <1>1 DEF To, NamesInv
<1>3. \A u \in Threads : u # t => Honest(u)'
  BY <1>1, <1>2, OtherTold
<1>4. Honest(t)'
  <2>1. Honest(t) /\ ~InFlight(0)
    BY FlightIds DEF HonestInv
  <2>2. CASE r.id = 0 /\ r.stage \in {"none", "answered", "admitted"}
    BY <1>1, <1>2, <2>1, <2>2 DEF Honest, Truthful, InFlight
  <2>3. CASE /\ r.id = req[t].id /\ req[t].stage \in {"metadata", "card"}
             /\ r.stage = "card" \/ (r.stage = "answered" /\ r.status = "200")
    BY <1>1, <1>2, <2>1, <2>3 DEF Honest, Truthful, InFlight
  <2>. QED
    BY <2>2, <2>3 DEF Touches, Follows, TurnedAway, NoRequest
<1>. QED
  BY <1>3, <1>4 DEF HonestInv

LEMMA EndsTold ==
    ASSUME TypeOK, ChainInv, TipsInv, HoldersInv, HonestInv,
           NEW t \in Threads, NEW r \in Requests, Ends(t, r)
    PROVE  HonestInv'
<1>. DEFINE p == Home[t]
<1>1. /\ p \in Procs /\ nonce \in Nat /\ nonce' = nonce /\ r.id = req[t].id /\ To(t, r) /\ NamesInv
      /\ \A q \in Procs : q # p => pc'[q] = pc[q] /\ tx'[q] = tx[q]
      /\ pc'[p] # "commit" /\ Holds(t)
      /\ ~Commit(p) => db' = db
  BY LogTypes, EndEffects DEF Ends, HoldersInv, Holds
<1>2. req'[t] = r /\ \A u \in Threads : u # t => req'[u] = req[u]
  BY <1>1 DEF To, NamesInv
<1>3. ASSUME NEW id \in Nat
      PROVE  Logged(db'.audit, id) <=> \/ Logged(db.audit, id)
                                       \/ Commit(p) /\ id = tx[p].entry.id
  BY <1>1, StoredIsLogged
<1>4. Commit(p) => pc[p] = "commit" /\ ~Logged(db.audit, tx[p].entry.id)
  BY <1>1, FlightIds DEF Commit
<1>5. req[t].id \in Nat /\ Honest(t)
  BY DEF HoldersInv, NamesInv, Requests, HonestInv
<1>. HIDE DEF p
<1>6. ASSUME NEW u \in Threads, u # t PROVE Honest(u)'
  <2>1. req[u].stage = "running" => Home[u] # p /\ Home[u] \in Procs
    BY <1>1, <1>6, GatewayAssumption DEF HoldersInv, OneHolder, Holds, p
  <2>2. ASSUME NEW id \in Nat
        PROVE  Logged(db'.audit, id) <=> \/ Logged(db.audit, id)
                                         \/ Commit(p) /\ id = tx[p].entry.id
    BY <1>3
  <2>3. CASE req[u].stage = "running"
    <3>1. /\ req'[u] = req[u] /\ tx'[Home[u]] = tx[Home[u]] /\ Honest(u)
      BY <1>1, <1>2, <1>6, <2>1, <2>3 DEF HonestInv
    <3>. QED
      BY <1>1, <2>3, <3>1 DEF Honest, Truthful
  <2>4. CASE req[u].stage # "running"
    <3>1. /\ req'[u] = req[u] /\ Honest(u) /\ ~InFlight(req[u].id) /\ req[u].id \in Nat
      BY <1>1, <1>2, <1>6, <2>4 DEF HonestInv, Honest, NamesInv, Requests
    <3>2. ~InFlight(req[u].id)'
      BY <1>1, <3>1 DEF InFlight
    <3>3. Logged(db'.audit, req[u].id) <=> Logged(db.audit, req[u].id)
      BY <1>1, <1>4, <2>2, <3>1 DEF InFlight
    <3>. QED
      BY <1>1, <2>4, <3>1, <3>2, <3>3 DEF Honest, Truthful
  <2>. QED
    BY <2>3, <2>4
<1>7. Honest(t)'
  <2>1. ~InFlight(req[t].id)'
    <3>0. PICK n \in Nat : n = req[t].id /\ n = req'[t].id
      BY <1>1, <1>2, <1>5
    <3>1. CASE req[t].stage = "running"
      <4>1. pc[p] = "commit" /\ n = tx[p].entry.id
        BY <1>1, <1>5, <3>0, <3>1 DEF HoldersInv, Held, Honest, p
      <4>2. ~InFlight(n)'
        BY <1>1, <4>1 DEF InFlight, ChainInv
      <4>. QED
        BY <3>0, <4>2
    <3>2. CASE req[t].stage # "running"
      <4>1. ~InFlight(n)
        BY <1>5, <3>0, <3>2 DEF Honest
      <4>2. ~InFlight(n)'
        BY <1>1, <4>1 DEF InFlight
      <4>. QED
        BY <3>0, <4>2
    <3>. QED
      BY <3>1, <3>2
  <2>2. CASE Commit(p)
    <3>1. /\ r.stage = "metadata" \/ (r.stage = "answered" /\ r.status = "200")
          /\ req[t].stage = "running"
      <4>1. pc[p] = "commit" /\ r.stage # "failing"
        BY <1>1, <2>2, EndEffects DEF Commit, p
      <4>2. req[t].stage # "failing"
        BY <4>1 DEF HoldersInv, Held, p
      <4>. QED
        BY <4>1, <4>2 DEF Ends
    <3>2. Logged(db'.audit, req[t].id)
      BY <1>3, <1>5, <2>2, <3>1 DEF Honest, p
    <3>. QED
      BY <1>1, <1>2, <1>5, <2>1, <3>1, <3>2 DEF Honest, Truthful
  <2>3. CASE ~Commit(p)
    <3>1. r.stage \in {"failing", "answered"} /\ r.status # "200"
      BY <2>3 DEF Ends, p
    <3>2. ~Logged(db.audit, req[t].id)
      <4>1. CASE req[t].stage = "running"
        BY <1>1, <1>5, <4>1, FlightIds DEF HoldersInv, Held, Honest, p
      <4>2. CASE req[t].stage = "failing"
        BY <1>5, <4>2 DEF Honest, Truthful
      <4>. QED
        BY <1>1, <4>1, <4>2 DEF Holds
    <3>. QED
      BY <1>1, <1>2, <1>5, <2>1, <2>3, <3>1, <3>2 DEF Honest, Truthful
  <2>. QED
    BY <2>2, <2>3
<1>. QED
  BY <1>6, <1>7 DEF HonestInv

LEMMA NextTold ==
    TypeOK /\ ChainInv /\ TipsInv /\ HoldersInv /\ HonestInv /\ [GatewayNext]_gatewayVars
        => HonestInv'
<1>. SUFFICES ASSUME TypeOK, ChainInv, TipsInv, HoldersInv, HonestInv, [GatewayNext]_gatewayVars
              PROVE  HonestInv'
  OBVIOUS
<1>0. nonce \in Nat /\ NamesInv
  BY LogTypes DEF HoldersInv
<1>1. ASSUME NEW p \in Procs, Boot(p) \/ Reads(p) PROVE HonestInv'
  <2>1. /\ req' = req /\ tx' = tx /\ db' = db /\ nonce' = nonce
        /\ \A q \in Procs : pc'[q] = "commit" => pc[q] = "commit"
    BY <1>1 DEF Boot, Reads, Start, Started, Loaded, ReadTable, http, TypeOK
  <2>. QED
    BY <1>0, <2>1, OtherTold DEF HonestInv
<1>2. ASSUME NEW p \in Procs, Dies(p) PROVE HonestInv'
  <2>1. /\ db' = db /\ nonce' = nonce
        /\ \A q \in Procs : pc'[q] = "commit" => q # p /\ pc[q] = "commit" /\ tx'[q] = tx[q]
        /\ \A q \in Procs : q # p => tx'[q] = tx[q]
        /\ \A t \in Threads : req'[t] = IF Home[t] = p THEN NoRequest ELSE req[t]
    BY <1>2 DEF Dies, Crash, TypeOK
  <2>2. ASSUME NEW t \in Threads, Home[t] = p PROVE Honest(t)'
    <3>1. req'[t] = NoRequest /\ ~InFlight(0)'
      BY <2>1, <2>2, FlightIds DEF InFlight
    <3>2. NoRequest.id = 0 /\ NoRequest.stage = "none"
      BY DEF NoRequest
    <3>. QED
      BY <1>0, <2>1, <3>1, <3>2 DEF Honest, Truthful
  <2>3. ASSUME NEW t \in Threads, Home[t] # p PROVE Honest(t)'
    BY <1>0, <2>1, <2>3, OtherTold, GatewayAssumption
  <2>. QED
    BY <2>2, <2>3 DEF HonestInv
<1>3. CASE UNCHANGED gatewayVars
  <2>1. req' = req /\ tx' = tx /\ db' = db /\ nonce' = nonce /\ pc' = pc
    BY <1>3 DEF gatewayVars, vars, http
  <2>. QED
    BY <1>0, <2>1, OtherTold DEF HonestInv
<1>. QED
  BY <1>1, <1>2, <1>3, StartsTold, TouchesTold, EndsTold, GatewayKinds

LEMMA InitTold == GatewayInit => HonestInv
<1>. SUFFICES ASSUME GatewayInit, NEW t \in Threads PROVE Honest(t)
  BY DEF HonestInv
<1>1. req[t].id = 0 /\ req[t].stage = "none"
  BY DEF GatewayInit, NoRequest
<1>2. nonce = 0 /\ ~InFlight(0)
  BY DEF GatewayInit, Init, InFlight
<1>. QED
  BY <1>1, <1>2 DEF Honest, Truthful

\* What the platform proves of itself, under the API.
LEMMA GatewayChains == GatewaySpec => [](TypeOK /\ ChainInv /\ TipsInv /\ HoldersInv)
<1>1. Init => TypeOK /\ ChainInv /\ TipsInv
  BY InitType, InitChains, InitTips
<1>2. TypeOK /\ ChainInv /\ TipsInv /\ [Next]_vars => TypeOK' /\ ChainInv' /\ TipsInv'
  BY NextType, NextChains, NextTips
<1>3. Spec => [](TypeOK /\ ChainInv /\ TipsInv)
  BY <1>1, <1>2, PTL DEF Spec
<1>. QED
  BY <1>3, GatewayRunsPlatform, GatewayHolds, PTL

\* A client that is told 200 finds its operation in the log, and one that is
\* refused never does, whatever crashes, conflicts and rebuilds there were.
THEOREM AnswersAreTrue == GatewaySpec => []AnswersTrue
<1>1. GatewayInit => HonestInv
  BY InitTold
<1>2. HonestInv => AnswersTrue
  BY DEF HonestInv, Honest, Truthful, AnswersTrue, Stored, Logged
<1>. QED
  BY <1>1, <1>2, NextTold, GatewayChains, PTL DEF GatewaySpec

-----------------------------------------------------------------------------
(* Keys.  A key belongs to an organization that is stored, so every load   *)
(* that can replace the members of a process finds it.  What a process     *)
(* read of the registry misses nobody the process has to know: who joins   *)
(* meanwhile joins at another process, under an id nobody has drawn.       *)

Registered   == {o \in OrgIds : db.orgs[o] # NoOrg}
MembersOf(p) == {o \in OrgIds : mem[p].orgs[o] # NoOrg}
ScannedBy(p) == {o \in OrgIds : scan[p].state.orgs[o] # NoOrg}
JoiningAt(p) == {o \in OrgIds : pc[p] = "commit" /\ tx[p].org # Nothing /\ tx[p].org.id = o}

KeysOf(p) ==
    /\ keys[p] \subseteq Registered
    /\ Serving(p) => keys[p] \subseteq MembersOf(p)
    /\ ScannedBy(p) \subseteq Registered
    /\ scan[p].read > 0 => Registered \cap (keys[p] \cup MembersOf(p)) \subseteq ScannedBy(p)
    /\ pc[p] \notin {"starting", "reconverging"} => scan[p].read = 0
    /\ JoiningAt(p) \subseteq MembersOf(p) \ Registered
    /\ \A q \in Procs : q # p => JoiningAt(p) \cap MembersOf(q) = {}

LetIn(t) ==
    /\ req[t].stage = "admitted" =>
           Serving(Home[t]) /\ req[t].org \in MembersOf(Home[t]) \cap Registered
    /\ req[t].stage = "running" /\ req[t].kind = "join" => req[t].org \in JoiningAt(Home[t])

KeysInv == (\A p \in Procs : KeysOf(p)) /\ (\A t \in Threads : LetIn(t))

\* What a step leaves alone of a process.
Still(p) == mem'[p] = mem[p] /\ pc'[p] = pc[p] /\ tx'[p] = tx[p] /\ scan'[p] = scan[p]

LEMMA StillKnows ==
    ASSUME NEW q \in Procs, Still(q)
    PROVE  /\ MembersOf(q)' = MembersOf(q) /\ ScannedBy(q)' = ScannedBy(q)
           /\ JoiningAt(q)' = JoiningAt(q) /\ Serving(q)' = Serving(q)
           /\ scan'[q].read = scan[q].read /\ pc'[q] = pc[q]
  BY DEF Still, MembersOf, ScannedBy, JoiningAt, Serving

\* A step of process p that stores nobody and hands out no key: the other
\* processes go on as they were.
LEMMA OthersKeep ==
    ASSUME KeysInv, NEW p \in Procs, keys' = keys, Registered' = Registered,
           \A q \in Procs : q # p => Still(q),
           \A q \in Procs : q # p => JoiningAt(q) \cap MembersOf(p)' = {},
           KeysOf(p)'
    PROVE  \A q \in Procs : KeysOf(q)'
<1>. SUFFICES ASSUME NEW q \in Procs, q # p PROVE KeysOf(q)'
  OBVIOUS
<1>1. /\ MembersOf(q)' = MembersOf(q) /\ ScannedBy(q)' = ScannedBy(q)
      /\ JoiningAt(q)' = JoiningAt(q) /\ Serving(q)' = Serving(q)
      /\ scan'[q].read = scan[q].read /\ pc'[q] = pc[q]
  BY StillKnows
<1>2. KeysOf(q)
  BY DEF KeysInv
<1>3. \A c \in Procs : c # q => JoiningAt(q)' \cap MembersOf(c)' = {}
  <2>. TAKE c \in Procs
  <2>1. CASE c = p
    BY <1>1, <2>1
  <2>2. CASE c # p
    <3>1. MembersOf(c)' = MembersOf(c)
      BY <2>2, StillKnows
    <3>. QED
      BY <1>1, <1>2, <3>1 DEF KeysOf
  <2>. QED
    BY <2>1, <2>2
<1>. QED
  BY <1>1, <1>2, <1>3 DEF KeysOf

LEMMA StartsMembers ==
    ASSUME TypeOK, NamesInv, NEW t \in Threads, NEW r \in Requests, Starts(t, r)
    PROVE  \E new \in SUBSET OrgIds :
               /\ MembersOf(Home[t])' = MembersOf(Home[t]) \cup new
               /\ JoiningAt(Home[t])' = new
               /\ new \cap Registered = {} /\ \A q \in Procs : new \cap MembersOf(q) = {}
               /\ r.stage = "running" /\ r.kind = "join" => r.org \in new
<1>. PICK p \in Procs : p = Home[t]
  BY GatewayAssumption
<1>0. /\ mem \in [Procs -> Memories] /\ tx \in [Procs -> Bundles \cup {Nothing}]
      /\ pc \in [Procs -> Statuses] /\ pc[p] = "idle" /\ mem[p].orgs \in Registries
      /\ r.stage \in {"running", "answered"} /\ (r.stage = "answered" => pc' = pc)
  BY DEF TypeOK, Starts, Launches, Memories
<1>1. CASE r.stage = "running" /\ r.kind = "join"
  <2>1. PICK k \in Cohorts : Join(p, r.org, k) /\ r.org \in OrgIds
    BY <1>1 DEF Starts, Named
  <2>2. PICK o \in OrgIds, org \in Organizations :
            /\ o = r.org
            /\ mem'[p].orgs = [mem[p].orgs EXCEPT ![o] = org]
            /\ pc'[p] = "commit" /\ tx'[p].org = [id |-> o, data |-> org]
    <3>. DEFINE org == [sector |-> k.sector, domain |-> k.domain, active |-> TRUE]
    <3>1. org \in Organizations
      BY StoreAssumption DEF Organizations
    <3>2. /\ mem'[p].orgs = [mem[p].orgs EXCEPT ![r.org] = org]
          /\ pc'[p] = "commit" /\ tx'[p].org = [id |-> r.org, data |-> org]
      BY <1>0, <2>1 DEF Join, Submit, Bundle, Memories
    <3>. QED
      BY <2>1, <3>1, <3>2
  <2>3. org # NoOrg /\ [id |-> o, data |-> org] # Nothing
    BY PolicyAssumption, StoreAssumption DEF OrgWrites
  <2>4. MembersOf(p)' = MembersOf(p) \cup {o}
    BY <1>0, <2>2, <2>3 DEF MembersOf, Registries
  <2>5. JoiningAt(p)' = {o}
    BY <2>2, <2>3 DEF JoiningAt
  <2>6. {o} \cap Registered = {} /\ \A q \in Procs : {o} \cap MembersOf(q) = {}
    BY <2>1, <2>2 DEF Join, Undrawn, Registered, MembersOf
  <2>. QED
    BY <2>2, <2>4, <2>5, <2>6
<1>2. CASE ~(r.stage = "running" /\ r.kind = "join")
  <2>1. mem'[p].orgs = mem[p].orgs /\ (r.stage = "running" => tx'[p].org = Nothing)
    <3>1. CASE r.stage = "running" /\ r.kind = "round"
      <4>1. r.cohort \in Cohorts
        BY <3>1 DEF Starts, Named
      <4>2. PICK dim \in Dims : \E eps, delta, survivors :
                     FederatedRound(p, r.cohort, eps, delta, dim, survivors)
        BY <3>1 DEF Starts
      <4>3. RoundDone(p, r.cohort, dim)
        BY <4>1, <4>2, RoundEffects
      <4>. QED
        BY <4>3 DEF RoundDone
    <3>2. CASE r.stage = "running" /\ r.kind # "round"
      <4>1. \/ \E o, metrics : SetConsent(p, o, metrics)
            \/ \E k, metric, action, eps : Query(p, k, metric, action, eps)
        BY <1>2, <3>2 DEF Starts
      <4>2. CASE \E o, metrics : SetConsent(p, o, metrics)
        BY <1>0, <4>2 DEF SetConsent, Submit, Bundle, Memories
      <4>3. CASE \E k, metric, action, eps : Query(p, k, metric, action, eps)
        BY <1>0, <4>3 DEF Query, Submit, Bundle, Memories
      <4>. QED
        BY <4>1, <4>2, <4>3
    <3>3. CASE r.stage = "answered"
      <4>1. \/ \E k, eps : HistogramBadLabels(p, k, eps)
            \/ \E k, eps, dim : FirstRoundFails(p, k, eps, dim)
            \/ \E k, eps, delta, dim : RoundOverBudget(p, k, eps, delta, dim)
        BY <3>3 DEF Starts
      <4>2. CASE \E k, eps : HistogramBadLabels(p, k, eps)
        BY <1>0, <3>3, <4>2 DEF HistogramBadLabels, Abort, Memories
      <4>3. CASE \E k, eps, dim : FirstRoundFails(p, k, eps, dim)
        BY <1>0, <3>3, <4>3 DEF FirstRoundFails, Abort, Memories
      <4>4. CASE \E k, eps, delta, dim : RoundOverBudget(p, k, eps, delta, dim)
        BY <1>0, <3>3, <4>4 DEF RoundOverBudget, Abort, Trained, Memories
      <4>. QED
        BY <4>1, <4>2, <4>3, <4>4
    <3>. QED
      BY <1>0, <3>1, <3>2, <3>3
  <2>2. MembersOf(p)' = MembersOf(p) \cup {} /\ JoiningAt(p)' = {}
    BY <1>0, <2>1 DEF MembersOf, JoiningAt
  <2>. QED
    BY <1>2, <2>2
<1>. QED
  BY <1>1, <1>2

LEMMA StartsKeys ==
    ASSUME TypeOK, HoldersInv, KeysInv, NEW t \in Threads, NEW r \in Requests, Starts(t, r)
    PROVE  KeysInv'
<1>. PICK p \in Procs : p = Home[t]
  BY GatewayAssumption
<1>. PICK new \in SUBSET OrgIds :
         /\ MembersOf(p)' = MembersOf(p) \cup new /\ JoiningAt(p)' = new
         /\ new \cap Registered = {} /\ \A q \in Procs : new \cap MembersOf(q) = {}
         /\ r.stage = "running" /\ r.kind = "join" => r.org \in new
  BY StartsMembers DEF HoldersInv
<1>1. /\ pc[p] = "idle" /\ pc'[p] \in {"idle", "commit"} /\ To(t, r) /\ keys' = keys
      /\ r.stage \in {"running", "answered"} /\ NamesInv
      /\ db' = db /\ scan' = scan
      /\ \A q \in Procs : q # p => Still(q)
  BY LaunchEffects DEF Starts, Launches, HoldersInv, Still
<1>2. Registered' = Registered /\ ScannedBy(p)' = ScannedBy(p) /\ Serving(p) /\ Serving(p)'
  BY <1>1 DEF Registered, ScannedBy, Serving
<1>3. KeysOf(p) /\ scan[p].read = 0
  BY <1>1 DEF KeysInv, KeysOf
<1>4. KeysOf(p)'
  <2>1. \A q \in Procs : q # p => MembersOf(q)' = MembersOf(q)
    BY <1>1, StillKnows
  <2>. QED
    BY <1>1, <1>2, <1>3, <2>1 DEF KeysOf
<1>5. \A q \in Procs : q # p => JoiningAt(q) \cap MembersOf(p)' = {}
  BY DEF KeysInv, KeysOf
<1>6. \A q \in Procs : KeysOf(q)'
  BY <1>1, <1>2, <1>4, <1>5, OthersKeep
<1>7. ASSUME NEW u \in Threads PROVE LetIn(u)'
  <2>0. PICK h \in Procs : h = Home[u]
    BY GatewayAssumption
  <2>1. /\ req'[u] = IF u = t THEN r ELSE req[u]
        /\ LetIn(u) /\ Held(u)
    BY <1>1 DEF To, NamesInv, KeysInv, HoldersInv
  <2>2. CASE u = t
    BY <1>1, <2>0, <2>1, <2>2 DEF LetIn
  <2>3. CASE u # t /\ h = p
    BY <1>1, <1>2, <2>0, <2>1, <2>3 DEF LetIn, Held
  <2>4. CASE u # t /\ h # p
    <3>1. /\ MembersOf(h)' = MembersOf(h) /\ JoiningAt(h)' = JoiningAt(h)
          /\ Serving(h)' = Serving(h)
      BY <1>1, <2>4, StillKnows
    <3>. QED
      BY <1>2, <2>0, <2>1, <2>4, <3>1 DEF LetIn
  <2>. QED
    BY <2>2, <2>3, <2>4
<1>. QED
  BY <1>6, <1>7 DEF KeysInv

LEMMA TouchesKeys ==
    ASSUME TypeOK, HoldersInv, KeysInv, NEW t \in Threads, NEW r \in Requests, Touches(t, r)
    PROVE  KeysInv'
<1>1. /\ keys' = keys /\ To(t, r) /\ Named(r) /\ NamesInv /\ Registered' = Registered
      /\ \A q \in Procs : Still(q)
  BY DEF Touches, vars, HoldersInv, Registered, Still
<1>2. \A q \in Procs : /\ MembersOf(q)' = MembersOf(q) /\ ScannedBy(q)' = ScannedBy(q)
                       /\ JoiningAt(q)' = JoiningAt(q) /\ Serving(q)' = Serving(q)
                       /\ scan'[q].read = scan[q].read /\ pc'[q] = pc[q]
  BY <1>1, StillKnows
<1>3. \A q \in Procs : KeysOf(q)'
  BY <1>1, <1>2 DEF KeysInv, KeysOf
<1>4. ASSUME NEW u \in Threads PROVE LetIn(u)'
  <2>0. PICK h \in Procs : h = Home[u]
    BY GatewayAssumption
  <2>1. req'[u] = (IF u = t THEN r ELSE req[u]) /\ LetIn(u)
    BY <1>1 DEF To, NamesInv, KeysInv
  <2>2. CASE u # t
    BY <1>1, <1>2, <2>0, <2>1, <2>2 DEF LetIn
  <2>3. CASE u = t /\ r.stage = "admitted"
    <3>1. Serving(h) /\ HasKey(r.org) /\ Member(h, r.org) /\ r.org \in OrgIds
      BY <1>1, <2>0, <2>3 DEF Touches, TurnedAway, NoRequest, Named
    <3>2. r.org \in MembersOf(h) \cap Registered
      BY <3>1 DEF HasKey, KeysInv, KeysOf, Member, MembersOf
    <3>. QED
      BY <1>1, <1>2, <2>0, <2>1, <2>3, <3>1, <3>2 DEF LetIn
  <2>4. CASE u = t /\ r.stage \in {"none", "card", "answered"}
    BY <2>1, <2>4 DEF LetIn
  <2>. QED
    BY <2>2, <2>3, <2>4 DEF Touches, TurnedAway, NoRequest
<1>. QED
  BY <1>3, <1>4 DEF KeysInv

\* A commit stores whom its process is joining, and nobody else.
LEMMA CommitRegisters ==
    ASSUME TypeOK, NEW p \in Procs, Commit(p)
    PROVE  Registered' = Registered \cup JoiningAt(p)
<1>1. tx[p] \in Bundles /\ db.orgs \in Registries /\ pc[p] = "commit"
  BY DEF Commit, TypeOK, Stores
<1>2. db'.orgs = IF tx[p].org = Nothing THEN db.orgs
                 ELSE [db.orgs EXCEPT ![tx[p].org.id] = tx[p].org.data]
  BY DEF Commit, Apply
<1>3. CASE tx[p].org = Nothing
  BY <1>2, <1>3 DEF Registered, JoiningAt
<1>4. CASE tx[p].org # Nothing
  <2>1. tx[p].org.id \in OrgIds /\ tx[p].org.data # NoOrg
    BY <1>1, <1>4, PolicyAssumption DEF Bundles, OrgWrites
  <2>. QED
    BY <1>1, <1>2, <1>4, <2>1 DEF Registered, JoiningAt, Registries
<1>. QED
  BY <1>3, <1>4

\* A load that is complete names everybody the process has to know.
LEMMA LoadedMembers ==
    ASSUME TypeOK, KeysInv, NEW p \in Procs, Started(p) \/ Reconverged(p), pc'[p] = "idle"
    PROVE  MembersOf(p)' = ScannedBy(p)
<1>1. mem \in [Procs -> Memories]
  BY DEF TypeOK
<1>2. mem'[p].orgs = IF IsEmpty(scan[p].state) THEN Nobody ELSE scan[p].state.orgs
  <2>1. CASE Started(p)
    <3>1. ~(~IsEmpty(scan[p].state) /\ Undecodable(scan[p].state))
      BY <2>1 DEF Started, TypeOK
    <3>. QED
      BY <1>1, <2>1, <3>1 DEF Started, Loaded, LiveObjects, Restored
  <2>2. CASE Reconverged(p)
    BY <1>1, <2>2 DEF Reconverged, Loaded, LiveObjects, Restored
  <2>. QED
    BY <2>1, <2>2
<1>3. mem'[p].orgs = scan[p].state.orgs
  BY <1>2 DEF IsEmpty
<1>. QED
  BY <1>3 DEF MembersOf, ScannedBy

\* A table read finds the registry as it is stored, or has read it before.
LEMMA ReadKeys ==
    ASSUME TypeOK, KeysInv, NEW p \in Procs, ReadTable(p), keys' = keys
    PROVE  KeysOf(p)'
<1>. DEFINE n == scan[p].read + 1
            s == scan[p].state
<1>1. /\ scan \in [Procs -> [state : Stores, read : 0..TableCount]]
      /\ scan[p].read \in 0..TableCount /\ KeysOf(p) /\ pc[p] \in {"starting", "reconverging"}
  BY DEF TypeOK, KeysInv, ReadTable
<1>2. n = 1 <=> scan[p].read = 0
  BY <1>1 DEF TableCount
<1>3. /\ UNCHANGED <<db, mem, pc, tx>>
      /\ scan'[p] = [state |-> ReadFrom(s, db, n), read |-> n]
  BY <1>1 DEF ReadTable
<1>. HIDE DEF n
<1>4. scan'[p].state.orgs = IF scan[p].read = 0 THEN db.orgs ELSE scan[p].state.orgs
  BY <1>2, <1>3 DEF ReadFrom
<1>5. ScannedBy(p)' = IF scan[p].read = 0 THEN Registered ELSE ScannedBy(p)
  BY <1>4 DEF ScannedBy, Registered
<1>6. /\ Registered' = Registered /\ JoiningAt(p)' = JoiningAt(p)
      /\ MembersOf(p)' = MembersOf(p) /\ Serving(p)' = Serving(p) /\ pc'[p] = pc[p]
      /\ \A q \in Procs : MembersOf(q)' = MembersOf(q)
  BY <1>3 DEF Registered, JoiningAt, MembersOf, Serving
<1>7. scan[p].read # 0 => scan[p].read > 0
  BY <1>1 DEF TableCount
<1>. QED
  BY <1>1, <1>5, <1>6, <1>7 DEF KeysOf

\* Whatever else happens to a process and its memory.
LEMMA LoadKeys ==
    ASSUME TypeOK, KeysInv, NEW p \in Procs, keys' = keys,
           \/ Start(p) \/ ReadTable(p) \/ Started(p) \/ Reconverged(p) \/ ReloadFails(p)
           \/ Crash(p) \/ Conflict(p) \/ CommitFails(p)
    PROVE  /\ \A q \in Procs : KeysOf(q)'
           /\ Registered' = Registered
           /\ \A q \in Procs : q # p => Still(q)
           /\ Serving(p) => \/ Crash(p)
                            \/ Serving(p)' /\ Registered \cap MembersOf(p) \subseteq MembersOf(p)'
<1>1. /\ db' = db /\ Registered' = Registered /\ \A q \in Procs : q # p => Still(q)
  BY DEF Start, ReadTable, Started, Reconverged, Loaded, ReloadFails, Crash, Conflict,
         CommitFails, Reload, Still, Registered, TypeOK
<1>2. /\ KeysOf(p) /\ pc \in [Procs -> Statuses] /\ mem \in [Procs -> Memories]
      /\ scan \in [Procs -> [state : Stores, read : 0..TableCount]]
  BY DEF KeysInv, TypeOK
<1>3. scan'[p] = NothingRead => ScannedBy(p)' = {} /\ scan'[p].read = 0
  BY DEF NothingRead, EmptyStore, Nobody, ScannedBy
<1>4. pc'[p] # "commit" => JoiningAt(p)' = {}
  BY DEF JoiningAt
<1>5. ASSUME KeysOf(p)', MembersOf(p)' \subseteq MembersOf(p) \cup Registered
      PROVE  \A q \in Procs : KeysOf(q)'
  <2>1. \A q \in Procs : q # p => JoiningAt(q) \cap MembersOf(p)' = {}
    BY <1>5 DEF KeysInv, KeysOf
  <2>. QED
    BY <1>1, <1>5, <2>1, OthersKeep
<1>6. ASSUME pc'[p] # "commit", scan'[p].read = 0, ScannedBy(p)' \subseteq Registered,
             Serving(p)' => keys[p] \subseteq MembersOf(p)'
      PROVE  KeysOf(p)'
  BY <1>1, <1>2, <1>4, <1>6 DEF KeysOf
<1>7. CASE ReadTable(p)
  <2>1. MembersOf(p)' = MembersOf(p) /\ Serving(p)' = Serving(p)
    BY <1>7 DEF ReadTable, MembersOf, Serving
  <2>. QED
    BY <1>1, <1>5, <1>7, <2>1, ReadKeys
<1>8. CASE Start(p)
  <2>1. /\ MembersOf(p)' = MembersOf(p) /\ ScannedBy(p)' = ScannedBy(p) /\ pc'[p] = "starting"
        /\ scan'[p].read = 0 /\ ~Serving(p) /\ ~Serving(p)'
    BY <1>2, <1>8 DEF Start, MembersOf, ScannedBy, Serving, KeysOf
  <2>. QED
    BY <1>1, <1>2, <1>5, <1>6, <2>1 DEF KeysOf
<1>9. CASE Conflict(p) \/ CommitFails(p)
  <2>1. /\ MembersOf(p)' = MembersOf(p) /\ ScannedBy(p)' = ScannedBy(p)
        /\ pc'[p] = "reconverging" /\ scan'[p].read = 0 /\ Serving(p) /\ Serving(p)'
    BY <1>2, <1>9 DEF Conflict, CommitFails, Reload, MembersOf, ScannedBy, Serving, KeysOf
  <2>. QED
    BY <1>1, <1>2, <1>5, <1>6, <2>1 DEF KeysOf
<1>10. CASE ReloadFails(p)
  <2>1. /\ MembersOf(p)' = MembersOf(p) /\ pc'[p] = "idle" /\ scan'[p] = NothingRead
        /\ Serving(p) /\ Serving(p)'
    BY <1>2, <1>10 DEF ReloadFails, MembersOf, Serving
  <2>. QED
    BY <1>1, <1>2, <1>3, <1>5, <1>6, <2>1 DEF KeysOf
<1>11. CASE Crash(p)
  <2>1. /\ MembersOf(p)' = {} /\ pc'[p] = "down" /\ scan'[p] = NothingRead /\ ~Serving(p)'
    BY <1>2, <1>11 DEF Crash, MembersOf, Serving, LiveObjects, Nobody
  <2>. QED
    BY <1>1, <1>3, <1>5, <1>6, <1>11, <2>1
<1>12. CASE Started(p) \/ Reconverged(p)
  <2>1. /\ pc'[p] \in {"idle", "down"} /\ scan'[p] = NothingRead /\ scan[p].read = TableCount
        /\ (Serving(p) => pc'[p] = "idle")
    BY <1>2, <1>12 DEF Started, Reconverged, Loaded, Serving
  <2>2. CASE pc'[p] = "idle"
    <3>1. MembersOf(p)' = ScannedBy(p)
      BY <1>12, <2>2, LoadedMembers
    <3>2. Serving(p)' /\ scan[p].read > 0
      BY <2>1, <2>2 DEF Serving, TableCount
    <3>. QED
      BY <1>1, <1>2, <1>3, <1>5, <1>6, <2>1, <2>2, <3>1, <3>2 DEF KeysOf
  <2>3. CASE pc'[p] = "down"
    <3>1. ~Serving(p) /\ ~Serving(p)'
      BY <2>1, <2>3 DEF Serving
    <3>2. MembersOf(p)' \subseteq MembersOf(p) \cup Registered
      <4>1. mem'[p] = LiveObjects(SeedLimit)
        BY <1>2, <1>12, <2>3 DEF Started, Reconverged, Loaded
      <4>. QED
        BY <4>1 DEF MembersOf, LiveObjects, Nobody
    <3>. QED
      BY <1>1, <1>3, <1>5, <1>6, <2>1, <2>3, <3>1, <3>2
  <2>. QED
    BY <2>1, <2>2, <2>3
<1>. QED
  BY <1>7, <1>8, <1>9, <1>10, <1>11, <1>12

LEMMA CommitKeys ==
    ASSUME TypeOK, KeysInv, NEW p \in Procs, Commit(p),
           NEW new \in SUBSET JoiningAt(p), keys' = [keys EXCEPT ![p] = @ \cup new],
           keys \in [Procs -> SUBSET OrgIds]
    PROVE  \A q \in Procs : KeysOf(q)'
<1>1. /\ pc[p] = "commit" /\ pc'[p] = "idle" /\ mem' = mem /\ scan' = scan
      /\ \A q \in Procs : q # p => Still(q)
  BY DEF Commit, TypeOK, Still
<1>2. Registered' = Registered \cup JoiningAt(p)
  BY CommitRegisters
<1>3. \A q \in Procs : MembersOf(q)' = MembersOf(q) /\ ScannedBy(q)' = ScannedBy(q)
  BY <1>1 DEF MembersOf, ScannedBy
<1>4. keys'[p] = keys[p] \cup new /\ \A q \in Procs : q # p => keys'[q] = keys[q]
  OBVIOUS
<1>5. JoiningAt(p)' = {} /\ Serving(p) /\ KeysOf(p) /\ scan[p].read = 0
  BY <1>1 DEF JoiningAt, Serving, KeysInv, KeysOf
<1>6. KeysOf(p)'
  BY <1>1, <1>2, <1>3, <1>4, <1>5 DEF KeysOf
<1>7. ASSUME NEW q \in Procs, q # p PROVE KeysOf(q)'
  <2>1. /\ JoiningAt(q)' = JoiningAt(q) /\ Serving(q)' = Serving(q) /\ pc'[q] = pc[q]
        /\ scan'[q] = scan[q] /\ keys'[q] = keys[q] /\ KeysOf(q)
    BY <1>1, <1>4, <1>7, StillKnows DEF KeysInv
  <2>2. JoiningAt(p) \cap JoiningAt(q) = {} /\ JoiningAt(p) \cap (keys[q] \cup MembersOf(q)) = {}
    BY <1>5, <1>7, <2>1 DEF KeysOf
  <2>. QED
    BY <1>2, <1>3, <2>1, <2>2 DEF KeysOf
<1>. QED
  BY <1>6, <1>7

LEMMA EndsKeys ==
    ASSUME TypeOK, HoldersInv, KeysInv, NEW t \in Threads, NEW r \in Requests, Ends(t, r)
    PROVE  KeysInv'
<1>. PICK p \in Procs : p = Home[t]
  BY GatewayAssumption
<1>1. /\ To(t, r) /\ r.stage \in {"metadata", "answered", "failing"} /\ Holds(t) /\ NamesInv
      /\ \/ Commit(p) /\ req[t].stage = "running"
            /\ keys' = IF req[t].kind = "join"
                       THEN [keys EXCEPT ![p] = @ \cup {req[t].org}] ELSE keys
         \/ (Conflict(p) \/ CommitFails(p) \/ Reconverged(p) \/ ReloadFails(p)) /\ keys' = keys
  BY DEF Ends, Holds, HoldersInv
<1>2. /\ \A q \in Procs : KeysOf(q)'
      /\ \A q \in Procs : q # p => Still(q)
      /\ Serving(p) => Serving(p)' /\ Registered \cap MembersOf(p) \subseteq MembersOf(p)'
      /\ Registered \subseteq Registered'
  <2>1. CASE /\ Commit(p) /\ req[t].stage = "running"
             /\ keys' = IF req[t].kind = "join"
                        THEN [keys EXCEPT ![p] = @ \cup {req[t].org}] ELSE keys
    <3>1. PICK new \in SUBSET JoiningAt(p) : keys' = [keys EXCEPT ![p] = @ \cup new]
      <4>1. CASE req[t].kind = "join"
        BY <2>1, <4>1 DEF KeysInv, LetIn
      <4>2. CASE req[t].kind # "join"
        <5>1. keys' = [keys EXCEPT ![p] = @ \cup {}]
          BY <1>1, <2>1, <4>2 DEF NamesInv
        <5>. QED
          BY <5>1
      <4>. QED
        BY <4>1, <4>2
    <3>2. \A q \in Procs : KeysOf(q)'
      BY <1>1, <2>1, <3>1, CommitKeys DEF NamesInv
    <3>3. /\ MembersOf(p)' = MembersOf(p) /\ Serving(p)'
          /\ \A q \in Procs : q # p => Still(q)
      BY <2>1 DEF Commit, MembersOf, Serving, Still, TypeOK
    <3>. QED
      BY <2>1, <3>2, <3>3, CommitRegisters
  <2>2. CASE (Conflict(p) \/ CommitFails(p) \/ Reconverged(p) \/ ReloadFails(p)) /\ keys' = keys
    <3>1. ~Crash(p)
      BY <2>2 DEF Crash, Conflict, CommitFails, Reload, Reconverged, ReloadFails, Loaded, TypeOK
    <3>. QED
      BY <2>2, <3>1, LoadKeys
  <2>. QED
    BY <1>1, <2>1, <2>2
<1>3. ASSUME NEW u \in Threads PROVE LetIn(u)'
  <2>0. PICK h \in Procs : h = Home[u]
    BY GatewayAssumption
  <2>1. req'[u] = (IF u = t THEN r ELSE req[u]) /\ LetIn(u)
    BY <1>1 DEF To, NamesInv, KeysInv
  <2>2. CASE u = t
    BY <1>1, <2>1, <2>2 DEF LetIn
  <2>3. CASE u # t /\ h = p
    <3>1. ~Holds(u)
      BY <1>1, <2>0, <2>3 DEF HoldersInv, OneHolder
    <3>. QED
      BY <1>2, <2>0, <2>1, <2>3, <3>1 DEF LetIn, Holds
  <2>4. CASE u # t /\ h # p
    <3>1. /\ MembersOf(h)' = MembersOf(h) /\ JoiningAt(h)' = JoiningAt(h)
          /\ Serving(h)' = Serving(h)
      BY <1>2, <2>4, StillKnows
    <3>. QED
      BY <1>2, <2>0, <2>1, <2>4, <3>1 DEF LetIn
  <2>. QED
    BY <2>2, <2>3, <2>4
<1>. QED
  BY <1>2, <1>3 DEF KeysInv

LEMMA NextKeys ==
    TypeOK /\ HoldersInv /\ KeysInv /\ [GatewayNext]_gatewayVars => KeysInv'
<1>. SUFFICES ASSUME TypeOK, HoldersInv, KeysInv, [GatewayNext]_gatewayVars PROVE KeysInv'
  OBVIOUS
<1>1. ASSUME NEW p \in Procs, Boot(p) \/ Reads(p) \/ Dies(p) PROVE KeysInv'
  <2>1. /\ keys' = keys
        /\ Start(p) \/ ReadTable(p) \/ Started(p) \/ Crash(p)
        /\ \A u \in Threads : req'[u] = IF Dies(p) /\ Home[u] = p THEN NoRequest ELSE req[u]
        /\ Crash(p) => Dies(p)
    <3>1. Boot(p) \/ Reads(p) => ~Crash(p)
      BY DEF Boot, Reads, Crash, Start, Started, ReadTable, Fault, Loaded, TypeOK
    <3>2. Dies(p) => Crash(p)
      BY DEF Dies
    <3>. QED
      BY <1>1, <3>1, <3>2 DEF Boot, Reads, Dies, http
  <2>2. /\ \A q \in Procs : KeysOf(q)'
        /\ Registered' = Registered
        /\ \A q \in Procs : q # p => Still(q)
        /\ Serving(p) => \/ Dies(p)
                         \/ Serving(p)' /\ Registered \cap MembersOf(p) \subseteq MembersOf(p)'
    BY <2>1, LoadKeys
  <2>3. ASSUME NEW u \in Threads PROVE LetIn(u)'
    <3>0. PICK h \in Procs : h = Home[u]
      BY GatewayAssumption
    <3>1. LetIn(u) /\ Held(u)
      BY DEF KeysInv, HoldersInv
    <3>2. CASE h # p
      <4>1. /\ MembersOf(h)' = MembersOf(h) /\ JoiningAt(h)' = JoiningAt(h)
            /\ Serving(h)' = Serving(h)
        BY <2>2, <3>2, StillKnows
      <4>. QED
        BY <2>1, <2>2, <3>0, <3>1, <3>2, <4>1 DEF LetIn
    <3>3. CASE h = p /\ Dies(p)
      <4>1. req'[u] = NoRequest
        BY <2>1, <3>0, <3>3
      <4>2. req'[u].stage = "none"
        BY <4>1 DEF NoRequest
      <4>. QED
        BY <4>2 DEF LetIn
    <3>4. CASE h = p /\ ~Dies(p)
      <4>1. pc[p] # "commit"
        BY <1>1, <3>4 DEF Boot, Reads, Start, Started, ReadTable, Loaded
      <4>. QED
        BY <2>1, <2>2, <3>0, <3>1, <3>4, <4>1 DEF LetIn, Held
    <3>. QED
      BY <3>2, <3>3, <3>4
  <2>. QED
    BY <2>2, <2>3 DEF KeysInv
<1>2. CASE UNCHANGED gatewayVars
  BY <1>2 DEF gatewayVars, vars, http, KeysInv, KeysOf, LetIn, Registered, MembersOf, ScannedBy,
              JoiningAt, Serving
<1>. QED
  BY <1>1, <1>2, StartsKeys, TouchesKeys, EndsKeys, GatewayKinds

LEMMA InitKeys == GatewayInit => KeysInv
<1>. SUFFICES ASSUME GatewayInit PROVE KeysInv
  OBVIOUS
<1>1. \A t \in Threads : req[t].stage = "none"
  BY DEF GatewayInit, NoRequest
<1>2. ASSUME NEW p \in Procs
      PROVE  /\ keys[p] = {} /\ pc[p] = "down" /\ scan[p].read = 0
             /\ ScannedBy(p) = {} /\ JoiningAt(p) = {}
  BY DEF GatewayInit, Init, NothingRead, EmptyStore, Nobody, ScannedBy, JoiningAt
<1>. QED
  BY <1>1, <1>2 DEF KeysInv, KeysOf, LetIn

\* An API key works at the process that issued it for as long as that process
\* serves, through its reloads and restarts, and who was authenticated without
\* the lock is still a member once it has the lock.
THEOREM KeysAlwaysWork == GatewaySpec => []KeysWork
<1>1. KeysInv => KeysWork
  <2>. SUFFICES ASSUME KeysInv PROVE KeysWork
    OBVIOUS
  <2>1. \A p \in Procs : Serving(p) => \A o \in keys[p] : Member(p, o)
    BY DEF KeysInv, KeysOf, MembersOf, Member
  <2>2. \A t \in Threads : req[t].stage = "admitted" => Member(Home[t], req[t].org)
    BY DEF KeysInv, LetIn, MembersOf, Member
  <2>. QED
    BY <2>1, <2>2 DEF KeysWork
<1>. QED
  BY <1>1, InitKeys, NextKeys, GatewayHolds, PTL DEF GatewaySpec

-----------------------------------------------------------------------------
(* Rounds.  Once a round is stored, what its answer needs is in the store  *)
(* and in its process, and every later step only adds to both: rounds and  *)
(* histories grow, and later rounds have later ids.                        *)

LEMMA LastOfType ==
    ASSUME NEW history \in Seq(Nat)
    PROVE  /\ LastOf(history) \in Nat
           /\ \A id \in Nat : LastOf(Append(history, id)) = id
<1>1. LastOf(history) \in Nat
  BY DEF LastOf, Genesis
<1>2. ASSUME NEW id \in Nat PROVE LastOf(Append(history, id)) = id
  <2>1. Append(history, id) # <<>> /\ Append(history, id)[Len(Append(history, id))] = id
    OBVIOUS
  <2>. QED
    BY <2>1 DEF LastOf
<1>. QED
  BY <1>1, <1>2

\* A bundle stores its round under its own id, in a log whose tip is older,
\* and a server with at least the rounds it had.
AddsRound(b) ==
    /\ b.entry.prev < b.entry.id
    /\ b.round # Nothing => b.round.id = b.entry.id
    /\ b.server # Nothing => b.server.data.rounds >= b.server.expect

\* The live servers only gain rounds, and a bundle brings at most its own.
LEMMA OperationRounds ==
    ASSUME TypeOK, NEW p \in Procs, Operation(p)
    PROVE  /\ \A k \in Cohorts :
                  /\ mem[p].servers[k] # NoServer =>
                         /\ mem'[p].servers[k] # NoServer
                         /\ Len(mem'[p].servers[k].history) >= Len(mem[p].servers[k].history)
                  /\ mem'[p].last[k] \in {mem[p].last[k], Id}
           /\ pc'[p] = "commit" =>
                  /\ tx'[p].round # Nothing => tx'[p].round.id = Id
                  /\ tx'[p].server # Nothing =>
                         tx'[p].server.data.rounds >= tx'[p].server.expect
<1>. DEFINE Goal == /\ \A k \in Cohorts :
                           /\ mem[p].servers[k] # NoServer =>
                                  /\ mem'[p].servers[k] # NoServer
                                  /\ Len(mem'[p].servers[k].history)
                                        >= Len(mem[p].servers[k].history)
                           /\ mem'[p].last[k] \in {mem[p].last[k], Id}
                    /\ pc'[p] = "commit" =>
                           /\ tx'[p].round # Nothing => tx'[p].round.id = Id
                           /\ tx'[p].server # Nothing =>
                                  tx'[p].server.data.rounds >= tx'[p].server.expect
<1>1. /\ mem \in [Procs -> Memories] /\ tx \in [Procs -> Bundles \cup {Nothing}]
      /\ mem[p] \in Memories /\ mem[p].servers \in [Cohorts -> LiveServers \cup {NoServer}]
      /\ mem[p].last \in [Cohorts -> Nat] /\ Id \in Nat
  BY LogTypes DEF TypeOK, Memories, Id
<1>2. \A k \in Cohorts : mem[p].servers[k] # NoServer =>
          mem[p].servers[k].history \in Seq(Nat) /\ Len(mem[p].servers[k].history) \in Nat
  BY <1>1 DEF LiveServers
<1>3. ASSUME mem'[p].servers = mem[p].servers, mem'[p].last = mem[p].last,
             pc'[p] = "commit" => tx'[p].round = Nothing /\ tx'[p].server = Nothing
      PROVE  Goal
  BY <1>2, <1>3
<1>4. CASE \E o \in OrgIds, k \in Cohorts : Join(p, o, k)
  <2>1. /\ mem'[p].servers = mem[p].servers /\ mem'[p].last = mem[p].last
        /\ tx'[p].round = Nothing /\ tx'[p].server = Nothing
    BY <1>1, <1>4 DEF Join, Submit, Bundle, Memories
  <2>. QED
    BY <1>3, <2>1
<1>5. CASE \E o \in OrgIds, metrics \in ConsentChoices : SetConsent(p, o, metrics)
  <2>1. /\ mem'[p].servers = mem[p].servers /\ mem'[p].last = mem[p].last
        /\ tx'[p].round = Nothing /\ tx'[p].server = Nothing
    BY <1>1, <1>5 DEF SetConsent, Submit, Bundle, Memories
  <2>. QED
    BY <1>3, <2>1
<1>6. CASE \E k \in Cohorts, eps \in Epsilons :
               Histogram(p, k, eps) \/ Variance(p, k, eps) \/ Correlation(p, k, eps)
  <2>1. \E k, metric, action, eps : Query(p, k, metric, action, eps)
    BY <1>6 DEF Histogram, Variance, Correlation
  <2>2. /\ mem'[p].servers = mem[p].servers /\ mem'[p].last = mem[p].last
        /\ tx'[p].round = Nothing /\ tx'[p].server = Nothing
    BY <1>1, <2>1 DEF Query, Submit, Bundle, Memories
  <2>. QED
    BY <1>3, <2>2
<1>7. CASE \E k \in Cohorts, eps \in Epsilons : HistogramBadLabels(p, k, eps)
  <2>1. /\ mem'[p].servers = mem[p].servers /\ mem'[p].last = mem[p].last
        /\ pc'[p] = "idle"
    BY <1>1, <1>7 DEF HistogramBadLabels, Begin, Abort, Memories
  <2>. QED
    BY <1>3, <2>1
<1>8. CASE \E k \in Cohorts, eps \in Epsilons, dim \in Dims : FirstRoundFails(p, k, eps, dim)
  <2>. PICK c \in Cohorts, eps \in Epsilons, dim \in Dims : FirstRoundFails(p, c, eps, dim)
    BY <1>8
  <2>1. /\ \A k \in Cohorts : k # c => mem'[p].servers[k] = mem[p].servers[k]
        /\ mem[p].servers[c] = NoServer /\ mem'[p].last = mem[p].last /\ pc'[p] = "idle"
    BY <1>1 DEF FirstRoundFails, Begin, Abort, Memories
  <2>2. ASSUME NEW k \in Cohorts, mem[p].servers[k] # NoServer
        PROVE  /\ mem'[p].servers[k] = mem[p].servers[k]
               /\ Len(mem[p].servers[k].history) >= Len(mem[p].servers[k].history)
    BY <1>2, <2>1, <2>2
  <2>3. \A k \in Cohorts : mem[p].servers[k] # NoServer =>
            /\ mem'[p].servers[k] # NoServer
            /\ Len(mem'[p].servers[k].history) >= Len(mem[p].servers[k].history)
    BY <2>2
  <2>. QED
    BY <2>1, <2>3
<1>9. CASE \E k \in Cohorts, eps \in Epsilons, dim \in Dims, delta \in Deltas :
               RoundOverBudget(p, k, eps, delta, dim)
  <2>. PICK c \in Cohorts, eps \in Epsilons, dim \in Dims, delta \in Deltas :
           RoundOverBudget(p, c, eps, delta, dim)
    BY <1>9
  <2>. DEFINE server == ServerFor(mem[p], c, dim)
              now    == [server EXCEPT !.model = Append(@, Id), !.history = Append(@, Id)]
  <2>1. server \in LiveServers
    BY <1>1, ServerForType
  <2>3. mem[p].servers[c] # NoServer => server = mem[p].servers[c]
    BY DEF ServerFor
  <2>4. mem'[p] = Trained(mem[p], c, dim) /\ pc' = pc /\ pc[p] = "idle"
    BY <1>1 DEF RoundOverBudget, RoundRuns, Begin, Abort
  <2>5. mem'[p].servers = [mem[p].servers EXCEPT ![c] = now] /\ mem'[p].last = mem[p].last
    BY <1>1, <2>4 DEF Trained, Memories
  <2>. HIDE DEF server
  <2>2. /\ now \in LiveServers /\ Len(now.history) = Len(server.history) + 1
        /\ Len(server.history) \in Nat
    <3>1. server.history \in Seq(Nat) /\ server.model \in Seq(Nat)
      BY <2>1 DEF LiveServers
    <3>2. /\ Append(server.history, Id) \in Seq(Nat) /\ Append(server.model, Id) \in Seq(Nat)
          /\ Len(Append(server.history, Id)) = Len(server.history) + 1
          /\ Len(server.history) \in Nat
      BY <1>1, <3>1
    <3>3. now.history = Append(server.history, Id) /\ now \in LiveServers
      BY <2>1, <3>2 DEF LiveServers
    <3>. QED
      BY <3>2, <3>3
  <2>. HIDE DEF now
  <2>6. /\ mem'[p].servers[c] = now
        /\ \A k \in Cohorts : k # c => mem'[p].servers[k] = mem[p].servers[k]
    BY <1>1, <2>5
  <2>. QED
    BY <1>2, <2>2, <2>3, <2>4, <2>5, <2>6, LiveAssumption
<1>10. CASE \E k \in Cohorts, eps \in Epsilons, dim \in Dims, delta \in Deltas,
                survivors \in SUBSET OrgIds : FederatedRound(p, k, eps, delta, dim, survivors)
  <2>. PICK c \in Cohorts, eps \in Epsilons, dim \in Dims, delta \in Deltas,
            survivors \in SUBSET OrgIds : FederatedRound(p, c, eps, delta, dim, survivors)
    BY <1>10
  <2>. DEFINE old == ServerFor(mem[p], c, dim).history
  <2>1. /\ old \in Seq(Nat)
        /\ mem'[p].servers[c] # NoServer /\ mem'[p].servers[c].history = Append(old, Id)
        /\ mem'[p].last[c] = Id
        /\ \A k \in Cohorts : k # c => /\ mem'[p].servers[k] = mem[p].servers[k]
                                       /\ mem'[p].last[k] = mem[p].last[k]
        /\ tx'[p].server.data.rounds = Len(old) + 1 /\ tx'[p].server.expect = Len(old)
        /\ tx'[p].round = [key |-> c, id |-> Id]
    <3>1. RoundDone(p, c, dim)
      BY RoundEffects
    <3>. QED
      BY <3>1 DEF RoundDone
  <2>2. mem[p].servers[c] # NoServer => old = mem[p].servers[c].history
    BY DEF ServerFor
  <2>. HIDE DEF old
  <2>3. Len(Append(old, Id)) = Len(old) + 1 /\ Len(old) \in Nat
    BY <1>1, <2>1
  <2>4. ASSUME NEW k \in Cohorts, mem[p].servers[k] # NoServer
        PROVE  /\ mem'[p].servers[k] # NoServer
               /\ Len(mem'[p].servers[k].history) >= Len(mem[p].servers[k].history)
    <3>1. CASE k = c
      BY <2>1, <2>2, <2>3, <2>4, <3>1
    <3>2. CASE k # c
      <4>1. mem'[p].servers[k] = mem[p].servers[k]
        BY <2>1, <3>2
      <4>. QED
        BY <1>2, <2>4, <4>1
    <3>. QED
      BY <3>1, <3>2
  <2>5. \A k \in Cohorts : mem'[p].last[k] \in {mem[p].last[k], Id}
    BY <2>1
  <2>6. /\ tx'[p].round.id = Id
        /\ tx'[p].server.data.rounds >= tx'[p].server.expect
    BY <2>1, <2>3
  <2>. QED
    BY <2>4, <2>5, <2>6
<1>. QED
  BY <1>4, <1>5, <1>6, <1>7, <1>8, <1>9, <1>10 DEF Operation

\* What is stored: no round is later than the log, and what is about to be
\* stored extends it.
StoreInv ==
    /\ \A k \in Cohorts : LastOf(db.rounds[k]) <= Tip(db.audit)
    /\ \A p \in Procs : pc[p] = "commit" => AddsRound(tx[p])

HasRounds(stored, k, n) == stored[k] # NoServer /\ stored[k].rounds >= n

\* A commit only adds rounds, with later ids than those it finds.
LEMMA CommitGrows ==
    ASSUME TypeOK, StoreInv, NEW p \in Procs, Commit(p), NEW k \in Cohorts
    PROVE  /\ LastOf(db'.rounds[k]) >= LastOf(db.rounds[k])
           /\ LastOf(db'.rounds[k]) <= Tip(db'.audit)
           /\ \A n \in Nat : HasRounds(db.servers, k, n) => HasRounds(db.servers, k, n)'
<1>. DEFINE b == tx[p]
<1>1. /\ b \in Bundles /\ db \in Stores /\ pc[p] = "commit"
      /\ Fresh(db, b) /\ db' = Apply(db, b) /\ AddsRound(b)
  BY DEF Commit, TypeOK, StoreInv
<1>. HIDE DEF b
<1>2. /\ db.rounds \in [Cohorts -> Seq(Nat)] /\ db.servers \in [Cohorts -> ServerRows \cup {NoServer}]
      /\ db.audit \in Seq(Entries) /\ b.entry \in Entries /\ b.entry.id \in Nat
      /\ b.entry.prev \in Nat /\ b.entry.prev = Tip(db.audit) /\ b.entry.prev < b.entry.id
  BY <1>1 DEF Stores, Bundles, Entries, Fresh, TipFresh, AddsRound
<1>3. /\ b.round # Nothing => b.round \in RoundWrites /\ b.round.id = b.entry.id
      /\ b.server # Nothing => /\ b.server \in ServerWrites
                               /\ b.server.data.rounds >= b.server.expect
  BY <1>1 DEF Bundles, AddsRound
<1>4. LastOf(db.rounds[k]) \in Nat /\ LastOf(db.rounds[k]) <= Tip(db.audit)
  BY <1>2, LastOfType DEF StoreInv
<1>5. Tip(db'.audit) = b.entry.id
  BY <1>1, <1>2, TipAppended DEF Apply
<1>6. db'.rounds = AppendRound(db.rounds, b.round)
  BY <1>1 DEF Apply
<1>7. LastOf(db'.rounds[k]) \in {LastOf(db.rounds[k]), b.entry.id}
  <2>1. CASE b.round = Nothing \/ b.round.key # k
    BY <1>2, <1>6, <2>1 DEF AppendRound
  <2>2. CASE b.round # Nothing /\ b.round.key = k
    <3>1. db'.rounds[k] = Append(db.rounds[k], b.entry.id)
      BY <1>2, <1>3, <1>6, <2>2 DEF AppendRound
    <3>. QED
      BY <1>2, <3>1, LastOfType
  <2>. QED
    BY <2>1, <2>2
<1>8. ASSUME NEW n \in Nat, HasRounds(db.servers, k, n)
      PROVE  HasRounds(db.servers, k, n)'
  <2>1. db'.servers = IF b.server = Nothing THEN db.servers
                      ELSE [db.servers EXCEPT ![b.server.key] = b.server.data]
    BY <1>1 DEF Apply
  <2>2. CASE b.server = Nothing \/ b.server.key # k
    <3>1. db'.servers[k] = db.servers[k]
      BY <1>2, <2>1, <2>2
    <3>. QED
      BY <1>8, <3>1 DEF HasRounds
  <2>3. CASE b.server # Nothing /\ b.server.key = k
    <3>1. db'.servers[k] = b.server.data
      BY <1>2, <2>1, <2>3
    <3>2. /\ b.server.data \in ServerRows /\ b.server.data.rounds \in Nat
          /\ b.server.expect \in Nat
      BY <1>3, <2>3 DEF ServerWrites, ServerRows
    <3>3. db.servers[k].rounds = b.server.expect /\ db.servers[k].rounds >= n
      BY <1>1, <1>8, <2>3 DEF Fresh, ServerFresh, HasRounds
    <3>. QED
      BY <1>3, <2>3, <3>1, <3>2, <3>3, StoreAssumption DEF HasRounds
  <2>. QED
    BY <2>2, <2>3
<1>. QED
  BY <1>2, <1>4, <1>5, <1>7, <1>8

LEMMA InitStoreInv == Init => StoreInv
  BY DEF Init, StoreInv, EmptyStore, LastOf, Tip, Genesis

LEMMA NextStoreInv == TypeOK /\ TipsInv /\ StoreInv /\ [Next]_vars => StoreInv'
<1>. SUFFICES ASSUME TypeOK, TipsInv, StoreInv, [Next]_vars PROVE StoreInv'
  OBVIOUS
<1>1. CASE \E p \in Procs : Operation(p)
  <2>. PICK p \in Procs : Operation(p)
    BY <1>1
  <2>1. /\ pc'[p] = "commit" => /\ tx'[p].round # Nothing => tx'[p].round.id = Id
                                /\ tx'[p].server # Nothing =>
                                       tx'[p].server.data.rounds >= tx'[p].server.expect
    BY OperationRounds
  <2>2. /\ db' = db /\ \A q \in Procs : q # p => pc'[q] = pc[q] /\ tx'[q] = tx[q]
        /\ pc'[p] = "commit" => tx'[p].entry.id = Id /\ tx'[p].entry.prev = Tip(mem[p].audit)
    <3>1. CASE Prepares(p)
      BY <3>1 DEF Prepares, Prepared, Submit, TypeOK
    <3>2. CASE Raises(p)
      BY <3>2 DEF Raises, Begin, Abort
    <3>. QED
      BY <3>1, <3>2, OperationKinds
  <2>3. Tip(mem[p].audit) < Id
    BY TipsAreNumbers DEF TipsInv, Id
  <2>4. pc'[p] = "commit" => AddsRound(tx'[p])
    BY <2>1, <2>2, <2>3 DEF AddsRound
  <2>. QED
    BY <2>2, <2>4 DEF StoreInv
<1>2. CASE \E p \in Procs : Commit(p)
  <2>. PICK p \in Procs : Commit(p)
    BY <1>2
  <2>1. \A q \in Procs : pc'[q] = "commit" => pc[q] = "commit" /\ tx'[q] = tx[q]
    BY DEF Commit, TypeOK
  <2>2. \A k \in Cohorts : LastOf(db'.rounds[k]) <= Tip(db'.audit)
    BY CommitGrows
  <2>. QED
    BY <2>1, <2>2 DEF StoreInv
<1>3. CASE \E p \in Procs : \/ Recovery(p) \/ Start(p) \/ Conflict(p) \/ CommitFails(p)
                            \/ ReloadFails(p) \/ Crash(p)
  <2>. PICK p \in Procs : \/ Recovery(p) \/ Start(p) \/ Conflict(p) \/ CommitFails(p)
                          \/ ReloadFails(p) \/ Crash(p)
    BY <1>3
  <2>1. /\ db' = db
        /\ \A q \in Procs : pc'[q] = "commit" => pc[q] = "commit" /\ tx'[q] = tx[q]
    BY DEF Recovery, ReadTable, Started, Reconverged, Loaded, Start, Conflict, CommitFails,
           Reload, ReloadFails, Crash, TypeOK
  <2>. QED
    BY <2>1 DEF StoreInv
<1>4. CASE UNCHANGED vars
  BY <1>4 DEF vars, StoreInv
<1>. QED
  BY <1>1, <1>2, <1>3, <1>4 DEF Next, Quiescent

\* The store, what a process read of it, and the live objects of the process
\* have a model k with at least n rounds, and one of them is id or later.
StoreKeeps(k, n, id) == HasRounds(db.servers, k, n) /\ LastOf(db.rounds[k]) >= id
ScanKeeps(p, k, n, id) ==
    /\ scan[p].read >= 4 => HasRounds(scan[p].state.servers, k, n)
    /\ scan[p].read >= 5 => LastOf(scan[p].state.rounds[k]) >= id
LiveKeeps(p, k, n, id) ==
    /\ Serving(p)
    /\ mem[p].servers[k] # NoServer
    /\ Len(mem[p].servers[k].history) >= n
    /\ mem[p].last[k] >= id
KeptBy(p, k, n, id) == StoreKeeps(k, n, id) /\ ScanKeeps(p, k, n, id) /\ LiveKeeps(p, k, n, id)

LEMMA StoreGoesOn ==
    ASSUME TypeOK, StoreInv, [Next]_vars, NEW k \in Cohorts, NEW n \in Nat, NEW id \in Nat,
           StoreKeeps(k, n, id)
    PROVE  StoreKeeps(k, n, id)'
<1>1. CASE db' = db
  BY <1>1 DEF StoreKeeps, HasRounds
<1>2. CASE \E p \in Procs : Commit(p)
  <2>1. /\ LastOf(db'.rounds[k]) >= LastOf(db.rounds[k])
        /\ HasRounds(db.servers, k, n) => HasRounds(db.servers, k, n)'
    BY <1>2, CommitGrows
  <2>2. LastOf(db.rounds[k]) \in Nat /\ LastOf(db'.rounds[k]) \in Nat
    <3>1. db.rounds[k] \in Seq(Nat) /\ db'.rounds[k] \in Seq(Nat)
      BY NextType DEF TypeOK, Stores
    <3>. QED
      BY <3>1, LastOfType
  <2>. QED
    BY <2>1, <2>2 DEF StoreKeeps
<1>3. db' = db \/ \E p \in Procs : Commit(p)
  <2>1. ASSUME NEW p \in Procs, Operation(p) PROVE db' = db
    BY <2>1, OperationKinds DEF Prepares, Raises, Submit, Abort
  <2>2. ASSUME NEW p \in Procs, \/ Recovery(p) \/ Start(p) \/ Conflict(p) \/ CommitFails(p)
                                \/ ReloadFails(p) \/ Crash(p)
        PROVE  db' = db
    BY <2>2 DEF Recovery, ReadTable, Started, Reconverged, Loaded, Start, Conflict,
                CommitFails, Reload, ReloadFails, Crash
  <2>. QED
    BY <2>1, <2>2 DEF Next, Quiescent, vars
<1>. QED
  BY <1>1, <1>2, <1>3

\* A rebuild over a store that has the rounds: the model is decoded from it,
\* as it names as many rounds as it has, or it is left as it was.
LEMMA RebuiltKeeps ==
    ASSUME TypeOK, NEW p \in Procs, NEW k \in Cohorts, NEW n \in Nat, NEW id \in Nat,
           KeptBy(p, k, n, id), Reconverged(p)
    PROVE  LiveKeeps(p, k, n, id)'
<1>. DEFINE s == scan[p].state
<1>1. /\ pc' = [pc EXCEPT ![p] = "idle"] /\ pc \in [Procs -> Statuses] /\ mem \in [Procs -> Memories]
      /\ s \in Stores /\ scan[p].read = TableCount
      /\ mem' = [mem EXCEPT ![p] = IF IsEmpty(s) THEN LiveObjects(DefaultLimit)
                                   ELSE Restored(mem[p], s)]
  BY DEF Reconverged, Loaded, TypeOK
<1>2. /\ s.servers[k] # NoServer /\ s.servers[k].rounds >= n /\ LastOf(s.rounds[k]) >= id
      /\ mem[p].servers[k] # NoServer /\ Len(mem[p].servers[k].history) >= n
      /\ mem[p].last[k] >= id
  BY <1>1 DEF KeptBy, ScanKeeps, LiveKeeps, HasRounds, TableCount
<1>. HIDE DEF s
<1>3. ~IsEmpty(s)
  BY <1>2 DEF IsEmpty
<1>4. Serving(p)'
  BY <1>1 DEF Serving
<1>5. mem'[p] = Restored(mem[p], s)
  BY <1>1, <1>3
<1>6. CASE Undecodable(s)
  <2>1. mem'[p].servers = mem[p].servers /\ mem'[p].last = mem[p].last
    BY <1>5, <1>6 DEF Restored
  <2>. QED
    BY <1>2, <1>4, <2>1 DEF LiveKeeps
<1>7. CASE ~Undecodable(s)
  <2>1. s.servers[k].rounds = Len(s.rounds[k])
    BY <1>2, <1>7 DEF Undecodable
  <2>2. mem'[p].servers[k] = DecodedServer(s, k) /\ mem'[p].last[k] = LastOf(s.rounds[k])
    BY <1>2, <1>5, <1>7 DEF Restored
  <2>3. /\ DecodedServer(s, k).history = s.rounds[k]
        /\ DecodedServer(s, k) \in LiveServers
    BY <1>1, <1>2 DEF DecodedServer, LiveServers, Stores, ServerRows
  <2>. QED
    BY <1>2, <1>4, <2>1, <2>2, <2>3, LiveAssumption DEF LiveKeeps
<1>. QED
  BY <1>6, <1>7

\* No step takes a stored round from the process that answers for it, unless
\* the process dies.
LEMMA KeptGoesOn ==
    ASSUME TypeOK, StoreInv, [Next]_vars, NEW p \in Procs, NEW k \in Cohorts, NEW n \in Nat,
           NEW id \in Nat, id <= nonce, KeptBy(p, k, n, id), pc'[p] # "down"
    PROVE  KeptBy(p, k, n, id)'
<1>. SUFFICES ScanKeeps(p, k, n, id)' /\ LiveKeeps(p, k, n, id)'
  BY StoreGoesOn DEF KeptBy
<1>0. /\ pc \in [Procs -> Statuses] /\ nonce \in Nat /\ mem[p] \in Memories
      /\ pc[p] \in {"idle", "commit", "reconverging"}
      /\ scan \in [Procs -> [state : Stores, read : 0..TableCount]]
  BY LogTypes DEF TypeOK, Statuses, KeptBy, LiveKeeps, Serving
<1>1. CASE Still(p)
  BY <1>1, StillKnows DEF Still, KeptBy, ScanKeeps, LiveKeeps, HasRounds
<1>2. CASE mem'[p] = mem[p] /\ scan'[p] = scan[p] /\ Serving(p)'
  BY <1>2 DEF KeptBy, ScanKeeps, LiveKeeps, HasRounds
<1>3. CASE Operation(p)
  <2>1. scan' = scan /\ Serving(p)'
    <3>1. CASE Prepares(p)
      BY <1>0, <3>1 DEF Prepares, Submit, Serving
    <3>2. CASE Raises(p)
      BY <1>0, <3>2 DEF Raises, Abort, Serving
    <3>. QED
      BY <1>3, <3>1, <3>2, OperationKinds
  <2>2. /\ mem'[p].servers[k] # NoServer
        /\ Len(mem'[p].servers[k].history) >= Len(mem[p].servers[k].history)
        /\ mem'[p].last[k] \in {mem[p].last[k], Id}
    BY <1>3, OperationRounds DEF KeptBy, LiveKeeps
  <2>3. Len(mem[p].servers[k].history) \in Nat /\ Len(mem'[p].servers[k].history) \in Nat
    <3>1. mem[p].servers[k] \in LiveServers
      BY <1>0 DEF KeptBy, LiveKeeps, Memories
    <3>2. mem'[p].servers[k] \in LiveServers
      BY <2>2, NextType DEF TypeOK, Memories
    <3>3. \A s \in LiveServers : Len(s.history) \in Nat
      BY DEF LiveServers
    <3>. QED
      BY <3>1, <3>2, <3>3
  <2>4. mem'[p].last[k] >= id
    BY <1>0, <2>2 DEF KeptBy, LiveKeeps, Id
  <2>5. Len(mem'[p].servers[k].history) >= n
    <3>1. Len(mem[p].servers[k].history) >= n
      BY DEF KeptBy, LiveKeeps
    <3>2. PICK a, b \in Nat : /\ a = Len(mem[p].servers[k].history)
                             /\ b = Len(mem'[p].servers[k].history)
      BY <2>3
    <3>3. a >= n
      BY <3>1, <3>2
    <3>4. b >= a
      BY <2>2, <3>2
    <3>5. b >= n
      BY <3>3, <3>4
    <3>. QED
      BY <3>2, <3>5
  <2>. QED
    BY <2>1, <2>2, <2>4, <2>5 DEF KeptBy, ScanKeeps, LiveKeeps, HasRounds
<1>4. CASE ReadTable(p)
  <2>. DEFINE s == scan[p].state
              upto == scan[p].read + 1
  <2>1. /\ db' = db /\ mem' = mem /\ pc' = pc /\ scan[p].read \in 0..TableCount
        /\ scan'[p] = [state |-> ReadFrom(s, db, upto), read |-> upto]
    BY <1>0, <1>4 DEF ReadTable
  <2>0. upto = scan[p].read + 1
    OBVIOUS
  <2>. HIDE DEF s, upto
  <2>2. /\ scan'[p].state.servers = IF upto = 4 THEN db.servers ELSE scan[p].state.servers
        /\ scan'[p].state.rounds = IF upto = 5 THEN db.rounds ELSE scan[p].state.rounds
        /\ scan'[p].read = upto
    BY <2>1 DEF ReadFrom, s
  <2>3. ScanKeeps(p, k, n, id)'
    <3>1. upto >= 4 => HasRounds(scan'[p].state.servers, k, n)
      BY <2>0, <2>1, <2>2 DEF KeptBy, ScanKeeps, StoreKeeps, HasRounds, TableCount
    <3>2. upto >= 5 => LastOf(scan'[p].state.rounds[k]) >= id
      BY <2>0, <2>1, <2>2 DEF KeptBy, ScanKeeps, StoreKeeps, TableCount
    <3>. QED
      BY <2>2, <3>1, <3>2 DEF ScanKeeps
  <2>. QED
    BY <2>1, <2>3 DEF KeptBy, LiveKeeps, Serving
<1>5. ASSUME scan'[p] = NothingRead PROVE ScanKeeps(p, k, n, id)'
  BY <1>5 DEF ScanKeeps, NothingRead
<1>6. CASE Reconverged(p)
  <2>1. scan'[p] = NothingRead
    BY <1>0, <1>6 DEF Reconverged, Loaded
  <2>. QED
    BY <1>5, <1>6, <2>1, RebuiltKeeps
<1>7. CASE ReloadFails(p)
  <2>1. scan'[p] = NothingRead /\ mem' = mem /\ Serving(p)'
    BY <1>0, <1>7 DEF ReloadFails, Serving
  <2>. QED
    BY <1>5, <2>1 DEF KeptBy, LiveKeeps
<1>8. CASE Commit(p) \/ Conflict(p) \/ CommitFails(p)
  BY <1>0, <1>2, <1>8 DEF Commit, Conflict, CommitFails, Reload, Serving
<1>9. ~Start(p) /\ ~Started(p) /\ ~Crash(p)
  BY <1>0 DEF Start, Started, Loaded, Crash
<1>10. ASSUME NEW q \in Procs, q # p, \/ Start(q) \/ Recovery(q) \/ Operation(q) \/ Commit(q)
                                      \/ Conflict(q) \/ CommitFails(q) \/ ReloadFails(q) \/ Crash(q)
       PROVE  Still(p)
  <2>1. CASE Operation(q)
    <3>1. CASE Prepares(q)
      BY <1>10, <3>1 DEF Prepares, Submit, Still, TypeOK
    <3>2. CASE Raises(q)
      BY <1>10, <3>2 DEF Raises, Abort, Still, TypeOK
    <3>. QED
      BY <2>1, <3>1, <3>2, OperationKinds
  <2>2. CASE \/ Start(q) \/ Recovery(q) \/ Commit(q) \/ Conflict(q) \/ CommitFails(q)
             \/ ReloadFails(q) \/ Crash(q)
    BY <1>10, <2>2 DEF Start, Recovery, ReadTable, Started, Reconverged, Loaded, Commit, Conflict,
                       CommitFails, Reload, ReloadFails, Crash, Still, TypeOK
  <2>. QED
    BY <1>10, <2>1, <2>2
<1>11. CASE UNCHANGED vars
  BY <1>1, <1>11 DEF vars, Still
<1>. QED
  BY <1>1, <1>3, <1>4, <1>6, <1>7, <1>8, <1>9, <1>10, <1>11 DEF Next, Recovery, Quiescent

-----------------------------------------------------------------------------
(* The answers to rounds, request by request.                              *)

\* What a round in flight has in its process and brings to the store.
TrainsBy(p, k, id) ==
    /\ mem[p].servers[k] # NoServer
    /\ mem[p].last[k] = id
    /\ tx[p].server # Nothing /\ tx[p].server.key = k
    /\ tx[p].server.data.rounds = Len(mem[p].servers[k].history)
    /\ tx[p].round = [key |-> k, id |-> id]

\* An answer, as far as it is built, has its round in it.
Built(r) ==
    /\ r.stage = "card" => r.shown >= r.version
    /\ r.stage = "answered" /\ r.kind = "round" /\ r.status = "200" =>
           r.shown >= r.version /\ r.card >= r.id

BuildsOn(t) ==
    /\ req[t].stage = "running" /\ req[t].kind = "round" =>
           TrainsBy(Home[t], req[t].cohort, req[t].id)
    /\ req[t].stage \in {"metadata", "card"} =>
           req[t].id # 0 /\ KeptBy(Home[t], req[t].cohort, req[t].version, req[t].id)
    /\ Built(req[t])

RoundsInv == \A t \in Threads : BuildsOn(t)

LEMMA RoundTrains ==
    ASSUME TypeOK, NEW p \in Procs, NEW k \in Cohorts, NEW eps, NEW delta, NEW dim \in Dims,
           NEW survivors, FederatedRound(p, k, eps, delta, dim, survivors),
           NEW id, id = Id
    PROVE  TrainsBy(p, k, id)'
<1>. DEFINE old == ServerFor(mem[p], k, dim).history
<1>1. /\ old \in Seq(Nat) /\ Id \in Nat
      /\ mem'[p].servers[k] # NoServer /\ mem'[p].servers[k].history = Append(old, Id)
      /\ mem'[p].last[k] = Id
      /\ tx'[p].server # Nothing /\ tx'[p].server.key = k
      /\ tx'[p].server.data.rounds = Len(old) + 1
      /\ tx'[p].round = [key |-> k, id |-> Id]
  <2>1. RoundDone(p, k, dim)
    BY RoundEffects
  <2>. QED
    BY <2>1 DEF RoundDone
<1>. HIDE DEF old
<1>2. Len(Append(old, Id)) = Len(old) + 1
  BY <1>1
<1>. QED
  BY <1>1, <1>2 DEF TrainsBy

\* The round that commits is kept from then on.
LEMMA CommitKeeps ==
    ASSUME TypeOK, StoreInv, NEW p \in Procs, NEW k \in Cohorts, NEW id \in Nat, NEW n \in Nat,
           TrainsBy(p, k, id), Commit(p), scan[p].read = 0,
           n = Len(mem[p].servers[k].history)
    PROVE  KeptBy(p, k, n, id)'
<1>. DEFINE b == tx[p]
<1>1. /\ b \in Bundles /\ db \in Stores /\ db' = Apply(db, b)
      /\ mem' = mem /\ scan' = scan /\ pc' = [pc EXCEPT ![p] = "idle"] /\ pc \in [Procs -> Statuses]
  BY DEF Commit, TypeOK
<1>2. /\ b.server # Nothing /\ b.server.key = k /\ b.server.data.rounds = n
      /\ b.round = [key |-> k, id |-> id]
      /\ mem[p].servers[k] # NoServer /\ mem[p].last[k] = id
  BY DEF TrainsBy
<1>. HIDE DEF b
<1>3. /\ b.server.data \in ServerRows
      /\ db.servers \in [Cohorts -> ServerRows \cup {NoServer}] /\ db.rounds \in [Cohorts -> Seq(Nat)]
  BY <1>1, <1>2 DEF Bundles, ServerWrites, Stores
<1>4. HasRounds(db.servers, k, n)'
  <2>1. db'.servers[k] = b.server.data
    BY <1>1, <1>2, <1>3 DEF Apply
  <2>. QED
    BY <1>2, <1>3, <2>1, StoreAssumption DEF HasRounds
<1>5. LastOf(db'.rounds[k]) = id
  <2>1. b.round # Nothing
    BY <1>2, StoreAssumption DEF RoundWrites
  <2>2. db'.rounds[k] = Append(db.rounds[k], id)
    BY <1>1, <1>2, <1>3, <2>1 DEF Apply, AppendRound
  <2>. QED
    BY <1>3, <2>2, LastOfType
<1>6. StoreKeeps(k, n, id)'
  BY <1>4, <1>5 DEF StoreKeeps
<1>7. ScanKeeps(p, k, n, id)'
  BY <1>1 DEF ScanKeeps
<1>8. LiveKeeps(p, k, n, id)'
  BY <1>1, <1>2 DEF LiveKeeps, Serving
<1>. QED
  BY <1>6, <1>7, <1>8 DEF KeptBy

LEMMA OtherBuilds ==
    ASSUME TypeOK, StoreInv, NamesInv, HonestInv, RoundsInv, [Next]_vars,
           NEW u \in Threads, req'[u] = req[u],
           req[u].stage = "running" => Still(Home[u]),
           req[u].stage \in {"metadata", "card"} => pc'[Home[u]] # "down"
    PROVE  BuildsOn(u)'
<1>. PICK p \in Procs : p = Home[u]
  BY GatewayAssumption
<1>1. BuildsOn(u) /\ Honest(u) /\ req[u] \in Requests /\ Named(req[u])
  BY DEF RoundsInv, HonestInv, NamesInv
<1>2. PICK id \in Nat, n \in Nat, k \in {req[u].cohort} :
          id = req[u].id /\ n = req[u].version /\ k = req[u].cohort
  BY <1>1 DEF Requests
<1>3. CASE req[u].stage = "running" /\ req[u].kind = "round"
  <2>1. TrainsBy(p, k, id) /\ Still(p)
    BY <1>1, <1>2, <1>3 DEF BuildsOn
  <2>2. TrainsBy(p, k, id)'
    BY <2>1 DEF TrainsBy, Still
  <2>. QED
    BY <1>1, <1>2, <1>3, <2>2 DEF BuildsOn
<1>4. CASE req[u].stage \in {"metadata", "card"}
  <2>1. KeptBy(p, k, n, id) /\ k \in Cohorts /\ id <= nonce /\ pc'[p] # "down"
    BY <1>1, <1>2, <1>4 DEF BuildsOn, Honest, Named
  <2>2. KeptBy(p, k, n, id)'
    BY <2>1, KeptGoesOn
  <2>. QED
    BY <1>1, <1>2, <1>4, <2>2 DEF BuildsOn
<1>. QED
  BY <1>1, <1>3, <1>4 DEF BuildsOn

LEMMA StartsRounds ==
    ASSUME TypeOK, StoreInv, HoldersInv, HonestInv, RoundsInv, [Next]_vars,
           NEW t \in Threads, NEW r \in Requests, Starts(t, r)
    PROVE  RoundsInv'
<1>. PICK p \in Procs : p = Home[t]
  BY GatewayAssumption
<1>1. /\ pc[p] = "idle" /\ pc'[p] # "down" /\ To(t, r) /\ NamesInv /\ r.id = Id
      /\ r.stage \in {"running", "answered"} /\ (r.stage = "answered" => r.status # "200")
      /\ \A q \in Procs : q # p => Still(q)
  BY LaunchEffects DEF Starts, Launches, HoldersInv, Still
<1>2. ASSUME NEW u \in Threads, u # t PROVE BuildsOn(u)'
  <2>0. PICK h \in Procs : h = Home[u]
    BY GatewayAssumption
  <2>1. req'[u] = req[u] /\ Held(u) /\ BuildsOn(u)
    BY <1>1, <1>2 DEF To, NamesInv, HoldersInv, RoundsInv
  <2>2. req[u].stage = "running" => Still(Home[u])
    BY <1>1, <2>0, <2>1 DEF Held
  <2>3. req[u].stage \in {"metadata", "card"} => pc'[Home[u]] # "down"
    BY <1>1, <2>0, <2>1 DEF BuildsOn, KeptBy, LiveKeeps, Serving, Still
  <2>. QED
    BY <1>1, <2>1, <2>2, <2>3, OtherBuilds
<1>3. BuildsOn(t)'
  <2>1. req'[t] = r
    BY <1>1 DEF To, NamesInv
  <2>2. CASE r.stage = "running" /\ r.kind = "round"
    <3>. PICK k \in Cohorts, id \in Nat : k = r.cohort /\ id = r.id
      BY <2>2 DEF Starts, Named, Requests
    <3>1. PICK eps \in Epsilons, delta \in Deltas, dim \in Dims, survivors \in SUBSET OrgIds :
              FederatedRound(p, k, eps, delta, dim, survivors)
      BY <2>2 DEF Starts
    <3>2. id = Id
      BY <1>1
    <3>3. TrainsBy(p, k, id)'
      BY <3>1, <3>2, RoundTrains
    <3>. QED
      BY <2>1, <2>2, <3>3 DEF BuildsOn, Built
  <2>. QED
    BY <1>1, <2>1, <2>2 DEF BuildsOn, Built
<1>. QED
  BY <1>2, <1>3 DEF RoundsInv

LEMMA TouchesRounds ==
    ASSUME TypeOK, StoreInv, HoldersInv, HonestInv, RoundsInv, [Next]_vars,
           NEW t \in Threads, NEW r \in Requests, Touches(t, r)
    PROVE  RoundsInv'
<1>. PICK p \in Procs : p = Home[t]
  BY GatewayAssumption
<1>1. /\ To(t, r) /\ NamesInv /\ UNCHANGED vars /\ pc' = pc
      /\ \A q \in Procs : Still(q)
  BY DEF Touches, vars, HoldersInv, Still
<1>2. ASSUME NEW u \in Threads, u # t PROVE BuildsOn(u)'
  <2>0. PICK h \in Procs : h = Home[u]
    BY GatewayAssumption
  <2>1. req'[u] = req[u] /\ BuildsOn(u)
    BY <1>1, <1>2 DEF To, NamesInv, RoundsInv
  <2>2. req[u].stage \in {"metadata", "card"} => pc'[Home[u]] # "down"
    BY <1>1, <2>0, <2>1 DEF BuildsOn, KeptBy, LiveKeeps, Serving
  <2>. QED
    BY <1>1, <2>0, <2>1, <2>2, OtherBuilds
<1>3. BuildsOn(t)'
  <2>1. req'[t] = r /\ BuildsOn(t) /\ Honest(t) /\ req[t] \in Requests /\ Named(req[t])
    BY <1>1 DEF To, NamesInv, RoundsInv, HonestInv
  <2>2. CASE r = TurnedAway \/ r.stage = "admitted"
    BY <2>1, <2>2 DEF BuildsOn, Built, TurnedAway, NoRequest
  <2>. PICK id \in Nat, n \in Nat, k \in {req[t].cohort} :
           id = req[t].id /\ n = req[t].version /\ k = req[t].cohort
    BY <2>1 DEF Requests
  <2>3. req[t].stage \in {"metadata", "card"} => KeptBy(p, k, n, id) /\ KeptBy(p, k, n, id)'
    <3>1. ASSUME req[t].stage \in {"metadata", "card"}
          PROVE  KeptBy(p, k, n, id) /\ k \in Cohorts /\ id <= nonce /\ pc'[p] # "down"
      BY <1>1, <2>1, <3>1 DEF BuildsOn, Honest, Named, KeptBy, LiveKeeps, Serving
    <3>. QED
      BY <3>1, KeptGoesOn
  <2>4. CASE /\ req[t].stage = "metadata" /\ r.stage = "card" /\ Follows(r, req[t])
             /\ r.cohort = req[t].cohort /\ r.shown = Len(Server(t).history)
    <3>1. r.shown >= r.version
      BY <2>3, <2>4 DEF Follows, KeptBy, LiveKeeps, Server
    <3>. QED
      BY <1>1, <2>1, <2>3, <2>4, <3>1 DEF BuildsOn, Built, Follows
  <2>5. CASE /\ req[t].stage = "card" /\ r.stage = "answered" /\ Follows(r, req[t])
             /\ r.shown = req[t].shown
             /\ mem[p].last[k] # Genesis => r.card = mem[p].last[k]
    <3>1. id # 0
      BY <2>1, <2>5 DEF BuildsOn
    <3>2. mem[p].last[k] >= id
      BY <2>3, <2>5 DEF KeptBy, LiveKeeps
    <3>3. r.card >= r.id
      BY <2>5, <3>1, <3>2 DEF Genesis, Follows
    <3>4. r.shown >= r.version
      BY <2>1, <2>5 DEF BuildsOn, Built, Follows
    <3>. QED
      BY <2>1, <2>5, <3>3, <3>4 DEF BuildsOn, Built
  <2>. QED
    BY <2>2, <2>4, <2>5 DEF Touches
<1>. QED
  BY <1>2, <1>3 DEF RoundsInv

LEMMA EndsRounds ==
    ASSUME TypeOK, ChainInv, TipsInv, StoreInv, HoldersInv, HonestInv, KeysInv, RoundsInv,
           [Next]_vars, NEW t \in Threads, NEW r \in Requests, Ends(t, r)
    PROVE  RoundsInv'
<1>. PICK p \in Procs : p = Home[t]
  BY GatewayAssumption
<1>1. /\ To(t, r) /\ NamesInv /\ Holds(t) /\ r.id = req[t].id /\ r.kind = req[t].kind
      /\ pc'[p] # "down"
      /\ \A q \in Procs : q # p => Still(q)
  BY EndEffects DEF Ends, Holds, HoldersInv, Still
<1>2. ASSUME NEW u \in Threads, u # t PROVE BuildsOn(u)'
  <2>0. PICK h \in Procs : h = Home[u]
    BY GatewayAssumption
  <2>1. req'[u] = req[u] /\ BuildsOn(u)
    BY <1>1, <1>2 DEF To, NamesInv, RoundsInv
  <2>2. req[u].stage = "running" => Still(Home[u])
    BY <1>1, <1>2, <2>0 DEF HoldersInv, OneHolder, Holds
  <2>3. req[u].stage \in {"metadata", "card"} => pc'[Home[u]] # "down"
    BY <1>1, <2>0, <2>1 DEF BuildsOn, KeptBy, LiveKeeps, Serving, Still
  <2>. QED
    BY <1>1, <2>1, <2>2, <2>3, OtherBuilds
<1>3. BuildsOn(t)'
  <2>1. req'[t] = r /\ BuildsOn(t) /\ Honest(t) /\ Held(t) /\ req[t] \in Requests /\ Named(req[t])
    BY <1>1 DEF To, NamesInv, RoundsInv, HonestInv, HoldersInv
  <2>2. CASE /\ req[t].stage = "running" /\ Commit(p) /\ req[t].kind = "round"
             /\ r.stage = "metadata" /\ r.cohort = req[t].cohort
             /\ r.version = Len(mem[p].servers[req[t].cohort].history)
    <3>. PICK id \in Nat, k \in Cohorts : id = req[t].id /\ k = req[t].cohort
      BY <2>1, <2>2 DEF Requests, Named
    <3>. PICK n \in Nat : n = r.version
      BY DEF Requests
    <3>1. TrainsBy(p, k, id)
      BY <2>1, <2>2 DEF BuildsOn
    <3>2. scan[p].read = 0 /\ id # 0
      <4>1. pc[p] = "commit" /\ tx[p].entry.id \in 1..nonce /\ nonce \in Nat
        BY <2>2, FlightIds DEF Commit
      <4>. QED
        BY <2>1, <2>2, <4>1 DEF KeysInv, KeysOf, Honest
    <3>3. KeptBy(p, k, n, id)'
      BY <2>2, <3>1, <3>2, CommitKeeps
    <3>. QED
      BY <1>1, <2>1, <2>2, <3>2, <3>3 DEF BuildsOn, Built
  <2>3. CASE r.stage = "failing" \/ (r.stage = "answered" /\ r.status # "200")
    BY <2>1, <2>3 DEF BuildsOn, Built
  <2>4. CASE r.stage = "answered" /\ r.kind # "round"
    BY <2>1, <2>4 DEF BuildsOn, Built
  <2>. QED
    BY <1>1, <2>2, <2>3, <2>4 DEF Ends
<1>. QED
  BY <1>2, <1>3 DEF RoundsInv

LEMMA NextRounds ==
    TypeOK /\ ChainInv /\ TipsInv /\ StoreInv /\ HoldersInv /\ HonestInv /\ KeysInv /\ RoundsInv
        /\ [GatewayNext]_gatewayVars
        => RoundsInv'
<1>. SUFFICES ASSUME TypeOK, ChainInv, TipsInv, StoreInv, HoldersInv, HonestInv, KeysInv, RoundsInv,
                     [GatewayNext]_gatewayVars
              PROVE  RoundsInv'
  OBVIOUS
<1>0. [Next]_vars /\ NamesInv
  BY GatewaySteps DEF HoldersInv
<1>1. ASSUME NEW p \in Procs, Boot(p) \/ Reads(p) \/ Dies(p), NEW u \in Threads
      PROVE  BuildsOn(u)'
  <2>0. PICK h \in Procs : h = Home[u]
    BY GatewayAssumption
  <2>1. BuildsOn(u) /\ Held(u) /\ req[u] \in Requests
    BY <1>0 DEF RoundsInv, HoldersInv, NamesInv
  <2>2. \A q \in Procs : q # p => Still(q)
    BY <1>1 DEF Boot, Reads, Dies, Start, Started, ReadTable, Loaded, Crash, Still, TypeOK
  <2>3. CASE h = p /\ Dies(p)
    <3>1. req'[u] = NoRequest
      BY <2>0, <2>3 DEF Dies
    <3>2. req'[u].stage = "none"
      BY <3>1 DEF NoRequest
    <3>. QED
      BY <3>2 DEF BuildsOn, Built
  <2>4. CASE h # p \/ ~Dies(p)
    <3>1. req'[u] = req[u]
      BY <1>1, <2>0, <2>4 DEF Boot, Reads, Dies, http
    <3>2. h = p => pc[p] # "commit" /\ (pc'[p] = "down" => pc[p] = "starting")
      BY <1>1, <2>4 DEF Boot, Reads, Start, Started, ReadTable, Loaded, TypeOK
    <3>3. req[u].stage = "running" => Still(Home[u])
      BY <2>0, <2>1, <2>2, <3>2 DEF Held
    <3>4. req[u].stage \in {"metadata", "card"} => pc'[Home[u]] # "down"
      BY <2>0, <2>1, <2>2, <3>2 DEF BuildsOn, KeptBy, LiveKeeps, Serving, Still
    <3>. QED
      BY <1>0, <3>1, <3>3, <3>4, OtherBuilds
  <2>. QED
    BY <2>3, <2>4
<1>2. CASE UNCHANGED gatewayVars
  <2>1. ASSUME NEW u \in Threads PROVE BuildsOn(u)'
    <3>0. PICK h \in Procs : h = Home[u]
      BY GatewayAssumption
    <3>1. req'[u] = req[u] /\ Still(h) /\ BuildsOn(u)
      BY <1>2 DEF gatewayVars, vars, http, Still, RoundsInv
    <3>2. req[u].stage \in {"metadata", "card"} => pc'[Home[u]] # "down"
      BY <3>0, <3>1 DEF BuildsOn, KeptBy, LiveKeeps, Serving, Still
    <3>. QED
      BY <1>0, <3>0, <3>1, <3>2, OtherBuilds
  <2>. QED
    BY <2>1 DEF RoundsInv
<1>3. CASE \E p \in Procs : Boot(p) \/ Reads(p) \/ Dies(p)
  BY <1>1, <1>3 DEF RoundsInv
<1>. QED
  BY <1>0, <1>2, <1>3, StartsRounds, TouchesRounds, EndsRounds, GatewayKinds

LEMMA InitRounds == GatewayInit => RoundsInv
<1>. SUFFICES ASSUME GatewayInit, NEW t \in Threads PROVE BuildsOn(t)
  BY DEF RoundsInv
<1>1. req[t].stage = "none"
  BY DEF GatewayInit, NoRequest
<1>. QED
  BY <1>1 DEF BuildsOn, Built

\* Whatever reloads and other rounds come between the commit of a round, the
\* metadata and the card of its answer, the answer can be built, and describes
\* a model that has the round in it.
THEOREM CardsCoverRounds == GatewaySpec => []CardCoversRound
<1>1. RoundsInv => CardCoversRound
  BY DEF RoundsInv, BuildsOn, Built, KeptBy, LiveKeeps, CardCoversRound, Server
<1>2. GatewaySpec => []StoreInv
  <2>1. TypeOK /\ TipsInv /\ StoreInv /\ [Next]_vars => StoreInv'
    BY NextStoreInv
  <2>. QED
    BY <2>1, InitStoreInv, GatewayRunsPlatform, GatewayChains, PTL DEF Spec
<1>3. GatewaySpec => []HonestInv
  BY InitTold, NextTold, GatewayChains, PTL DEF GatewaySpec
<1>4. GatewaySpec => []KeysInv
  BY InitKeys, NextKeys, GatewayChains, PTL DEF GatewaySpec
<1>. QED
  BY <1>1, <1>2, <1>3, <1>4, InitRounds, NextRounds, GatewayChains, PTL DEF GatewaySpec

-----------------------------------------------------------------------------
(* What both layers keep of the platform.                                  *)

Promises ==
    /\ AuditChained /\ LogNeverForks /\ RoundsAudited
    /\ ReleasesCharged /\ SpendCoversReleases /\ SpendIsListed /\ WithinBudget
    /\ GovernanceReplays /\ KnowledgeIsLogged /\ ReleasesWereConsented
    /\ PreviewTellsTruth

LEMMA PlatformPromises == Spec => []Promises
  BY LogIsChained, LogsNeverFork, RoundsAreAudited, EveryReleaseIsCharged,
     SpendCoversWhatIsReleased, StoredSpendIsListed, BudgetsHold, LogReplaysGovernance,
     KnowledgeFollowsLog, ReleasesHadConsent, PreviewIsTruthful, PTL DEF Promises

\* What the platform promises of its log, its ledger, its budgets, its members
\* and its previews holds over SQLite, at every instant between two statements,
\* and for the API's clients, at every instant of a request: with torn loads,
\* crashes and failing storage (_SQLiteTx and api/app.py change when the
\* platform steps, never what a step does).
THEOREM PromisesKept == (SqliteSpec => []Promises) /\ (GatewaySpec => []Promises)
  BY PlatformPromises, StatementsAreAtomic, GatewayRunsPlatform, PTL DEF AtomicCommits

\* Requests on several threads of several processes act as one service on the
\* stored state, and so do bundles sent to SQLite statement by statement, with
\* the reads of other processes' loads between the statements.
THEOREM LayersActAsOne == (SqliteSpec => ActsAsOne) /\ (GatewaySpec => ActsAsOne)
  BY PlatformActsAsOne, StatementsAreAtomic, GatewayRunsPlatform DEF AtomicCommits
=============================================================================
