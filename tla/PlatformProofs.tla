--------------------------- MODULE PlatformProofs ---------------------------
(***************************************************************************)
(* The safety of the platform, for every value of its constants: the log   *)
(* is one chain that no process's log forks from, nothing is released      *)
(* without its charge, the stored spend covers all that is released, no    *)
(* accountant exceeds its limit, a preview tells the truth, and nobody     *)
(* knows or releases what the log does not account for.                    *)
(***************************************************************************)
EXTENDS PlatformProperties, SequenceTheorems, SumLemmas

-----------------------------------------------------------------------------
(* The accountant.                                                         *)

\* A charge leaves an accountant an accountant.
LEMMA ChargedType ==
    ASSUME NEW acc \in Accountants, NEW id \in Nat, NEW cost \in Amounts,
           NEW rdp \in RdpCosts
    PROVE  Charged(acc, id, cost, rdp) \in Accountants
<1>1. Plus(acc.spent, cost) \in Amounts
  BY DEF Accountants, Amounts, Plus
<1>2. AddRdp(acc.rdp, rdp) \in RdpCosts
  BY DEF Accountants, AddRdp, RdpCosts
<1>3. [id |-> id, cost |-> cost, tracked |-> rdp # NoRdp] \in Events
  BY DEF Events
<1>4. (IF rdp = NoRdp THEN acc.rdp ELSE AddRdp(acc.rdp, rdp)) \in RdpCosts
  BY <1>2 DEF Accountants
<1>5. (acc.complete /\ rdp # NoRdp) \in BOOLEAN
  OBVIOUS
<1>. QED
  BY <1>1, <1>3, <1>4, <1>5 DEF Charged, Accountants

\* A charge is in the ledger under its id.
LEMMA ChargedIsRecorded ==
    ASSUME NEW acc, NEW id, NEW cost, NEW rdp
    PROVE  \E x \in Charged(acc, id, cost, rdp).events : x.id = id
<1>. DEFINE event == [id |-> id, cost |-> cost, tracked |-> rdp # NoRdp]
<1>1. event \in Charged(acc, id, cost, rdp).events
  BY DEF Charged
<1>2. event.id = id
  OBVIOUS
<1>. HIDE DEF event
<1>. QED
  BY <1>1, <1>2

\* A charge that is admitted keeps the accountant within its limit in one of
\* the two composition regimes.
LEMMA AdmittedIsSound ==
    ASSUME NEW acc \in Accountants, NEW id \in Nat, NEW cost \in Amounts,
           NEW rdp \in RdpCosts, Admits(acc, cost, rdp)
    PROVE  BudgetSound(Charged(acc, id, cost, rdp))
<1>1. rdp # NoRdp
  BY AccountingAssumption DEF RdpCosts
<1>. QED
  BY <1>1 DEF Admits, BudgetSound, Charged, BasicFits, RdpFits

\* A fresh accountant is one, and has spent nothing.
LEMMA NewAccountantType ==
    ASSUME NEW limit \in Amounts
    PROVE  /\ NewAccountant(limit) \in Accountants
           /\ BudgetSound(NewAccountant(limit))
  BY DEF NewAccountant, Accountants, Amounts, NoSpend, RdpCosts, NoRdpSpent,
         BudgetSound, BasicFits

-----------------------------------------------------------------------------
(* The store.                                                              *)

LEMMA EmptyStoreType == EmptyStore \in Stores
<1>1. Nobody \in Registries /\ NoPolicies \in PolicyTables
  BY DEF Nobody, Registries, NoPolicies, PolicyTables
<1>2. <<>> \in Seq(Nat) /\ <<>> \in Seq(Entries)
  OBVIOUS
<1>. QED
  BY <1>1, <1>2 DEF EmptyStore, Stores

LEMMA SaveBudgetType ==
    ASSUME NEW old \in Accountants \cup {NoBudget},
           NEW write \in BudgetWrites \cup {Nothing}
    PROVE  SaveBudget(old, write) \in Accountants \cup {NoBudget}
<1>1. CASE write = Nothing \/ old = NoBudget
  BY <1>1, StoreAssumption DEF SaveBudget, BudgetWrites
<1>2. CASE write # Nothing /\ old # NoBudget
  <2>1. write.data \in Accountants /\ old \in Accountants
    BY <1>2 DEF BudgetWrites
  <2>2. MergeEvents(old.events, write.data.events) \in SUBSET Events
    BY <2>1 DEF MergeEvents, Accountants
  <2>3. SaveBudget(old, write) =
            [write.data EXCEPT !.events = MergeEvents(old.events, write.data.events)]
    BY <1>2, <2>1 DEF SaveBudget, Accountants
  <2>. QED
    BY <2>1, <2>2, <2>3 DEF Accountants
<1>. QED
  BY <1>1, <1>2

\* A bundle takes a store to a store.
LEMMA ApplyType ==
    ASSUME NEW d \in Stores, NEW b \in Bundles
    PROVE  Apply(d, b) \in Stores
<1>1. (IF b.org = Nothing THEN d.orgs
       ELSE [d.orgs EXCEPT ![b.org.id] = b.org.data]) \in Registries
  BY DEF Stores, Bundles, OrgWrites, Registries
<1>2. (IF b.policy = Nothing THEN d.policies
       ELSE [d.policies EXCEPT ![b.policy.id] = b.policy.data]) \in PolicyTables
  BY DEF Stores, Bundles, PolicyWrites, PolicyTables
<1>3. SaveBudget(d.budget, b.budget) \in Accountants \cup {NoBudget}
  BY SaveBudgetType DEF Stores, Bundles
<1>4. (IF b.server = Nothing THEN d.servers
       ELSE [d.servers EXCEPT ![b.server.key] = b.server.data])
          \in [Cohorts -> ServerRows \cup {NoServer}]
  BY DEF Stores, Bundles, ServerWrites
<1>5. AppendRound(d.rounds, b.round) \in [Cohorts -> Seq(Nat)]
  <2>1. CASE b.round = Nothing
    BY <2>1 DEF AppendRound, Stores
  <2>2. CASE b.round # Nothing
    <3>1. b.round.key \in Cohorts /\ b.round.id \in Nat
      BY <2>2 DEF Bundles, RoundWrites
    <3>2. Append(d.rounds[b.round.key], b.round.id) \in Seq(Nat)
      BY <3>1 DEF Stores
    <3>. QED
      BY <2>2, <3>1, <3>2 DEF AppendRound, Stores
  <2>. QED
    BY <2>1, <2>2
<1>6. Append(d.audit, b.entry) \in Seq(Entries)
  BY DEF Stores, Bundles
<1>. QED
  BY <1>1, <1>2, <1>3, <1>4, <1>5, <1>6 DEF Apply, Stores

-----------------------------------------------------------------------------
(* The types of the live objects and of what operations build.             *)

LEMMA LiveObjectsType ==
    ASSUME NEW limit \in Amounts
    PROVE  LiveObjects(limit) \in Memories
<1>1. Nobody \in Registries /\ NoPolicies \in PolicyTables
  BY DEF Nobody, Registries, NoPolicies, PolicyTables
<1>2. <<>> \in Seq(Entries) /\ Genesis \in Nat
  BY DEF Genesis
<1>. QED
  BY <1>1, <1>2, NewAccountantType DEF LiveObjects, Memories

LEMMA RestoredType ==
    ASSUME NEW m \in Memories, NEW s \in Stores
    PROVE  Restored(m, s) \in Memories
<1>1. [o \in OrgIds |-> IF s.orgs[o] = NoOrg THEN NoPolicy ELSE s.policies[o]]
          \in PolicyTables
  BY DEF Stores, PolicyTables
<1>2. [k \in Cohorts |-> DecodedServer(s, k)] \in [Cohorts -> LiveServers \cup {NoServer}]
  <2>. SUFFICES ASSUME NEW k \in Cohorts
                PROVE  DecodedServer(s, k) \in LiveServers \cup {NoServer}
    OBVIOUS
  <2>1. s.servers[k] \in ServerRows \cup {NoServer} /\ s.rounds[k] \in Seq(Nat)
    BY DEF Stores
  <2>. QED
    BY <2>1 DEF DecodedServer, ServerRows, LiveServers
<1>3. \A k \in Cohorts : LastOf(s.rounds[k]) \in Nat
  <2>. SUFFICES ASSUME NEW k \in Cohorts PROVE LastOf(s.rounds[k]) \in Nat
    OBVIOUS
  <2>1. s.rounds[k] \in Seq(Nat)
    BY DEF Stores
  <2>. QED
    BY <2>1 DEF LastOf, Genesis
<1>4. Genesis \in Nat
  BY DEF Genesis
<1>. QED
  BY <1>1, <1>2, <1>3, <1>4 DEF Restored, Memories, Stores

LEMMA TipType == ASSUME NEW log \in Seq(Entries) PROVE Tip(log) \in Nat
<1>1. CASE log = <<>>
  BY <1>1 DEF Tip, Genesis
<1>2. CASE log # <<>>
  <2>1. log[Len(log)] \in Entries
    BY <1>2
  <2>. QED
    BY <1>2, <2>1 DEF Tip, Entries
<1>. QED
  BY <1>1, <1>2

LEMMA EntryType ==
    ASSUME NEW id \in Nat, NEW log \in Seq(Entries), NEW action \in Actions,
           NEW org \in OrgIds \cup {NoOrg}, NEW metrics \in SUBSET AllowedMetrics,
           NEW contributors \in SUBSET OrgIds, NEW eps \in Nat
    PROVE  Entry(id, log, action, org, metrics, contributors, eps) \in Entries
  BY TipType DEF Entry, Entries

LEMMA DefaultPolicyType ==
    ASSUME NEW org \in Organizations
    PROVE  DefaultPolicyFor(org) \in Policies
<1>1. VerticalPolicy[org.domain] \in Policies
  BY PolicyAssumption DEF Organizations
<1>. QED
  BY <1>1, PolicyAssumption DEF DefaultPolicyFor, Policies

\* What a submitted operation leaves behind keeps the types.
LEMMA SubmitType ==
    ASSUME TypeOK, NEW p \in Procs, NEW m \in Memories, NEW b \in Bundles,
           Begin(p), Submit(p, m, b)
    PROVE  TypeOK'
<1>1. [m EXCEPT !.audit = Append(@, b.entry)] \in Memories
  <2>1. Append(m.audit, b.entry) \in Seq(Entries)
    BY DEF Memories, Bundles
  <2>. QED
    BY <2>1 DEF Memories
<1>2. mem' \in [Procs -> Memories]
  BY <1>1 DEF TypeOK, Submit
<1>3. b # Nothing
  BY StoreAssumption
<1>4. /\ tx' \in [Procs -> Bundles \cup {Nothing}]
      /\ pc' \in [Procs -> Statuses]
      /\ \A q \in Procs : pc'[q] = "commit" <=> tx'[q] # Nothing
  BY <1>3 DEF TypeOK, Submit, Statuses
<1>5. nonce' \in 0..MaxOps
  BY PlatformAssumption DEF TypeOK, Submit, Begin, Id
<1>. QED
  BY <1>2, <1>4, <1>5 DEF TypeOK, Submit

LEMMA AbortType ==
    ASSUME TypeOK, NEW p \in Procs, NEW m \in Memories, Begin(p), Abort(p, m)
    PROVE  TypeOK'
<1>1. nonce' \in 0..MaxOps
  BY PlatformAssumption DEF TypeOK, Abort, Begin, Id
<1>. QED
  BY <1>1 DEF TypeOK, Abort

LEMMA BundleType ==
    ASSUME NEW entry \in Entries
    PROVE  Bundle(entry) \in Bundles
  BY DEF Bundle, Bundles

\* The set of contributors is a set of organizations.
LEMMA ContributorsType ==
    ASSUME NEW m, NEW cohort, NEW metric, NEW eps
    PROVE  Contributors(m, cohort, metric, eps) \in SUBSET OrgIds
  BY DEF Contributors, Participants, Cohort

LEMMA BudgetWriteType ==
    ASSUME NEW before \in Accountants, NEW after \in Accountants
    PROVE  BudgetWrite(before, after) \in BudgetWrites
  BY DEF BudgetWrite, BudgetWrites, Accountants

LEMMA ServerForType ==
    ASSUME NEW m \in Memories, NEW cohort \in Cohorts, NEW dim \in Dims
    PROVE  ServerFor(m, cohort, dim) \in LiveServers
<1>1. m.servers[cohort] \in LiveServers \cup {NoServer}
  BY DEF Memories
<1>2. <<>> \in Seq(Nat)
  OBVIOUS
<1>. QED
  BY <1>1, <1>2 DEF ServerFor, LiveServers

LEMMA TrainedType ==
    ASSUME NEW m \in Memories, NEW cohort \in Cohorts, NEW dim \in Dims, Id \in Nat
    PROVE  /\ Trained(m, cohort, dim) \in Memories
           /\ Trained(m, cohort, dim).servers[cohort] \in LiveServers
<1>. DEFINE server == ServerFor(m, cohort, dim)
            trained == [server EXCEPT !.model = Append(@, Id), !.history = Append(@, Id)]
<1>1. server \in LiveServers
  BY ServerForType
<1>2. Append(server.model, Id) \in Seq(Nat) /\ Append(server.history, Id) \in Seq(Nat)
  BY <1>1 DEF LiveServers
<1>3. trained \in LiveServers
  BY <1>1, <1>2 DEF LiveServers
<1>4. Trained(m, cohort, dim) = [m EXCEPT !.servers[cohort] = trained]
  BY DEF Trained
<1>. HIDE DEF trained
<1>. QED
  BY <1>3, <1>4 DEF Memories

-----------------------------------------------------------------------------
(* What an operation hands to its commit.  Every later proof is about this *)
(* summary, not about the operations one by one.                           *)

\* An organization has a policy exactly when it is registered.
Governed(x) == \A o \in OrgIds : x.orgs[o] = NoOrg <=> x.policies[o] = NoPolicy

ConsentedIn(x, e) ==
    \A o \in e.participants :
        /\ o \in OrgIds
        /\ x.orgs[o] # NoOrg
        /\ Consents(x.policies, o, MetricOf(e.action), e.eps)

\* new is old with one more charge, of eps, under the id just drawn.
ChargedOnce(old, new, eps) ==
    \E cost \in Amounts, rdp \in RdpCosts :
        cost.eps = eps /\ new = Charged(old, Id, cost, rdp)

\* A release charges once, and its bundle expects the spend it charged on.
ChargedFor(old, new, b) ==
    /\ b.budget = Nothing => new = old
    /\ b.budget # Nothing =>
           /\ IsRelease(b.entry)
           /\ b.budget = BudgetWrite(old, new)
           /\ ChargedOnce(old, new, b.entry.eps)

\* The bundle b and the live objects m (its entry still to be logged) that an
\* operation makes out of the live objects old.
Prepared(old, m, b) ==
    /\ b.entry.id = Id
    /\ b.entry.prev = Tip(old.audit)
    /\ m.audit = old.audit
    /\ m.orgs = IF b.org = Nothing THEN old.orgs
                ELSE [old.orgs EXCEPT ![b.org.id] = b.org.data]
    /\ m.policies = IF b.policy = Nothing THEN old.policies
                    ELSE [old.policies EXCEPT ![b.policy.id] = b.policy.data]
    /\ Governed(old) => Governed(m)
    /\ BudgetSound(old.acc) => BudgetSound(m.acc)
    /\ b.budget # Nothing => b.budget.data = m.acc
    /\ ChargedFor(old.acc, m.acc, b)
    /\ IsRelease(b.entry) =>
           /\ b.org = Nothing /\ b.policy = Nothing
           /\ ConsentedIn(old, b.entry)
           /\ b.budget # Nothing
           /\ \E x \in b.budget.data.events : x.id = b.entry.id

\* The live objects m an operation that raises leaves of the live objects old.
Raised(old, m) ==
    /\ m.audit = old.audit
    /\ m.orgs = old.orgs
    /\ m.policies = old.policies
    /\ BudgetSound(old.acc) => BudgetSound(m.acc)
    /\ m.acc = old.acc \/ \E eps \in Nat : ChargedOnce(old.acc, m.acc, eps)

Prepares(p) == \E m \in Memories, b \in Bundles :
                   Begin(p) /\ Submit(p, m, b) /\ Prepared(mem[p], m, b)
Raises(p) == \E m \in Memories : Begin(p) /\ Abort(p, m) /\ Raised(mem[p], m)

LEMMA ContributorsConsent ==
    ASSUME NEW m \in Memories, NEW cohort \in Cohorts, NEW metric, NEW eps,
           NEW o \in Contributors(m, cohort, metric, eps)
    PROVE  o \in OrgIds /\ m.orgs[o] # NoOrg /\ Consents(m.policies, o, metric, eps)
  BY DEF Contributors, Participants, Cohort

LEMMA JoinPrepares ==
    ASSUME TypeOK, NEW p \in Procs, NEW o \in OrgIds, NEW k \in Cohorts, Join(p, o, k)
    PROVE  Prepares(p)
<1>. DEFINE m      == mem[p]
            org    == [sector |-> k.sector, domain |-> k.domain, active |-> TRUE]
            policy == DefaultPolicyFor(org)
            entry  == Entry(Id, m.audit, "org.join", o, {}, {}, 0)
            bundle == [Bundle(entry) EXCEPT !.org = [id |-> o, data |-> org],
                                            !.policy = [id |-> o, data |-> policy]]
            after  == [m EXCEPT !.orgs[o] = org, !.policies[o] = policy]
<1>1. org \in Organizations
  BY StoreAssumption DEF Organizations
<1>2. policy \in Policies
  BY <1>1, DefaultPolicyType
<1>3. m \in Memories
  BY DEF TypeOK
<1>4. entry \in Entries
  <2>1. m.audit \in Seq(Entries) /\ Id \in Nat
    BY <1>3, PlatformAssumption DEF Memories, TypeOK, Id
  <2>. QED
    BY <2>1, EntryType DEF Actions
<1>5. bundle \in Bundles /\ bundle.org # Nothing /\ bundle.policy # Nothing
      /\ bundle.org = [id |-> o, data |-> org] /\ bundle.policy = [id |-> o, data |-> policy]
      /\ bundle.budget = Nothing /\ bundle.entry = entry
  <2>1. [id |-> o, data |-> org] \in OrgWrites /\ [id |-> o, data |-> policy] \in PolicyWrites
    BY <1>1, <1>2 DEF OrgWrites, PolicyWrites
  <2>. QED
    BY <1>4, <2>1, StoreAssumption DEF Bundle, Bundles
<1>6. after \in Memories
  BY <1>1, <1>2, <1>3 DEF Memories, Registries, PolicyTables
<1>7. Begin(p) /\ Submit(p, after, bundle)
  BY DEF Join
<1>8. Governed(m) => Governed(after)
  <2>1. org # NoOrg /\ policy # NoPolicy
    BY <1>1, <1>2, PolicyAssumption
  <2>. QED
    BY <1>3, <2>1 DEF Governed, Memories, Registries, PolicyTables
<1>9. ~IsRelease(entry) /\ entry.id = Id /\ entry.prev = Tip(m.audit)
  BY DEF IsRelease, Entry
<1>10. Prepared(m, after, bundle)
  <2>1. /\ after.audit = m.audit /\ after.acc = m.acc
        /\ after.orgs = [m.orgs EXCEPT ![o] = org]
        /\ after.policies = [m.policies EXCEPT ![o] = policy]
    BY <1>3 DEF Memories
  <2>. HIDE DEF after, bundle, entry, org, policy
  <2>2. ChargedFor(m.acc, after.acc, bundle)
    BY <1>5, <2>1 DEF ChargedFor
  <2>. QED
    BY <1>5, <1>8, <1>9, <2>1, <2>2 DEF Prepared
<1>. HIDE DEF after, bundle
<1>. QED
  BY <1>5, <1>6, <1>7, <1>10 DEF Prepares

LEMMA SetConsentPrepares ==
    ASSUME TypeOK, NEW p \in Procs, NEW o \in OrgIds, NEW metrics \in ConsentChoices,
           SetConsent(p, o, metrics)
    PROVE  Prepares(p)
<1>. DEFINE m      == mem[p]
            policy == [ConsentBase(m, o) EXCEPT !.metrics = metrics]
            entry  == Entry(Id, m.audit, "consent.update", o, metrics, {}, 0)
            bundle == [Bundle(entry) EXCEPT !.policy = [id |-> o, data |-> policy]]
            after  == [m EXCEPT !.policies[o] = policy]
<1>1. m \in Memories
  BY DEF TypeOK
<1>2. m.orgs[o] \in Organizations /\ m.orgs[o] # NoOrg
  BY <1>1 DEF SetConsent, Memories, Registries
<1>3. policy \in Policies
  <2>1. m.policies[o] \in Policies \cup {NoPolicy}
    BY <1>1 DEF Memories, PolicyTables
  <2>2. ConsentBase(m, o) \in Policies
    BY <1>2, <2>1, DefaultPolicyType DEF ConsentBase
  <2>3. metrics \in SUBSET AllowedMetrics
    BY PlatformAssumption
  <2>. QED
    BY <2>2, <2>3 DEF Policies
<1>4. entry \in Entries
  <2>1. m.audit \in Seq(Entries) /\ Id \in Nat
    BY <1>1, PlatformAssumption DEF Memories, TypeOK, Id
  <2>2. metrics \in SUBSET AllowedMetrics
    BY PlatformAssumption
  <2>. QED
    BY <2>1, <2>2, EntryType DEF Actions
<1>5. bundle \in Bundles /\ bundle.org = Nothing /\ bundle.policy # Nothing
      /\ bundle.policy = [id |-> o, data |-> policy]
      /\ bundle.budget = Nothing /\ bundle.entry = entry
  <2>1. [id |-> o, data |-> policy] \in PolicyWrites
    BY <1>3 DEF PolicyWrites
  <2>. QED
    BY <1>4, <2>1, StoreAssumption DEF Bundle, Bundles
<1>6. after \in Memories
  BY <1>1, <1>3 DEF Memories, PolicyTables
<1>7. Begin(p) /\ Submit(p, after, bundle)
  BY DEF SetConsent
<1>8. Governed(m) => Governed(after)
  <2>1. policy # NoPolicy
    BY <1>3, PolicyAssumption
  <2>. QED
    BY <1>1, <1>2, <2>1 DEF Governed, Memories, Registries, PolicyTables
<1>9. ~IsRelease(entry) /\ entry.id = Id /\ entry.prev = Tip(m.audit)
  BY DEF IsRelease, Entry
<1>10. Prepared(m, after, bundle)
  <2>1. /\ after.audit = m.audit /\ after.acc = m.acc /\ after.orgs = m.orgs
        /\ after.policies = [m.policies EXCEPT ![o] = policy]
    BY <1>1 DEF Memories
  <2>. HIDE DEF after, bundle, entry, policy
  <2>2. ChargedFor(m.acc, after.acc, bundle)
    BY <1>5, <2>1 DEF ChargedFor
  <2>. QED
    BY <1>5, <1>8, <1>9, <2>1, <2>2 DEF Prepared
<1>. HIDE DEF after, bundle
<1>. QED
  BY <1>5, <1>6, <1>7, <1>10 DEF Prepares

LEMMA QueryPrepares ==
    ASSUME TypeOK, NEW p \in Procs, NEW cohort \in Cohorts, NEW metric,
           NEW action \in Actions \ {"org.join", "consent.update"}, NEW eps \in Epsilons,
           MetricOf(action) = metric, Query(p, cohort, metric, action, eps)
    PROVE  Prepares(p)
<1>. DEFINE m      == mem[p]
            acc    == Charged(m.acc, Id, QueryCost(eps), LaplaceRdp[eps])
            entry  == Entry(Id, m.audit, action, NoOrg, {},
                            Contributors(m, cohort, metric, eps), eps)
            bundle == [Bundle(entry) EXCEPT !.budget = BudgetWrite(m.acc, acc)]
            after  == [m EXCEPT !.acc = acc]
<1>1. m \in Memories
  BY DEF TypeOK
<1>2. eps \in Nat /\ Id \in Nat
  BY PlatformAssumption DEF TypeOK, Id
<1>3. m.acc \in Accountants /\ QueryCost(eps) \in Amounts /\ LaplaceRdp[eps] \in RdpCosts
  BY <1>1, <1>2, PlatformAssumption DEF QueryCost, Amounts, Memories
<1>4. acc \in Accountants
  BY <1>2, <1>3, ChargedType
<1>5. entry \in Entries
  <2>1. m.audit \in Seq(Entries)
    BY <1>1 DEF Memories
  <2>. QED
    BY <1>2, <2>1, EntryType, ContributorsType
<1>6. bundle \in Bundles /\ bundle.org = Nothing /\ bundle.policy = Nothing
      /\ bundle.budget # Nothing /\ bundle.budget.data = acc /\ bundle.entry = entry
      /\ bundle.budget = BudgetWrite(m.acc, acc)
  <2>1. Bundle(entry) \in Bundles
    BY <1>5, BundleType
  <2>2. BudgetWrite(m.acc, acc) \in BudgetWrites
    BY <1>3, <1>4, BudgetWriteType
  <2>. QED
    BY <2>1, <2>2, StoreAssumption DEF Bundle, Bundles, BudgetWrite
<1>7. after \in Memories
  BY <1>1, <1>4 DEF Memories
<1>8. Begin(p) /\ Submit(p, after, bundle)
  BY DEF Query
<1>9. BudgetSound(acc)
  BY <1>2, <1>3, AdmittedIsSound DEF Query
<1>10. ConsentedIn(m, entry)
  BY <1>1, ContributorsConsent DEF ConsentedIn, Entry
<1>11. \E x \in acc.events : x.id = Id
  BY ChargedIsRecorded
<1>12. Prepared(m, after, bundle)
  <2>1. /\ after.audit = m.audit /\ after.acc = acc
        /\ after.orgs = m.orgs /\ after.policies = m.policies
    BY <1>1 DEF Memories
  <2>2. entry.id = Id /\ entry.prev = Tip(m.audit)
    BY DEF Entry
  <2>3. Governed(m) => Governed(after)
    BY <2>1 DEF Governed
  <2>4. ChargedOnce(m.acc, acc, entry.eps)
    BY <1>3 DEF ChargedOnce, QueryCost, Entry
  <2>5. IsRelease(entry)
    BY DEF IsRelease, Entry
  <2>. HIDE DEF after, bundle, entry, acc
  <2>6. ChargedFor(m.acc, acc, bundle)
    BY <1>6, <2>4, <2>5 DEF ChargedFor
  <2>. QED
    BY <1>6, <1>9, <1>10, <1>11, <2>1, <2>2, <2>3, <2>6 DEF Prepared
<1>. HIDE DEF after, bundle
<1>. QED
  BY <1>6, <1>7, <1>8, <1>12 DEF Prepares

LEMMA FederatedRoundPrepares ==
    ASSUME TypeOK, NEW p \in Procs, NEW cohort \in Cohorts, NEW eps \in Epsilons,
           NEW delta \in Deltas, NEW dim \in Dims, NEW survivors \in SUBSET OrgIds,
           FederatedRound(p, cohort, eps, delta, dim, survivors)
    PROVE  Prepares(p)
<1>. DEFINE m       == mem[p]
            trained == Trained(m, cohort, dim)
            acc     == Charged(m.acc, Id, RoundCost(eps, delta), GaussianRdp[eps])
            server  == trained.servers[cohort]
            row     == [dim |-> server.dim, model |-> server.model,
                        rounds |-> Len(server.history)]
            entry   == Entry(Id, m.audit, "federated.round", NoOrg, {}, survivors, eps)
            write   == [key |-> cohort, data |-> row,
                        expect |-> Len(ServerFor(m, cohort, dim).history)]
            bundle  == [Bundle(entry) EXCEPT
                           !.budget = BudgetWrite(m.acc, acc),
                           !.server = write,
                           !.round  = [key |-> cohort, id |-> Id]]
            after   == [trained EXCEPT !.acc = acc, !.last[cohort] = Id]
<1>1. m \in Memories
  BY DEF TypeOK
<1>2. eps \in Nat /\ delta \in Nat /\ Id \in Nat
  BY PlatformAssumption DEF TypeOK, Id
<1>3. /\ m.acc \in Accountants
      /\ RoundCost(eps, delta) \in Amounts
      /\ GaussianRdp[eps] \in RdpCosts
  BY <1>1, <1>2, PlatformAssumption DEF RoundCost, Amounts, Memories
<1>4. acc \in Accountants
  BY <1>2, <1>3, ChargedType
<1>5. trained \in Memories /\ server \in LiveServers
  BY <1>1, <1>2, TrainedType
<1>6. write \in ServerWrites
  <2>1. ServerFor(m, cohort, dim) \in LiveServers
    BY <1>1, ServerForType
  <2>2. Len(server.history) \in Nat /\ Len(ServerFor(m, cohort, dim).history) \in Nat
    BY <1>5, <2>1 DEF LiveServers
  <2>3. row \in ServerRows
    BY <1>5, <2>2 DEF LiveServers, ServerRows
  <2>. QED
    BY <2>2, <2>3 DEF ServerWrites
<1>7. entry \in Entries
  <2>1. m.audit \in Seq(Entries)
    BY <1>1 DEF Memories
  <2>. QED
    BY <1>2, <2>1, EntryType DEF Actions
<1>8. bundle \in Bundles /\ bundle.org = Nothing /\ bundle.policy = Nothing
      /\ bundle.budget # Nothing /\ bundle.budget.data = acc /\ bundle.entry = entry
      /\ bundle.budget = BudgetWrite(m.acc, acc)
  <2>1. Bundle(entry) \in Bundles
    BY <1>7, BundleType
  <2>2. BudgetWrite(m.acc, acc) \in BudgetWrites
    BY <1>3, <1>4, BudgetWriteType
  <2>3. [key |-> cohort, id |-> Id] \in RoundWrites
    BY <1>2 DEF RoundWrites
  <2>. HIDE DEF write, acc, entry
  <2>. QED
    BY <1>6, <1>7, <2>1, <2>2, <2>3, StoreAssumption DEF Bundle, Bundles, BudgetWrite
<1>9. after \in Memories
  <2>. HIDE DEF trained, acc
  <2>. QED
    BY <1>2, <1>4, <1>5 DEF Memories
<1>10. Begin(p) /\ Submit(p, after, bundle)
  BY DEF FederatedRound, RoundRuns
<1>11. BudgetSound(acc)
  BY <1>2, <1>3, AdmittedIsSound DEF FederatedRound
<1>12. ConsentedIn(m, entry)
  <2>1. survivors \subseteq Contributors(m, cohort, RoundMetric, eps)
    BY DEF FederatedRound
  <2>2. MetricOf("federated.round") = RoundMetric
    BY DEF MetricOf
  <2>. QED
    BY <1>1, <2>1, <2>2, ContributorsConsent DEF ConsentedIn, Entry
<1>13. \E x \in acc.events : x.id = Id
  BY ChargedIsRecorded
<1>14. Prepared(m, after, bundle)
  <2>1. /\ after.audit = m.audit /\ after.acc = acc
        /\ after.orgs = m.orgs /\ after.policies = m.policies
    <3>1. /\ trained.audit = m.audit /\ trained.orgs = m.orgs
          /\ trained.policies = m.policies
      BY <1>1 DEF Trained, Memories
    <3>. HIDE DEF trained, acc
    <3>. QED
      BY <1>5, <3>1 DEF Memories
  <2>2. entry.id = Id /\ entry.prev = Tip(m.audit)
    BY DEF Entry
  <2>3. Governed(m) => Governed(after)
    <3>. HIDE DEF after
    <3>. QED
      BY <2>1 DEF Governed
  <2>4. ChargedOnce(m.acc, acc, entry.eps)
    BY <1>3 DEF ChargedOnce, RoundCost, Entry
  <2>5. IsRelease(entry)
    BY DEF IsRelease, Entry
  <2>. HIDE DEF after, bundle, entry, acc
  <2>6. ChargedFor(m.acc, acc, bundle)
    BY <1>8, <2>4, <2>5 DEF ChargedFor
  <2>. QED
    BY <1>8, <1>11, <1>12, <1>13, <2>1, <2>2, <2>3, <2>6 DEF Prepared
<1>. HIDE DEF after, bundle
<1>. QED
  BY <1>8, <1>9, <1>10, <1>14 DEF Prepares

LEMMA BadLabelsRaises ==
    ASSUME TypeOK, NEW p \in Procs, NEW cohort \in Cohorts, NEW eps \in Epsilons,
           HistogramBadLabels(p, cohort, eps)
    PROVE  Raises(p)
<1>. DEFINE m     == mem[p]
            acc   == Charged(m.acc, Id, QueryCost(eps), LaplaceRdp[eps])
            after == [m EXCEPT !.acc = acc]
<1>1. m \in Memories
  BY DEF TypeOK
<1>2. eps \in Nat /\ Id \in Nat
  BY PlatformAssumption DEF TypeOK, Id
<1>3. m.acc \in Accountants /\ QueryCost(eps) \in Amounts /\ LaplaceRdp[eps] \in RdpCosts
  BY <1>1, <1>2, PlatformAssumption DEF QueryCost, Amounts, Memories
<1>4. acc \in Accountants /\ BudgetSound(acc)
  BY <1>2, <1>3, ChargedType, AdmittedIsSound DEF HistogramBadLabels
<1>5. after \in Memories
  BY <1>1, <1>4 DEF Memories
<1>6. Begin(p) /\ Abort(p, after)
  BY DEF HistogramBadLabels
<1>7. Raised(m, after)
  <2>1. /\ after.audit = m.audit /\ after.acc = acc
        /\ after.orgs = m.orgs /\ after.policies = m.policies
    BY <1>1 DEF Memories
  <2>2. ChargedOnce(m.acc, acc, eps)
    BY <1>3 DEF ChargedOnce, QueryCost
  <2>. HIDE DEF after, acc
  <2>. QED
    BY <1>2, <1>4, <2>1, <2>2 DEF Raised
<1>. HIDE DEF after
<1>. QED
  BY <1>5, <1>6, <1>7 DEF Raises

LEMMA RoundOverBudgetRaises ==
    ASSUME TypeOK, NEW p \in Procs, NEW cohort \in Cohorts, NEW eps \in Epsilons,
           NEW delta \in Deltas, NEW dim \in Dims,
           RoundOverBudget(p, cohort, eps, delta, dim)
    PROVE  Raises(p)
<1>1. mem[p] \in Memories /\ Id \in Nat
  BY PlatformAssumption DEF TypeOK, Id
<1>2. Trained(mem[p], cohort, dim) \in Memories
  BY <1>1, TrainedType
<1>3. Raised(mem[p], Trained(mem[p], cohort, dim))
  BY <1>1 DEF Raised, Trained, Memories
<1>. QED
  BY <1>2, <1>3 DEF RoundOverBudget, RoundRuns, Raises

LEMMA FirstRoundFailsRaises ==
    ASSUME TypeOK, NEW p \in Procs, NEW cohort \in Cohorts, NEW eps \in Epsilons,
           NEW dim \in Dims, FirstRoundFails(p, cohort, eps, dim)
    PROVE  Raises(p)
<1>. DEFINE after == [mem[p] EXCEPT !.servers[cohort] = ServerFor(mem[p], cohort, dim)]
<1>1. mem[p] \in Memories
  BY DEF TypeOK
<1>2. after \in Memories
  BY <1>1, ServerForType DEF Memories
<1>3. Begin(p) /\ Abort(p, after)
  BY DEF FirstRoundFails
<1>4. Raised(mem[p], after)
  BY <1>1 DEF Raised, Memories
<1>. HIDE DEF after
<1>. QED
  BY <1>2, <1>3, <1>4 DEF Raises

\* Every operation prepares a bundle or raises.
LEMMA OperationKinds ==
    ASSUME TypeOK, NEW p \in Procs, Operation(p)
    PROVE  Prepares(p) \/ Raises(p)
<1>. DEFINE Ask(k, eps) == Histogram(p, k, eps) \/ Variance(p, k, eps) \/ Correlation(p, k, eps)
<1>1. CASE \E o \in OrgIds, k \in Cohorts : Join(p, o, k)
  BY <1>1, JoinPrepares
<1>2. CASE \E o \in OrgIds, metrics \in ConsentChoices : SetConsent(p, o, metrics)
  BY <1>2, SetConsentPrepares
<1>3. CASE \E k \in Cohorts, eps \in Epsilons : Ask(k, eps)
  <2>. DEFINE Asked == Actions \ {"org.join", "consent.update"}
  <2>1. /\ "query.histogram" \in Asked /\ MetricOf("query.histogram") = "histogram"
        /\ "query.variance" \in Asked /\ MetricOf("query.variance") = "variance"
        /\ "query.correlation" \in Asked /\ MetricOf("query.correlation") = "correlation"
    BY DEF Actions, MetricOf
  <2>. QED
    BY <1>3, <2>1, QueryPrepares DEF Histogram, Variance, Correlation
<1>4. CASE \E k \in Cohorts, eps \in Epsilons : HistogramBadLabels(p, k, eps)
  BY <1>4, BadLabelsRaises
<1>5. CASE \E k \in Cohorts, eps \in Epsilons, dim \in Dims : FirstRoundFails(p, k, eps, dim)
  BY <1>5, FirstRoundFailsRaises
<1>6. CASE \E k \in Cohorts, eps \in Epsilons, dim \in Dims, delta \in Deltas :
               RoundOverBudget(p, k, eps, delta, dim)
  BY <1>6, RoundOverBudgetRaises
<1>7. CASE \E k \in Cohorts, eps \in Epsilons, dim \in Dims, delta \in Deltas,
                survivors \in SUBSET OrgIds :
               FederatedRound(p, k, eps, delta, dim, survivors)
  BY <1>7, FederatedRoundPrepares
<1>. QED
  BY <1>1, <1>2, <1>3, <1>4, <1>5, <1>6, <1>7 DEF Operation

-----------------------------------------------------------------------------
(* Type correctness, step by step.                                         *)

LEMMA OperationType ==
    ASSUME TypeOK, NEW p \in Procs, Operation(p)
    PROVE  TypeOK'
  BY OperationKinds, SubmitType, AbortType DEF Prepares, Raises

LEMMA ReadTableType ==
    ASSUME TypeOK, NEW p \in Procs, ReadTable(p)
    PROVE  TypeOK'
<1>. DEFINE n     == scan[p].read + 1
            state == ReadFrom(scan[p].state, db, n)
<1>1. scan[p] \in [state : Stores, read : 0..TableCount] /\ db \in Stores
  BY DEF TypeOK
<1>2. state \in Stores
  BY <1>1 DEF ReadFrom, Stores
<1>3. n \in 0..TableCount
  BY <1>1 DEF ReadTable, TableCount
<1>4. scan' = [scan EXCEPT ![p] = [state |-> state, read |-> n]]
  BY DEF ReadTable
<1>5. scan' \in [Procs -> [state : Stores, read : 0..TableCount]]
  <2>. HIDE DEF state, n
  <2>. QED
    BY <1>2, <1>3, <1>4 DEF TypeOK
<1>. QED
  BY <1>5 DEF TypeOK, ReadTable

LEMMA NothingReadType == NothingRead \in [state : Stores, read : 0..TableCount]
  BY EmptyStoreType DEF NothingRead, TableCount

LEMMA RecoveryType ==
    ASSUME TypeOK, NEW p \in Procs, Recovery(p)
    PROVE  TypeOK'
<1>1. scan[p].state \in Stores /\ mem[p] \in Memories
  BY DEF TypeOK
<1>2. LiveObjects(SeedLimit) \in Memories /\ LiveObjects(DefaultLimit) \in Memories
  BY LiveObjectsType, PlatformAssumption
<1>3. ASSUME NEW m \in Memories, NEW status, Loaded(p, status, m), status # "commit",
             NEW next \in {"idle", "down"}, pc' = [pc EXCEPT ![p] = next]
      PROVE  TypeOK'
  <2>1. mem' \in [Procs -> Memories]
    BY <1>3 DEF Loaded, TypeOK
  <2>2. scan' \in [Procs -> [state : Stores, read : 0..TableCount]]
    BY <1>3, NothingReadType DEF Loaded, TypeOK
  <2>3. pc' \in [Procs -> Statuses]
    BY <1>3 DEF TypeOK, Statuses
  <2>4. \A q \in Procs : pc'[q] = "commit" <=> tx'[q] # Nothing
    BY <1>3 DEF Loaded, TypeOK
  <2>. QED
    BY <1>3, <2>1, <2>2, <2>3, <2>4 DEF Loaded, TypeOK
<1>4. CASE Started(p)
  <2>1. Restored(LiveObjects(SeedLimit), scan[p].state) \in Memories
    BY <1>1, <1>2, RestoredType
  <2>. QED
    BY <1>2, <1>3, <1>4, <2>1 DEF Started
<1>5. CASE Reconverged(p)
  <2>1. Restored(mem[p], scan[p].state) \in Memories
    BY <1>1, RestoredType
  <2>. QED
    BY <1>2, <1>3, <1>5, <2>1 DEF Reconverged
<1>. QED
  BY <1>4, <1>5, ReadTableType DEF Recovery

LEMMA OutcomeType ==
    ASSUME TypeOK, NEW p \in Procs,
           \/ Commit(p) \/ Conflict(p) \/ CommitFails(p) \/ ReloadFails(p)
           \/ Crash(p) \/ Start(p)
    PROVE  TypeOK'
<1>1. CASE Commit(p)
  <2>1. tx[p] \in Bundles
    BY <1>1 DEF Commit, TypeOK
  <2>2. db' \in Stores
    BY <1>1, <2>1, ApplyType DEF Commit, TypeOK
  <2>. QED
    BY <1>1, <2>2 DEF Commit, TypeOK, Statuses
<1>2. CASE Conflict(p) \/ CommitFails(p)
  <2>1. faults' \in 0..MaxFaults
    BY <1>2, PlatformAssumption DEF Conflict, CommitFails, Fault, TypeOK
  <2>. QED
    BY <1>2, <2>1 DEF Conflict, CommitFails, Reload, TypeOK, Statuses
<1>3. CASE ReloadFails(p) \/ Crash(p)
  <2>1. faults' \in 0..MaxFaults
    BY <1>3, PlatformAssumption DEF ReloadFails, Crash, Fault, TypeOK
  <2>2. mem' \in [Procs -> Memories]
    BY <1>3, LiveObjectsType, PlatformAssumption DEF ReloadFails, Crash, TypeOK
  <2>3. scan' \in [Procs -> [state : Stores, read : 0..TableCount]]
    BY <1>3, NothingReadType DEF ReloadFails, Crash, TypeOK
  <2>4. /\ pc' \in [Procs -> Statuses]
        /\ tx' \in [Procs -> Bundles \cup {Nothing}]
        /\ \A q \in Procs : pc'[q] = "commit" <=> tx'[q] # Nothing
    BY <1>3 DEF ReloadFails, Crash, TypeOK, Statuses
  <2>. QED
    BY <1>3, <2>1, <2>2, <2>3, <2>4 DEF ReloadFails, Crash, TypeOK
<1>4. CASE Start(p)
  BY <1>4 DEF Start, TypeOK, Statuses
<1>. QED
  BY <1>1, <1>2, <1>3, <1>4

LEMMA InitType == Init => TypeOK
<1>1. LiveObjects(SeedLimit) \in Memories
  BY LiveObjectsType, PlatformAssumption
<1>. QED
  BY <1>1, EmptyStoreType, NothingReadType, PlatformAssumption DEF Init, TypeOK, Statuses

LEMMA NextType == TypeOK /\ [Next]_vars => TypeOK'
<1>. SUFFICES ASSUME TypeOK, [Next]_vars PROVE TypeOK'
  OBVIOUS
<1>1. CASE \E p \in Procs : Recovery(p)
  BY <1>1, RecoveryType
<1>2. CASE \E p \in Procs : Operation(p)
  BY <1>2, OperationType
<1>3. CASE \E p \in Procs : \/ Commit(p) \/ Conflict(p) \/ CommitFails(p)
                            \/ ReloadFails(p) \/ Crash(p) \/ Start(p)
  BY <1>3, OutcomeType
<1>4. CASE UNCHANGED vars
  BY <1>4 DEF vars, TypeOK
<1>. QED
  BY <1>1, <1>2, <1>3, <1>4 DEF Next, Quiescent

\* Every variable keeps its type (platform.py's live objects, the store's rows
\* and the bundles between them).
THEOREM TypeCorrect == Spec => []TypeOK
  BY InitType, NextType, PTL DEF Spec

-----------------------------------------------------------------------------
(* The log is one chain.  It needs that every id in flight is an id no     *)
(* other process has in flight and the store has not logged.               *)

Logged(log, id) == \E i \in DOMAIN log : log[i].id = id

ChainInv ==
    /\ AuditChained
    /\ \A i \in DOMAIN db.audit : db.audit[i].id <= nonce
    /\ \A p \in Procs : pc[p] = "commit" =>
           /\ tx[p].entry.id <= nonce
           /\ ~Logged(db.audit, tx[p].entry.id)
           /\ \A q \in Procs : pc[q] = "commit" /\ q # p =>
                  tx[q].entry.id # tx[p].entry.id

LEMMA IdsAreNumbers ==
    /\ \A d \in Stores : \A i \in DOMAIN d.audit : d.audit[i].id \in Nat
    /\ \A b \in Bundles : b.entry.id \in Nat
<1>1. \A e \in Entries : e.id \in Nat
  BY DEF Entries
<1>2. \A d \in Stores : d.audit \in Seq(Entries)
  BY DEF Stores
<1>3. \A b \in Bundles : b.entry \in Entries
  BY DEF Bundles
<1>4. \A log \in Seq(Entries) : \A i \in DOMAIN log : log[i] \in Entries
  OBVIOUS
<1>. QED
  BY <1>1, <1>2, <1>3, <1>4

\* Committing a fresh entry extends the chain.
LEMMA CommitChains ==
    ASSUME TypeOK, ChainInv, NEW p \in Procs, Commit(p)
    PROVE  ChainInv'
<1>. DEFINE e == tx[p].entry
<1>1. e \in Entries /\ db.audit \in Seq(Entries) /\ nonce \in Nat
  <2>1. tx[p] \in Bundles /\ db \in Stores /\ nonce \in 0..MaxOps
    BY DEF Commit, TypeOK
  <2>. QED
    BY <2>1, PlatformAssumption DEF Bundles, Stores
<1>2. db'.audit = Append(db.audit, e) /\ e.prev = Tip(db.audit)
  BY DEF Commit, Apply, Fresh, TipFresh
<1>3. /\ DOMAIN db'.audit = 1..(Len(db.audit) + 1)
      /\ DOMAIN db.audit = 1..Len(db.audit)
      /\ \A i \in 1..Len(db.audit) : db'.audit[i] = db.audit[i]
      /\ db'.audit[Len(db.audit) + 1] = e
      /\ Len(db.audit) \in Nat
  BY <1>1, <1>2
<1>4. \A i \in 1..Len(db.audit) : db.audit[i].id # e.id /\ db.audit[i].id <= nonce
  BY <1>3 DEF ChainInv, Logged, Commit
<1>5. AuditChained'
  <2>. SUFFICES ASSUME NEW i \in 1..(Len(db.audit) + 1)
                PROVE  /\ db'.audit[i].prev = IF i = 1 THEN Genesis ELSE db'.audit[i - 1].id
                       /\ \A j \in 1..(i - 1) : db'.audit[j].id # db'.audit[i].id
    BY <1>3 DEF AuditChained
  <2>1. CASE i \in 1..Len(db.audit)
    <3>1. i - 1 \in 1..Len(db.audit) \/ i = 1
      BY <1>3, <2>1
    <3>2. \A j \in 1..(i - 1) : j \in 1..Len(db.audit)
      BY <1>3, <2>1
    <3>3. /\ db.audit[i].prev = IF i = 1 THEN Genesis ELSE db.audit[i - 1].id
          /\ \A j \in 1..(i - 1) : db.audit[j].id # db.audit[i].id
      BY <1>3, <2>1 DEF ChainInv, AuditChained
    <3>. QED
      BY <1>3, <2>1, <3>1, <3>2, <3>3
  <2>2. CASE i = Len(db.audit) + 1
    <3>1. CASE db.audit = <<>>
      BY <1>2, <1>3, <2>2, <3>1 DEF Tip
    <3>2. CASE db.audit # <<>>
      <4>1. Len(db.audit) \in 1..Len(db.audit) /\ i # 1
        BY <1>1, <2>2, <3>2
      <4>. QED
        BY <1>2, <1>3, <1>4, <2>2, <3>2, <4>1 DEF Tip
    <3>. QED
      BY <3>1, <3>2
  <2>. QED
    BY <1>3, <2>1, <2>2
<1>6. nonce' = nonce /\ e.id <= nonce
  BY DEF Commit, ChainInv
<1>7. \A i \in DOMAIN db'.audit : db'.audit[i].id <= nonce'
  BY <1>3, <1>4, <1>6
<1>8. ASSUME NEW q \in Procs, pc'[q] = "commit"
      PROVE  /\ tx'[q].entry.id <= nonce'
             /\ ~Logged(db'.audit, tx'[q].entry.id)
             /\ \A r \in Procs : pc'[r] = "commit" /\ r # q =>
                    tx'[r].entry.id # tx'[q].entry.id
  <2>1. q # p /\ pc[q] = "commit" /\ tx'[q] = tx[q]
    BY <1>8 DEF Commit, TypeOK
  <2>2. \A r \in Procs : pc'[r] = "commit" => r # p /\ pc[r] = "commit" /\ tx'[r] = tx[r]
    BY DEF Commit, TypeOK
  <2>3. tx[q].entry.id # e.id
    BY <2>1 DEF ChainInv, Commit
  <2>4. ~Logged(db'.audit, tx'[q].entry.id)
    BY <1>3, <2>1, <2>3 DEF ChainInv, Logged
  <2>. QED
    BY <1>6, <2>1, <2>2, <2>4 DEF ChainInv
<1>. QED
  BY <1>5, <1>7, <1>8 DEF ChainInv

\* A step that leaves the log alone and starts no commit keeps the chain.
LEMMA QuietChains ==
    ASSUME TypeOK, ChainInv, db' = db, nonce' \in Nat, nonce <= nonce',
           \A q \in Procs : pc'[q] = "commit" => pc[q] = "commit" /\ tx'[q] = tx[q]
    PROVE  ChainInv'
<1>1. /\ db \in Stores /\ nonce \in Nat
      /\ \A q \in Procs : pc[q] = "commit" => tx[q] \in Bundles
  BY PlatformAssumption DEF TypeOK
<1>2. /\ \A i \in DOMAIN db.audit : db.audit[i].id \in Nat
      /\ \A q \in Procs : pc[q] = "commit" => tx[q].entry.id \in Nat
  BY <1>1, IdsAreNumbers
<1>3. AuditChained'
  BY DEF ChainInv, AuditChained, Logged
<1>4. \A i \in DOMAIN db'.audit : db'.audit[i].id <= nonce'
  BY <1>1, <1>2 DEF ChainInv
<1>5. \A q \in Procs : pc'[q] = "commit" => tx'[q].entry.id <= nonce'
  BY <1>1, <1>2 DEF ChainInv
<1>6. \A q \in Procs : pc'[q] = "commit" =>
          /\ ~Logged(db'.audit, tx'[q].entry.id)
          /\ \A r \in Procs : pc'[r] = "commit" /\ r # q =>
                 tx'[r].entry.id # tx'[q].entry.id
  BY <1>3 DEF ChainInv
<1>. QED
  BY <1>3, <1>4, <1>5, <1>6 DEF ChainInv

\* A new bundle brings an id that was never drawn before.
LEMMA SubmitChains ==
    ASSUME TypeOK, ChainInv, NEW p \in Procs, Prepares(p)
    PROVE  ChainInv'
<1>. PICK m \in Memories, b \in Bundles :
         Begin(p) /\ Submit(p, m, b) /\ Prepared(mem[p], m, b)
  BY DEF Prepares
<1>1. /\ nonce \in Nat /\ nonce' = nonce + 1 /\ db' = db /\ db \in Stores
      /\ b.entry.id = nonce + 1
      /\ \A q \in Procs : pc[q] = "commit" => tx[q] \in Bundles
  BY PlatformAssumption DEF TypeOK, Submit, Prepared, Id
<1>2. /\ \A i \in DOMAIN db.audit : db.audit[i].id \in Nat
      /\ \A q \in Procs : pc[q] = "commit" => tx[q].entry.id \in Nat
  BY <1>1, IdsAreNumbers
<1>3. \A q \in Procs : q # p => tx'[q] = tx[q] /\ pc'[q] = pc[q]
  BY DEF Submit, TypeOK
<1>4. tx'[p] = b
  BY DEF Submit, TypeOK
<1>5. AuditChained'
  BY <1>1 DEF ChainInv, AuditChained, Logged
<1>6. ~Logged(db.audit, nonce + 1) /\ \A i \in DOMAIN db'.audit : db'.audit[i].id <= nonce'
  BY <1>1, <1>2 DEF ChainInv, Logged
<1>7. ASSUME NEW q \in Procs, pc'[q] = "commit"
      PROVE  /\ tx'[q].entry.id <= nonce'
             /\ ~Logged(db'.audit, tx'[q].entry.id)
             /\ \A r \in Procs : pc'[r] = "commit" /\ r # q =>
                    tx'[r].entry.id # tx'[q].entry.id
  <2>1. \A r \in Procs : r # p /\ pc'[r] = "commit" =>
            tx'[r] = tx[r] /\ tx[r].entry.id \in Nat /\ tx[r].entry.id <= nonce
    BY <1>2, <1>3 DEF ChainInv
  <2>2. CASE q = p
    BY <1>1, <1>4, <1>5, <1>6, <2>1, <2>2
  <2>3. CASE q # p
    BY <1>1, <1>3, <1>4, <1>5, <1>7, <2>1, <2>3 DEF ChainInv
  <2>. QED
    BY <2>2, <2>3
<1>. QED
  BY <1>5, <1>6, <1>7 DEF ChainInv

LEMMA InitChains == Init => ChainInv
  BY DEF Init, ChainInv, AuditChained, EmptyStore

LEMMA NextChains == TypeOK /\ ChainInv /\ [Next]_vars => ChainInv'
<1>. SUFFICES ASSUME TypeOK, ChainInv, [Next]_vars PROVE ChainInv'
  OBVIOUS
<1>0. nonce \in Nat
  BY PlatformAssumption DEF TypeOK
<1>1. CASE \E p \in Procs : Prepares(p)
  BY <1>1, SubmitChains
<1>2. CASE \E p \in Procs : Commit(p)
  BY <1>2, CommitChains
<1>3. CASE \E p \in Procs : Raises(p)
  <2>1. nonce' = nonce + 1 /\ db' = db /\ pc' = pc /\ tx' = tx
    BY <1>3 DEF Raises, Abort, Id
  <2>. QED
    BY <1>0, <2>1, QuietChains
<1>4. CASE \E p \in Procs : \/ Recovery(p) \/ Start(p) \/ Conflict(p) \/ CommitFails(p)
                            \/ ReloadFails(p) \/ Crash(p)
  <2>. PICK p \in Procs : \/ Recovery(p) \/ Start(p) \/ Conflict(p) \/ CommitFails(p)
                          \/ ReloadFails(p) \/ Crash(p)
    BY <1>4
  <2>1. nonce' = nonce /\ db' = db
    BY DEF Recovery, ReadTable, Started, Reconverged, Loaded, Start, Conflict, CommitFails,
           Reload, ReloadFails, Crash
  <2>2. /\ pc'[p] # "commit" \/ pc' = pc
        /\ \A q \in Procs : q # p => pc'[q] = pc[q] /\ tx'[q] = tx[q]
        /\ pc' = pc => tx' = tx
    BY DEF Recovery, ReadTable, Started, Reconverged, Loaded, Start, Conflict, CommitFails,
           Reload, ReloadFails, Crash, TypeOK
  <2>. QED
    BY <1>0, <2>1, <2>2, QuietChains
<1>5. CASE UNCHANGED vars
  BY <1>0, <1>5, QuietChains DEF vars
<1>. QED
  BY <1>1, <1>2, <1>3, <1>4, <1>5, OperationKinds DEF Next, Quiescent

\* The stored log is one hash chain without repeated entries, however many
\* processes race to append to it (the gate of append_audit).
THEOREM LogIsChained == Spec => []AuditChained
<1>1. Init => TypeOK /\ ChainInv
  BY InitType, InitChains
<1>2. TypeOK /\ ChainInv /\ [Next]_vars => TypeOK' /\ ChainInv'
  BY NextType, NextChains
<1>3. ChainInv => AuditChained
  BY DEF ChainInv
<1>. QED
  BY <1>1, <1>2, <1>3, PTL DEF Spec

-----------------------------------------------------------------------------
(* Spending.  The stored budget is sound because every accountant it can   *)
(* be written from is: those in memory, those in bundles, and the row a    *)
(* load has read before a commit replaced it.                              *)

BundlePays(b) ==
    /\ b.budget # Nothing => BudgetSound(b.budget.data)
    /\ IsRelease(b.entry) => /\ b.budget # Nothing
                             /\ \E x \in b.budget.data.events : x.id = b.entry.id

SpendInv ==
    /\ ReleasesCharged
    /\ WithinBudget
    /\ \A p \in Procs : pc[p] = "commit" => BundlePays(tx[p])
    /\ \A p \in Procs : scan[p].state.budget # NoBudget =>
                            BudgetSound(scan[p].state.budget)

\* save_budget loses no event, stores those of the bundle, and keeps the
\* bundle's spend and limit.
LEMMA SaveBudgetSpends ==
    ASSUME NEW old \in Accountants \cup {NoBudget},
           NEW write \in BudgetWrites \cup {Nothing}
    PROVE  LET new == SaveBudget(old, write)
           IN  /\ old # NoBudget =>
                      new # NoBudget /\ \A x \in old.events : x \in new.events
               /\ write # Nothing =>
                      /\ new # NoBudget
                      /\ \A x \in write.data.events : \E y \in new.events : y.id = x.id
               /\ \/ new = old
                  \/ write # Nothing /\ (BudgetSound(write.data) => BudgetSound(new))
<1>. DEFINE new == SaveBudget(old, write)
<1>1. CASE write = Nothing
  BY <1>1 DEF SaveBudget
<1>2. CASE write # Nothing /\ old = NoBudget
  <2>1. new = write.data /\ write.data \in Accountants
    BY <1>2 DEF SaveBudget, BudgetWrites
  <2>. QED
    BY <1>2, <2>1, StoreAssumption
<1>3. CASE write # Nothing /\ old # NoBudget
  <2>. DEFINE merged == MergeEvents(old.events, write.data.events)
  <2>1. write.data \in Accountants /\ old \in Accountants
    BY <1>3 DEF BudgetWrites
  <2>2. new \in Accountants \cup {NoBudget} /\ new = [write.data EXCEPT !.events = merged]
    BY <1>3, <2>1, SaveBudgetType DEF SaveBudget, Accountants
  <2>3. /\ new.events = merged /\ new.limit = write.data.limit /\ new.spent = write.data.spent
        /\ new.rdp = write.data.rdp /\ new.complete = write.data.complete
    <3>. HIDE DEF merged
    <3>. QED
      BY <2>1, <2>2 DEF Accountants
  <2>4. new # NoBudget
    <3>1. merged \in SUBSET Events
      BY <2>1 DEF MergeEvents, Accountants
    <3>. HIDE DEF merged
    <3>2. [write.data EXCEPT !.events = merged] \in Accountants
      BY <2>1, <3>1 DEF Accountants
    <3>. QED
      BY <2>2, <3>2, StoreAssumption
  <2>5. \A x \in old.events : x \in merged
    BY DEF MergeEvents
  <2>6. \A x \in write.data.events : \E y \in merged : y.id = x.id
    BY DEF MergeEvents
  <2>7. BudgetSound(write.data) => BudgetSound(new)
    BY <2>3 DEF BudgetSound
  <2>. QED
    BY <1>3, <2>3, <2>4, <2>5, <2>6, <2>7
<1>. QED
  BY <1>1, <1>2, <1>3

LEMMA CommitSpends ==
    ASSUME TypeOK, SpendInv, NEW p \in Procs, Commit(p)
    PROVE  SpendInv'
<1>. DEFINE b == tx[p]
<1>1. b \in Bundles /\ db \in Stores /\ BundlePays(b)
  BY DEF Commit, TypeOK, SpendInv
<1>2. /\ db'.budget = SaveBudget(db.budget, b.budget)
      /\ db'.audit = Append(db.audit, b.entry)
  BY DEF Commit, Apply
<1>3. /\ db.budget \in Accountants \cup {NoBudget}
      /\ b.budget \in BudgetWrites \cup {Nothing}
      /\ db.audit \in Seq(Entries) /\ b.entry \in Entries
  BY <1>1 DEF Stores, Bundles
<1>4. db'.budget # NoBudget => BudgetSound(db'.budget)
  BY <1>1, <1>2, <1>3, SaveBudgetSpends DEF SpendInv, WithinBudget, BundlePays
<1>5. ReleasesCharged'
  <2>. SUFFICES ASSUME NEW i \in DOMAIN db'.audit, IsRelease(db'.audit[i])
                PROVE  /\ db'.budget # NoBudget
                       /\ \E x \in db'.budget.events : x.id = db'.audit[i].id
    BY DEF ReleasesCharged, Released
  <2>1. \/ i \in DOMAIN db.audit /\ db'.audit[i] = db.audit[i]
        \/ db'.audit[i] = b.entry
    BY <1>2, <1>3
  <2>2. CASE i \in DOMAIN db.audit /\ db'.audit[i] = db.audit[i]
    <3>1. db.budget # NoBudget /\ \E x \in db.budget.events : x.id = db.audit[i].id
      BY <2>2 DEF SpendInv, ReleasesCharged, Released
    <3>. QED
      BY <1>2, <1>3, <2>2, <3>1, SaveBudgetSpends
  <2>3. CASE db'.audit[i] = b.entry
    <3>. PICK x \in b.budget.data.events : x.id = b.entry.id
      BY <1>1, <2>3 DEF BundlePays
    <3>1. b.budget # Nothing
      BY <1>1, <2>3 DEF BundlePays
    <3>2. /\ SaveBudget(db.budget, b.budget) # NoBudget
          /\ \E y \in SaveBudget(db.budget, b.budget).events : y.id = x.id
      BY <1>3, <3>1, SaveBudgetSpends
    <3>. QED
      BY <1>2, <2>3, <3>2
  <2>. QED
    BY <2>1, <2>2, <2>3
<1>6. \A q \in Procs : pc'[q] = "commit" => pc[q] = "commit" /\ tx'[q] = tx[q]
  BY DEF Commit, TypeOK
<1>. QED
  BY <1>4, <1>5, <1>6 DEF SpendInv, WithinBudget, BundlePays, Commit

\* A step that commits nothing: it is enough that what it puts in memory, in
\* a bundle or in a load is sound.
LEMMA QuietSpends ==
    ASSUME SpendInv, db' = db,
           \A q \in Procs : mem'[q] = mem[q] \/ BudgetSound(mem'[q].acc),
           \A q \in Procs : pc'[q] = "commit" =>
               \/ pc[q] = "commit" /\ tx'[q] = tx[q]
               \/ BundlePays(tx'[q]),
           \A q \in Procs : \/ scan'[q] = scan[q]
                            \/ scan'[q].state.budget = NoBudget
                            \/ BudgetSound(scan'[q].state.budget)
    PROVE  SpendInv'
<1>1. ReleasesCharged'
  BY DEF SpendInv, ReleasesCharged, Released
<1>2. WithinBudget'
  BY DEF SpendInv, WithinBudget, BudgetSound
<1>3. \A q \in Procs : pc'[q] = "commit" => BundlePays(tx'[q])
  BY DEF SpendInv, BundlePays
<1>4. \A q \in Procs : scan'[q].state.budget # NoBudget => BudgetSound(scan'[q].state.budget)
  BY DEF SpendInv, BudgetSound
<1>. QED
  BY <1>1, <1>2, <1>3, <1>4 DEF SpendInv, BundlePays

LEMMA PreparesSpends ==
    ASSUME TypeOK, SpendInv, NEW p \in Procs, Prepares(p)
    PROVE  SpendInv'
<1>. PICK m \in Memories, b \in Bundles :
         Begin(p) /\ Submit(p, m, b) /\ Prepared(mem[p], m, b)
  BY DEF Prepares
<1>1. BudgetSound(m.acc)
  BY DEF SpendInv, WithinBudget, Prepared
<1>2. mem'[p].acc = m.acc /\ \A q \in Procs : q # p => mem'[q] = mem[q]
  BY DEF Submit, TypeOK, Memories
<1>3. BundlePays(b)
  BY <1>1 DEF Prepared, BundlePays
<1>4. \A q \in Procs : pc'[q] = "commit" =>
          \/ pc[q] = "commit" /\ tx'[q] = tx[q]
          \/ BundlePays(tx'[q])
  <2>1. tx'[p] = b /\ \A q \in Procs : q # p => pc'[q] = pc[q] /\ tx'[q] = tx[q]
    BY DEF Submit, TypeOK
  <2>. QED
    BY <1>3, <2>1
<1>5. \A q \in Procs : mem'[q] = mem[q] \/ BudgetSound(mem'[q].acc)
  BY <1>1, <1>2
<1>6. db' = db /\ scan' = scan
  BY DEF Submit
<1>. QED
  BY <1>4, <1>5, <1>6, QuietSpends

LEMMA RaisesSpends ==
    ASSUME TypeOK, SpendInv, NEW p \in Procs, Raises(p)
    PROVE  SpendInv'
<1>. PICK m \in Memories : Begin(p) /\ Abort(p, m) /\ Raised(mem[p], m)
  BY DEF Raises
<1>1. BudgetSound(m.acc)
  BY DEF SpendInv, WithinBudget, Raised
<1>2. \A q \in Procs : mem'[q] = mem[q] \/ BudgetSound(mem'[q].acc)
  BY <1>1 DEF Abort, TypeOK
<1>3. db' = db /\ scan' = scan /\ pc' = pc /\ tx' = tx
  BY DEF Abort
<1>. QED
  BY <1>2, <1>3, QuietSpends

LEMMA RecoverySpends ==
    ASSUME TypeOK, SpendInv, NEW p \in Procs, Recovery(p)
    PROVE  SpendInv'
<1>. DEFINE s == scan[p].state
<1>1. s.budget # NoBudget => BudgetSound(s.budget)
  BY DEF SpendInv
<1>2. /\ BudgetSound(LiveObjects(SeedLimit).acc)
      /\ BudgetSound(LiveObjects(DefaultLimit).acc)
  BY PlatformAssumption, NewAccountantType DEF LiveObjects
<1>3. CASE ReadTable(p)
  <2>1. scan'[p].state.budget = s.budget \/ scan'[p].state.budget = db.budget
    BY <1>3 DEF ReadTable, ReadFrom, TypeOK
  <2>2. \A q \in Procs : q # p => scan'[q] = scan[q]
    BY <1>3 DEF ReadTable, TypeOK
  <2>3. db.budget # NoBudget => BudgetSound(db.budget)
    BY DEF SpendInv, WithinBudget
  <2>4. \A q \in Procs : \/ scan'[q] = scan[q]
                         \/ scan'[q].state.budget = NoBudget
                         \/ BudgetSound(scan'[q].state.budget)
    BY <1>1, <2>1, <2>2, <2>3
  <2>5. db' = db /\ mem' = mem /\ pc' = pc /\ tx' = tx
    BY <1>3 DEF ReadTable
  <2>. QED
    BY <2>4, <2>5, QuietSpends
<1>4. ASSUME NEW m, NEW status, Loaded(p, status, m), BudgetSound(m.acc),
             \A q \in Procs : pc'[q] = "commit" => pc[q] = "commit"
      PROVE  SpendInv'
  <2>1. \A q \in Procs : mem'[q] = mem[q] \/ BudgetSound(mem'[q].acc)
    BY <1>4 DEF Loaded, TypeOK
  <2>2. \A q \in Procs : scan'[q] = scan[q] \/ scan'[q].state.budget = NoBudget
    BY <1>4 DEF Loaded, TypeOK, NothingRead, EmptyStore
  <2>3. db' = db /\ tx' = tx
    BY <1>4 DEF Loaded
  <2>. QED
    BY <1>4, <2>1, <2>2, <2>3, QuietSpends
<1>5. \A q \in Procs : BudgetSound(mem[q].acc)
  BY DEF SpendInv, WithinBudget
<1>6. CASE Started(p)
  <2>1. BudgetSound(Restored(LiveObjects(SeedLimit), s).acc)
    BY <1>1, <1>2 DEF Restored
  <2>2. \A q \in Procs : pc'[q] = "commit" => pc[q] = "commit"
    BY <1>6 DEF Started, TypeOK
  <2>. QED
    BY <1>2, <1>4, <1>6, <2>1, <2>2 DEF Started
<1>7. CASE Reconverged(p)
  <2>1. BudgetSound(Restored(mem[p], s).acc)
    BY <1>1, <1>5 DEF Restored
  <2>2. \A q \in Procs : pc'[q] = "commit" => pc[q] = "commit"
    BY <1>7 DEF Reconverged, TypeOK
  <2>. QED
    BY <1>2, <1>4, <1>7, <2>1, <2>2 DEF Reconverged
<1>. QED
  BY <1>3, <1>6, <1>7 DEF Recovery

LEMMA OutcomeSpends ==
    ASSUME TypeOK, SpendInv, NEW p \in Procs,
           \/ Conflict(p) \/ CommitFails(p) \/ ReloadFails(p) \/ Crash(p) \/ Start(p)
    PROVE  SpendInv'
<1>1. BudgetSound(LiveObjects(SeedLimit).acc)
  BY PlatformAssumption, NewAccountantType DEF LiveObjects
<1>2. db' = db
  BY DEF Conflict, CommitFails, Reload, ReloadFails, Crash, Start
<1>3. \A q \in Procs : mem'[q] = mem[q] \/ BudgetSound(mem'[q].acc)
  BY <1>1 DEF Conflict, CommitFails, Reload, ReloadFails, Crash, Start, TypeOK
<1>4. \A q \in Procs : pc'[q] = "commit" => pc[q] = "commit" /\ tx'[q] = tx[q]
  BY DEF Conflict, CommitFails, Reload, ReloadFails, Crash, Start, TypeOK
<1>5. \A q \in Procs : scan'[q] = scan[q] \/ scan'[q].state.budget = NoBudget
  BY DEF Conflict, CommitFails, Reload, ReloadFails, Crash, Start, TypeOK,
         NothingRead, EmptyStore
<1>. QED
  BY <1>2, <1>3, <1>4, <1>5, QuietSpends

LEMMA InitSpends == Init => SpendInv
<1>1. BudgetSound(LiveObjects(SeedLimit).acc)
  BY PlatformAssumption, NewAccountantType DEF LiveObjects
<1>. QED
  BY <1>1 DEF Init, SpendInv, ReleasesCharged, Released, WithinBudget, EmptyStore, NothingRead

LEMMA NextSpends == TypeOK /\ SpendInv /\ [Next]_vars => SpendInv'
<1>. SUFFICES ASSUME TypeOK, SpendInv, [Next]_vars PROVE SpendInv'
  OBVIOUS
<1>1. CASE \E p \in Procs : Operation(p)
  BY <1>1, OperationKinds, PreparesSpends, RaisesSpends
<1>2. CASE \E p \in Procs : Recovery(p)
  BY <1>2, RecoverySpends
<1>3. CASE \E p \in Procs : Commit(p)
  BY <1>3, CommitSpends
<1>4. CASE \E p \in Procs : \/ Conflict(p) \/ CommitFails(p) \/ ReloadFails(p)
                            \/ Crash(p) \/ Start(p)
  BY <1>4, OutcomeSpends
<1>5. CASE UNCHANGED vars
  BY <1>5, QuietSpends DEF vars
<1>. QED
  BY <1>1, <1>2, <1>3, <1>4, <1>5 DEF Next, Quiescent

LEMMA SpendIsInvariant == Spec => []SpendInv
<1>1. Init => TypeOK /\ SpendInv
  BY InitType, InitSpends
<1>2. TypeOK /\ SpendInv /\ [Next]_vars => TypeOK' /\ SpendInv'
  BY NextType, NextSpends
<1>. QED
  BY <1>1, <1>2, PTL DEF Spec

\* Every release in the stored log has its charge in the stored ledger, under
\* any interleaving of processes, crashes and loads that see the store change
\* (save_budget and append_audit commit together).
THEOREM EveryReleaseIsCharged == Spec => []ReleasesCharged
<1>1. SpendInv => ReleasesCharged
  BY DEF SpendInv
<1>. QED
  BY <1>1, SpendIsInvariant, PTL

\* No accountant, stored or in memory, is ever over its limit in both
\* composition regimes, nor over its delta in any
\* (charge() decides before it adds).
THEOREM BudgetsHold == Spec => []WithinBudget
<1>1. SpendInv => WithinBudget
  BY DEF SpendInv
<1>. QED
  BY <1>1, SpendIsInvariant, PTL

-----------------------------------------------------------------------------
(* The ledgers.  An event is stored under its own id: the accountants hold *)
(* ids that have been drawn, each once, and the id a process is about to   *)
(* store is in no accountant but its own.                                  *)

Kept(row, n) ==
    row # NoBudget =>
        /\ IsFiniteSet(row.events)
        /\ \A x \in row.events : x.id <= n
        /\ \A x, y \in row.events : x.id = y.id => x = y

Lacks(row, id) == row # NoBudget => \A x \in row.events : x.id # id

\* The charge that a bundle hands to the store, on the spend it expects there.
Pays(acc, b) ==
    /\ b.budget = Nothing => ~IsRelease(b.entry)
    /\ b.budget # Nothing =>
           /\ IsRelease(b.entry)
           /\ b.budget.data = acc
           /\ \E x \in acc.events :
                  /\ x.id = b.entry.id /\ x.cost.eps = b.entry.eps
                  /\ acc.spent = Plus(b.budget.expect, x.cost)

LedgerInv ==
    /\ Kept(db.budget, nonce)
    /\ \A q \in Procs : Kept(mem[q].acc, nonce) /\ Kept(scan[q].state.budget, nonce)
    /\ \A p \in Procs : pc[p] = "commit" =>
           /\ Pays(mem[p].acc, tx[p])
           /\ Lacks(db.budget, tx[p].entry.id)
           /\ \A q \in Procs :
                  /\ Lacks(scan[q].state.budget, tx[p].entry.id)
                  /\ q # p => Lacks(mem[q].acc, tx[p].entry.id)

\* The accountants, for what the proofs say of each place they are kept in.
LEMMA LedgerTypes ==
    ASSUME TypeOK
    PROVE  /\ nonce \in Nat
           /\ db.budget \in Accountants \cup {NoBudget}
           /\ \A p \in Procs :
                  /\ mem[p].acc \in Accountants
                  /\ scan[p].state.budget \in Accountants \cup {NoBudget}
                  /\ pc[p] = "commit" => tx[p].budget \in BudgetWrites \cup {Nothing}
           /\ \A write \in BudgetWrites : write.data \in Accountants
           /\ \A acc \in Accountants : acc.events \subseteq Events
           /\ \A x \in Events : x.id \in Nat
<1>1. db \in Stores /\ \A p \in Procs : mem[p] \in Memories /\ scan[p].state \in Stores
  BY DEF TypeOK
<1>2. \A p \in Procs : pc[p] = "commit" => tx[p] \in Bundles
  BY DEF TypeOK
<1>3. /\ \A d \in Stores : d.budget \in Accountants \cup {NoBudget}
      /\ \A m \in Memories : m.acc \in Accountants
      /\ \A b \in Bundles : b.budget \in BudgetWrites \cup {Nothing}
  BY DEF Stores, Memories, Bundles
<1>4. /\ \A write \in BudgetWrites : write.data \in Accountants
      /\ \A acc \in Accountants : acc.events \subseteq Events
      /\ \A x \in Events : x.id \in Nat
  BY DEF BudgetWrites, Accountants, Events
<1>5. nonce \in Nat
  BY PlatformAssumption DEF TypeOK
<1>. QED
  BY <1>1, <1>2, <1>3, <1>4, <1>5

\* save_budget stores no event that neither the row nor the bundle had.
LEMMA SavedEvents ==
    ASSUME NEW old \in Accountants \cup {NoBudget},
           NEW write \in BudgetWrites \cup {Nothing}
    PROVE  LET new == SaveBudget(old, write)
           IN  /\ write = Nothing => new = old
               /\ write # Nothing =>
                      /\ new.limit = write.data.limit /\ new.spent = write.data.spent
                      /\ new.rdp = write.data.rdp /\ new.complete = write.data.complete
                      /\ old = NoBudget => new.events = write.data.events
                      /\ old # NoBudget =>
                             new.events = MergeEvents(old.events, write.data.events)
<1>1. CASE write = Nothing
  BY <1>1 DEF SaveBudget
<1>2. CASE write # Nothing /\ old = NoBudget
  BY <1>2 DEF SaveBudget
<1>3. CASE write # Nothing /\ old # NoBudget
  <2>. DEFINE merged == MergeEvents(old.events, write.data.events)
  <2>1. write.data \in Accountants
    BY <1>3 DEF BudgetWrites
  <2>2. SaveBudget(old, write) = [write.data EXCEPT !.events = merged]
    BY <1>3, <2>1 DEF SaveBudget, Accountants
  <2>. HIDE DEF merged
  <2>3. /\ SaveBudget(old, write).events = merged
        /\ SaveBudget(old, write).limit = write.data.limit
        /\ SaveBudget(old, write).spent = write.data.spent
        /\ SaveBudget(old, write).rdp = write.data.rdp
        /\ SaveBudget(old, write).complete = write.data.complete
    BY <2>1, <2>2 DEF Accountants
  <2>. QED
    BY <1>3, <2>3 DEF merged
<1>. QED
  BY <1>1, <1>2, <1>3

\* What a recovery puts into memory and into its load.
LEMMA RecoveryLoads ==
    ASSUME TypeOK, NEW p \in Procs, Recovery(p)
    PROVE  /\ db' = db /\ tx' = tx /\ nonce' = nonce
           /\ \A q \in Procs : q # p =>
                  mem'[q] = mem[q] /\ scan'[q] = scan[q] /\ pc'[q] = pc[q]
           /\ \/ /\ mem' = mem /\ pc' = pc
                 /\ scan'[p].state.budget \in {scan[p].state.budget, db.budget}
              \/ /\ scan[p].read = TableCount
                 /\ pc'[p] \in {"idle", "down"} /\ scan'[p] = NothingRead
                 /\ \/ mem'[p] = LiveObjects(SeedLimit)
                    \/ mem'[p] = LiveObjects(DefaultLimit)
                    \/ mem'[p] = Restored(LiveObjects(SeedLimit), scan[p].state)
                    \/ mem'[p] = Restored(mem[p], scan[p].state)
<1>1. CASE ReadTable(p)
  <2>1. scan'[p].state.budget \in {scan[p].state.budget, db.budget}
    BY <1>1 DEF ReadTable, ReadFrom, TypeOK
  <2>. QED
    BY <1>1, <2>1 DEF ReadTable, TypeOK
<1>2. CASE Started(p) \/ Reconverged(p)
  <2>1. /\ db' = db /\ tx' = tx /\ nonce' = nonce /\ scan[p].read = TableCount
        /\ \A q \in Procs : q # p =>
               mem'[q] = mem[q] /\ scan'[q] = scan[q] /\ pc'[q] = pc[q]
        /\ pc'[p] \in {"idle", "down"} /\ scan'[p] = NothingRead
    BY <1>2 DEF Started, Reconverged, Loaded, TypeOK
  <2>2. CASE Started(p)
    <3>1. \/ mem'[p] = LiveObjects(SeedLimit)
          \/ mem'[p] = Restored(LiveObjects(SeedLimit), scan[p].state)
      BY <2>2 DEF Started, Loaded, TypeOK
    <3>. QED
      BY <2>1, <3>1
  <2>3. CASE Reconverged(p)
    <3>1. \/ mem'[p] = LiveObjects(DefaultLimit)
          \/ mem'[p] = Restored(mem[p], scan[p].state)
      BY <2>3 DEF Reconverged, Loaded, TypeOK
    <3>. QED
      BY <2>1, <3>1
  <2>. QED
    BY <1>2, <2>2, <2>3
<1>. QED
  BY <1>1, <1>2 DEF Recovery

\* What the remaining steps leave alone.
LEMMA OutcomeLeaves ==
    ASSUME TypeOK, NEW p \in Procs,
           \/ Conflict(p) \/ CommitFails(p) \/ ReloadFails(p) \/ Crash(p) \/ Start(p)
    PROVE  /\ db' = db /\ nonce' = nonce
           /\ \A q \in Procs : q # p => /\ scan'[q] = scan[q] /\ mem'[q] = mem[q]
                                        /\ pc'[q] = pc[q] /\ tx'[q] = tx[q]
           /\ pc'[p] # "commit"
           /\ pc'[p] = "idle" => pc[p] = "reconverging" /\ mem' = mem
           /\ mem'[p] \in {mem[p], LiveObjects(SeedLimit)}
           /\ scan'[p] \in {scan[p], NothingRead}
  BY DEF Start, Conflict, CommitFails, Reload, ReloadFails, Crash, TypeOK

LEMMA NewIsKept ==
    ASSUME NEW limit, NEW n, NEW id
    PROVE  Kept(NewAccountant(limit), n) /\ Lacks(NewAccountant(limit), id)
  BY FS_EmptySet DEF Kept, Lacks, NewAccountant

LEMMA NoneIsKept == \A n : Kept(NoBudget, n) /\ Lacks(NoBudget, n)
  BY DEF Kept, Lacks

\* A drawn id is new to what held only earlier ones.
LEMMA KeptLacksNext ==
    ASSUME NEW row \in Accountants \cup {NoBudget}, NEW n \in Nat, Kept(row, n)
    PROVE  Kept(row, n + 1) /\ Lacks(row, n + 1)
<1>. SUFFICES ASSUME row # NoBudget
              PROVE  /\ \A x \in row.events : x.id <= n + 1 /\ x.id # n + 1
  BY DEF Kept, Lacks
<1>1. \A x \in row.events : x.id \in Nat /\ x.id <= n
  BY DEF Kept, Accountants, Events
<1>. QED
  BY <1>1

LEMMA ChargeIsKept ==
    ASSUME NEW acc \in Accountants, nonce \in Nat, Kept(acc, nonce),
           NEW cost \in Amounts, NEW rdp,
           NEW new, new = Charged(acc, Id, cost, rdp)
    PROVE  /\ Kept(new, Id)
           /\ \A id : id # Id /\ Lacks(acc, id) => Lacks(new, id)
           /\ new.spent = Plus(acc.spent, cost)
           /\ \E x \in new.events : x.id = Id /\ x.cost = cost
<1>. DEFINE x == [id |-> Id, cost |-> cost, tracked |-> rdp # NoRdp]
<1>1. /\ new.events = acc.events \cup {x} /\ new.spent = Plus(acc.spent, cost)
      /\ x.id = Id /\ x.cost = cost
  BY DEF Charged
<1>. HIDE DEF x
<1>2. acc # NoBudget
  BY StoreAssumption
<1>3. Id \in Nat /\ \A y \in acc.events : y.id \in Nat /\ y.id <= nonce
  BY <1>2 DEF Kept, Accountants, Events, Id
<1>4. \A y \in new.events : y.id <= Id
  BY <1>1, <1>3 DEF Id
<1>5. \A y, z \in new.events : y.id = z.id => y = z
  <2>1. \A y \in acc.events : y.id # Id
    BY <1>3 DEF Id
  <2>. QED
    BY <1>1, <1>2, <2>1 DEF Kept
<1>6. IsFiniteSet(new.events)
  BY <1>1, <1>2, FS_AddElement DEF Kept
<1>7. \A id : id # Id /\ Lacks(acc, id) => Lacks(new, id)
  BY <1>1, <1>2 DEF Lacks
<1>. QED
  BY <1>1, <1>4, <1>5, <1>6, <1>7 DEF Kept

\* What save_budget makes of two ledgers is one.
LEMMA SavedIsKept ==
    ASSUME NEW old \in Accountants \cup {NoBudget},
           NEW write \in BudgetWrites \cup {Nothing}, NEW n,
           Kept(old, n), write # Nothing => Kept(write.data, n)
    PROVE  /\ Kept(SaveBudget(old, write), n)
           /\ \A id : Lacks(old, id) /\ (write # Nothing => Lacks(write.data, id))
                          => Lacks(SaveBudget(old, write), id)
<1>. DEFINE new == SaveBudget(old, write)
<1>1. CASE write = Nothing
  BY <1>1 DEF SaveBudget
<1>2. CASE write # Nothing /\ old = NoBudget
  BY <1>2 DEF SaveBudget
<1>3. CASE write # Nothing /\ old # NoBudget
  <2>. DEFINE data == write.data
  <2>1. /\ new.events = MergeEvents(old.events, data.events)
        /\ data # NoBudget
    BY <1>3, SavedEvents, StoreAssumption DEF BudgetWrites
  <2>2. \A x \in new.events :
            x \in old.events \/ (x \in data.events /\ \A y \in old.events : y.id # x.id)
    BY <2>1 DEF MergeEvents
  <2>3. IsFiniteSet(new.events)
    <3>1. IsFiniteSet(old.events \cup data.events)
      BY <1>3, <2>1, FS_Union DEF Kept
    <3>2. new.events \in SUBSET (old.events \cup data.events)
      BY <2>2
    <3>. QED
      BY <3>1, <3>2, FS_Subset
  <2>. HIDE DEF new, data
  <2>4. /\ \A x \in new.events : x.id <= n
        /\ \A x, y \in new.events : x.id = y.id => x = y
    BY <1>3, <2>1, <2>2 DEF Kept, data
  <2>5. \A id : Lacks(old, id) /\ Lacks(data, id) => Lacks(new, id)
    BY <1>3, <2>1, <2>2 DEF Lacks
  <2>. QED
    BY <1>3, <2>3, <2>4, <2>5 DEF Kept, new, data
<1>. QED
  BY <1>1, <1>2, <1>3

\* An event that is new to the log adds its cost to what the log accounts for.
LEMMA LedgerGrows ==
    ASSUME NEW events \in SUBSET Events, IsFiniteSet(events),
           NEW x \in Events, x \notin events
    PROVE  LedgerSpend(events \cup {x}) = Plus(LedgerSpend(events), x.cost)
<1>. DEFINE eps(S)   == [y \in S |-> y.cost.eps]
            delta(S) == [y \in S |-> y.cost.delta]
            all      == events \cup {x}
<1>1. \A y \in all : y.cost.eps \in Nat /\ y.cost.delta \in Nat
  BY DEF Events, Amounts
<1>2. SumFunction(eps(all)) = x.cost.eps + SumFunction(eps(events))
  <2>1. /\ DOMAIN eps(events) = events /\ DOMAIN eps(all) = all
        /\ \A y \in events : eps(all)[y] = eps(events)[y]
        /\ eps(all)[x] = x.cost.eps
        /\ Whole(eps(all), all)
    BY <1>1 DEF Whole
  <2>. HIDE DEF eps
  <2>. QED
    BY <2>1, SumGrows
<1>3. SumFunction(delta(all)) = x.cost.delta + SumFunction(delta(events))
  <2>1. /\ DOMAIN delta(events) = events /\ DOMAIN delta(all) = all
        /\ \A y \in events : delta(all)[y] = delta(events)[y]
        /\ delta(all)[x] = x.cost.delta
        /\ Whole(delta(all), all)
    BY <1>1 DEF Whole
  <2>. HIDE DEF delta
  <2>. QED
    BY <2>1, SumGrows
<1>4. SumFunction(eps(events)) \in Nat /\ SumFunction(delta(events)) \in Nat
  <2>1. /\ DOMAIN eps(events) = events /\ DOMAIN delta(events) = events
        /\ \A y \in events : eps(events)[y] \in Nat /\ delta(events)[y] \in Nat
    BY <1>1
  <2>. HIDE DEF eps, delta
  <2>. QED
    BY <2>1, SumIsNat DEF SumFunction
<1>5. /\ LedgerSpend(all) = [eps |-> SumFunction(eps(all)), delta |-> SumFunction(delta(all))]
      /\ LedgerSpend(events) =
             [eps |-> SumFunction(eps(events)), delta |-> SumFunction(delta(events))]
  BY DEF LedgerSpend
<1>6. x.cost.eps \in Nat /\ x.cost.delta \in Nat
  BY DEF Events, Amounts
<1>. HIDE DEF eps, delta, all
<1>7. /\ SumFunction(eps(all)) = SumFunction(eps(events)) + x.cost.eps
      /\ SumFunction(delta(all)) = SumFunction(delta(events)) + x.cost.delta
  BY <1>2, <1>3, <1>4, <1>6
<1>8. LedgerSpend(all) = Plus(LedgerSpend(events), x.cost)
  BY <1>5, <1>7 DEF Plus
<1>. QED
  BY <1>8 DEF all

\* An empty log accounts for nothing.
LEMMA EmptyLedger == LedgerSpend({}) = NoSpend
<1>1. \A f : DOMAIN f = {} => SumFunction(f) = 0
  BY SumOfNothing DEF SumFunction
<1>. QED
  BY <1>1 DEF LedgerSpend, NoSpend

\* A step that neither charges nor commits: accountants are copied or new.
Copies ==
    /\ db' = db /\ nonce' = nonce
    /\ \A q \in Procs :
           /\ \/ mem'[q].acc = mem[q].acc
              \/ mem'[q].acc = scan[q].state.budget
              \/ \E limit \in Amounts : mem'[q].acc = NewAccountant(limit)
           /\ scan'[q].state.budget \in {scan[q].state.budget, db.budget, NoBudget}
           /\ pc'[q] = "commit" => /\ pc[q] = "commit" /\ tx'[q] = tx[q]
                                   /\ mem'[q].acc = mem[q].acc

LEMMA RecoveryCopies ==
    ASSUME TypeOK, NEW p \in Procs, Recovery(p)
    PROVE  Copies
<1>. DEFINE s == scan[p].state
<1>1. /\ LiveObjects(SeedLimit).acc = NewAccountant(SeedLimit)
      /\ LiveObjects(DefaultLimit).acc = NewAccountant(DefaultLimit)
      /\ SeedLimit \in Amounts /\ DefaultLimit \in Amounts
  BY PlatformAssumption DEF LiveObjects
<1>2. \A m : Restored(m, s).acc \in {m.acc, s.budget}
  BY DEF Restored
<1>3. NothingRead.state.budget = NoBudget
  BY DEF NothingRead, EmptyStore
<1>4. \/ mem'[p].acc = mem[p].acc
      \/ mem'[p].acc = s.budget
      \/ \E limit \in Amounts : mem'[p].acc = NewAccountant(limit)
  BY <1>1, <1>2, RecoveryLoads
<1>5. scan'[p].state.budget \in {s.budget, db.budget, NoBudget}
  BY <1>3, RecoveryLoads
<1>6. pc'[p] = "commit" => FALSE
  BY RecoveryLoads DEF Recovery, ReadTable, Started, Reconverged, Loaded
<1>7. /\ db' = db /\ nonce' = nonce /\ tx' = tx
      /\ \A q \in Procs : q # p => mem'[q] = mem[q] /\ scan'[q] = scan[q] /\ pc'[q] = pc[q]
  BY RecoveryLoads
<1>. QED
  BY <1>4, <1>5, <1>6, <1>7 DEF Copies

LEMMA OutcomeCopies ==
    ASSUME TypeOK, NEW p \in Procs,
           \/ Conflict(p) \/ CommitFails(p) \/ ReloadFails(p) \/ Crash(p) \/ Start(p)
    PROVE  Copies
<1>1. /\ LiveObjects(SeedLimit).acc = NewAccountant(SeedLimit) /\ SeedLimit \in Amounts
      /\ NothingRead.state.budget = NoBudget
  BY PlatformAssumption DEF LiveObjects, NothingRead, EmptyStore
<1>. QED
  BY <1>1, OutcomeLeaves DEF Copies

LEMMA CopiesKeepLedgers ==
    ASSUME TypeOK, LedgerInv, Copies
    PROVE  LedgerInv'
<1>1. Kept(db'.budget, nonce')
  BY DEF LedgerInv, Copies
<1>2. \A q \in Procs : Kept(mem'[q].acc, nonce') /\ Kept(scan'[q].state.budget, nonce')
  BY NewIsKept, NoneIsKept DEF LedgerInv, Copies
<1>3. ASSUME NEW p \in Procs, pc'[p] = "commit"
      PROVE  /\ Pays(mem'[p].acc, tx'[p])
             /\ Lacks(db'.budget, tx'[p].entry.id)
             /\ \A q \in Procs :
                    /\ Lacks(scan'[q].state.budget, tx'[p].entry.id)
                    /\ q # p => Lacks(mem'[q].acc, tx'[p].entry.id)
  BY <1>3, NewIsKept, NoneIsKept DEF LedgerInv, Copies
<1>. HIDE DEF Kept, Lacks, Pays
<1>. QED
  BY <1>1, <1>2, <1>3 DEF LedgerInv, Kept, Lacks, Pays

\* An operation charges at most its own accountant, and only once.
LEMMA OperationCharges ==
    ASSUME TypeOK, NEW p \in Procs, Operation(p)
    PROVE  LET old == mem[p].acc
               new == mem'[p].acc
           IN  /\ db' = db /\ scan' = scan /\ nonce' = Id
               /\ \A q \in Procs : q # p =>
                      mem'[q] = mem[q] /\ pc'[q] = pc[q] /\ tx'[q] = tx[q]
               /\ new = old \/ \E eps : ChargedOnce(old, new, eps)
               /\ pc'[p] = "commit" =>
                      /\ ChargedFor(old, new, tx'[p]) /\ tx'[p].entry.id = Id
                      /\ IsRelease(tx'[p].entry) => tx'[p].budget # Nothing
<1>. DEFINE old == mem[p].acc
            new == mem'[p].acc
<1>1. CASE Prepares(p)
  <2>. PICK m \in Memories, b \in Bundles :
           Begin(p) /\ Submit(p, m, b) /\ Prepared(mem[p], m, b)
    BY <1>1 DEF Prepares
  <2>1. new = m.acc /\ tx'[p] = b
    BY DEF Submit, TypeOK, Memories
  <2>2. ChargedFor(old, m.acc, b) /\ b.entry.id = Id
        /\ (IsRelease(b.entry) => b.budget # Nothing)
    BY DEF Prepared
  <2>3. new = old \/ \E eps : ChargedOnce(old, new, eps)
    BY <2>1, <2>2 DEF ChargedFor
  <2>4. /\ db' = db /\ scan' = scan /\ nonce' = Id
        /\ \A q \in Procs : q # p => mem'[q] = mem[q] /\ pc'[q] = pc[q] /\ tx'[q] = tx[q]
    BY DEF Submit, TypeOK
  <2>. QED
    BY <2>1, <2>2, <2>3, <2>4
<1>2. CASE Raises(p)
  <2>. PICK m \in Memories : Begin(p) /\ Abort(p, m) /\ Raised(mem[p], m)
    BY <1>2 DEF Raises
  <2>1. new = m.acc /\ pc'[p] # "commit"
    BY DEF Begin, Abort, TypeOK
  <2>2. m.acc = old \/ \E eps : ChargedOnce(old, m.acc, eps)
    BY DEF Raised
  <2>3. /\ db' = db /\ scan' = scan /\ nonce' = Id
        /\ \A q \in Procs : q # p => mem'[q] = mem[q] /\ pc'[q] = pc[q] /\ tx'[q] = tx[q]
    BY DEF Abort, TypeOK
  <2>. QED
    BY <2>1, <2>2, <2>3
<1>. QED
  BY <1>1, <1>2, OperationKinds

LEMMA OperationKeepsLedgers ==
    ASSUME TypeOK, ChainInv, LedgerInv, NEW p \in Procs, Operation(p)
    PROVE  LedgerInv'
<1>. DEFINE old == mem[p].acc
            new == mem'[p].acc
<1>1. /\ db' = db /\ scan' = scan /\ nonce' = Id
      /\ \A q \in Procs : q # p => mem'[q] = mem[q] /\ pc'[q] = pc[q] /\ tx'[q] = tx[q]
      /\ new = old \/ \E eps : ChargedOnce(old, new, eps)
      /\ pc'[p] = "commit" => /\ ChargedFor(old, new, tx'[p]) /\ tx'[p].entry.id = Id
                              /\ IsRelease(tx'[p].entry) => tx'[p].budget # Nothing
  BY OperationCharges
<1>2. /\ nonce \in Nat /\ Id = nonce + 1
      /\ \A q \in Procs : /\ mem[q].acc \in Accountants
                          /\ scan[q].state.budget \in Accountants \cup {NoBudget}
      /\ db.budget \in Accountants \cup {NoBudget}
  BY LedgerTypes DEF Id
<1>3. /\ Kept(db.budget, Id) /\ Lacks(db.budget, Id)
      /\ \A q \in Procs : /\ Kept(mem[q].acc, Id) /\ Lacks(mem[q].acc, Id)
                          /\ Kept(scan[q].state.budget, Id) /\ Lacks(scan[q].state.budget, Id)
  <2>. HIDE DEF Kept, Lacks
  <2>. QED
    BY <1>2, KeptLacksNext DEF LedgerInv
<1>. HIDE DEF old, new
<1>4. /\ Kept(new, Id)
      /\ \A id : id # Id /\ Lacks(old, id) => Lacks(new, id)
  <2>1. CASE new = old
    BY <1>3, <2>1 DEF old
  <2>2. CASE \E eps : ChargedOnce(old, new, eps)
    <3>. PICK cost \in Amounts, rdp \in RdpCosts : new = Charged(old, Id, cost, rdp)
      BY <2>2 DEF ChargedOnce
    <3>1. old \in Accountants /\ Kept(old, nonce)
      BY <1>2 DEF old, LedgerInv
    <3>. QED
      BY <1>2, <3>1, ChargeIsKept
  <2>. QED
    BY <1>1, <2>1, <2>2
<1>5. pc'[p] = "commit" => Pays(new, tx'[p])
  <2>. SUFFICES ASSUME pc'[p] = "commit" PROVE Pays(new, tx'[p])
    OBVIOUS
  <2>. DEFINE b == tx'[p]
  <2>1. /\ ChargedFor(old, new, b) /\ b.entry.id = Id
        /\ IsRelease(b.entry) => b.budget # Nothing
    BY <1>1
  <2>. HIDE DEF b
  <2>2. CASE b.budget = Nothing
    BY <2>1, <2>2 DEF Pays, b
  <2>3. CASE b.budget # Nothing
    <3>1. PICK cost \in Amounts, rdp \in RdpCosts :
              cost.eps = b.entry.eps /\ new = Charged(old, Id, cost, rdp)
      BY <2>1, <2>3 DEF ChargedFor, ChargedOnce
    <3>2. old \in Accountants /\ Kept(old, nonce)
      BY <1>2 DEF old, LedgerInv
    <3>3. /\ new.spent = Plus(old.spent, cost)
          /\ \E x \in new.events : x.id = Id /\ x.cost = cost
      BY <1>2, <3>1, <3>2, ChargeIsKept
    <3>4. IsRelease(b.entry) /\ b.budget.data = new /\ b.budget.expect = old.spent
      BY <2>1, <2>3 DEF ChargedFor, BudgetWrite
    <3>5. Pays(new, b)
      BY <2>1, <2>3, <3>1, <3>3, <3>4 DEF Pays
    <3>. QED
      BY <3>5 DEF b
  <2>. QED
    BY <2>2, <2>3
<1>6. ASSUME NEW q \in Procs, q # p, pc[q] = "commit"
      PROVE  tx[q].entry.id # Id
  <2>1. tx[q] \in Bundles
    BY <1>6 DEF TypeOK
  <2>2. tx[q].entry.id \in Nat /\ tx[q].entry.id <= nonce
    BY <1>6, <2>1, IdsAreNumbers DEF ChainInv
  <2>. QED
    BY <1>2, <2>2
<1>7. Kept(db'.budget, nonce')
  BY <1>1, <1>3
<1>8. \A q \in Procs : Kept(mem'[q].acc, nonce') /\ Kept(scan'[q].state.budget, nonce')
  BY <1>1, <1>3, <1>4 DEF new
<1>9. ASSUME NEW q \in Procs, pc'[q] = "commit"
      PROVE  /\ Pays(mem'[q].acc, tx'[q])
             /\ Lacks(db'.budget, tx'[q].entry.id)
             /\ \A r \in Procs :
                    /\ Lacks(scan'[r].state.budget, tx'[q].entry.id)
                    /\ r # q => Lacks(mem'[r].acc, tx'[q].entry.id)
  <2>1. CASE q = p
    BY <1>1, <1>3, <1>5, <1>9, <2>1 DEF new
  <2>2. CASE q # p
    <3>1. pc[q] = "commit" /\ tx'[q] = tx[q] /\ mem'[q] = mem[q]
      BY <1>1, <1>9, <2>2
    <3>2. Lacks(old, tx[q].entry.id)
      BY <2>2, <3>1 DEF LedgerInv, old
    <3>3. Lacks(new, tx[q].entry.id)
      BY <1>4, <1>6, <2>2, <3>1, <3>2
    <3>. QED
      BY <1>1, <2>2, <3>1, <3>3 DEF LedgerInv, new
  <2>. QED
    BY <2>1, <2>2
<1>. QED
  BY <1>7, <1>8, <1>9 DEF LedgerInv, Kept, Lacks, Pays

LEMMA CommitKeepsLedgers ==
    ASSUME TypeOK, LedgerInv, NEW p \in Procs, Commit(p)
    PROVE  LedgerInv'
<1>. DEFINE write == tx[p].budget
<1>1. /\ mem' = mem /\ scan' = scan /\ nonce' = nonce /\ pc[p] = "commit"
      /\ \A q \in Procs : pc'[q] = "commit" => q # p /\ pc[q] = "commit" /\ tx'[q] = tx[q]
      /\ db'.budget = SaveBudget(db.budget, write)
  BY DEF Commit, Apply, TypeOK
<1>2. /\ db.budget \in Accountants \cup {NoBudget}
      /\ write \in BudgetWrites \cup {Nothing}
  BY <1>1, LedgerTypes
<1>3. /\ Kept(db.budget, nonce)
      /\ write # Nothing => write.data = mem[p].acc /\ Kept(write.data, nonce)
  BY <1>1 DEF LedgerInv, Pays
<1>. HIDE DEF write
<1>4. /\ Kept(db'.budget, nonce)
      /\ \A id : Lacks(db.budget, id) /\ Lacks(mem[p].acc, id) => Lacks(db'.budget, id)
  BY <1>1, <1>2, <1>3, SavedIsKept
<1>5. \A q \in Procs : pc'[q] = "commit" =>
          /\ Pays(mem'[q].acc, tx'[q])
          /\ Lacks(db'.budget, tx'[q].entry.id)
          /\ \A r \in Procs :
                 /\ Lacks(scan'[r].state.budget, tx'[q].entry.id)
                 /\ r # q => Lacks(mem'[r].acc, tx'[q].entry.id)
  BY <1>1, <1>4 DEF LedgerInv
<1>6. \A q \in Procs : Kept(mem'[q].acc, nonce') /\ Kept(scan'[q].state.budget, nonce')
  BY <1>1 DEF LedgerInv
<1>. QED
  BY <1>1, <1>4, <1>5, <1>6 DEF LedgerInv, Kept, Lacks, Pays

LEMMA InitLedgers == Init => LedgerInv
<1>. SUFFICES ASSUME Init PROVE LedgerInv
  OBVIOUS
<1>1. /\ db.budget = NoBudget
      /\ \A q \in Procs : /\ mem[q].acc = NewAccountant(SeedLimit)
                          /\ scan[q].state.budget = NoBudget
                          /\ pc[q] # "commit"
  BY DEF Init, LiveObjects, EmptyStore, NothingRead
<1>. QED
  BY <1>1, NewIsKept, NoneIsKept DEF LedgerInv

LEMMA NextLedgers == TypeOK /\ ChainInv /\ LedgerInv /\ [Next]_vars => LedgerInv'
<1>. SUFFICES ASSUME TypeOK, ChainInv, LedgerInv, [Next]_vars PROVE LedgerInv'
  OBVIOUS
<1>1. CASE \E p \in Procs : Operation(p)
  BY <1>1, OperationKeepsLedgers
<1>2. CASE \E p \in Procs : Recovery(p)
  BY <1>2, RecoveryCopies, CopiesKeepLedgers
<1>3. CASE \E p \in Procs : Commit(p)
  BY <1>3, CommitKeepsLedgers
<1>4. CASE \E p \in Procs : \/ Conflict(p) \/ CommitFails(p) \/ ReloadFails(p)
                            \/ Crash(p) \/ Start(p)
  BY <1>4, OutcomeCopies, CopiesKeepLedgers
<1>5. CASE UNCHANGED vars
  <2>1. Copies
    BY <1>5 DEF vars, Copies
  <2>. QED
    BY <2>1, CopiesKeepLedgers
<1>. QED
  BY <1>1, <1>2, <1>3, <1>4, <1>5 DEF Next, Quiescent

LEMMA LedgerIsInvariant == Spec => [](TypeOK /\ ChainInv /\ SpendInv /\ LedgerInv)
<1>1. Init => TypeOK /\ ChainInv /\ SpendInv /\ LedgerInv
  BY InitType, InitChains, InitSpends, InitLedgers
<1>2. TypeOK /\ ChainInv /\ SpendInv /\ LedgerInv /\ [Next]_vars
          => TypeOK' /\ ChainInv' /\ SpendInv' /\ LedgerInv'
  BY NextType, NextChains, NextSpends, NextLedgers
<1>. QED
  BY <1>1, <1>2, PTL DEF Spec

-----------------------------------------------------------------------------
(* The stored spend covers what is released: a commit adds its charge to   *)
(* the spend it expects, which is the stored one, and its event to events  *)
(* that stay as they are.                                                  *)

EventIn(acc, e) == CHOOSE x \in acc.events : x.id = e.id
Covered(S, acc) ==
    S # {} => /\ SumFunction([e \in S |-> e.eps]) <= acc.spent.eps
              /\ SumFunction([e \in S |-> EventIn(acc, e).cost.delta]) <= acc.spent.delta

LEMMA EventIsUnique ==
    ASSUME NEW acc, acc # NoBudget, NEW n, Kept(acc, n), NEW e,
           NEW x \in acc.events, x.id = e.id
    PROVE  EventIn(acc, e) = x
  BY DEF Kept, EventIn

\* A bound on a sum, one release later.
LEMMA BoundGrows ==
    ASSUME NEW R, IsFiniteSet(R), NEW e, e \notin R,
           NEW f, DOMAIN f = R, NEW g, DOMAIN g = R \cup {e},
           \A r \in R : g[r] = f[r] /\ f[r] \in Nat, g[e] \in Nat,
           NEW bound \in Nat, R # {} => SumFunction(f) <= bound
    PROVE  SumFunction(g) <= bound + g[e]
<1>1. Whole(g, R \cup {e})
  BY DEF Whole
<1>2. SumFunction(g) = g[e] + SumFunction(f)
  BY <1>1, SumGrows
<1>3. SumFunction(f) \in Nat
  BY SumIsNat DEF SumFunction
<1>4. R = {} => SumFunction(f) = 0
  BY SumOfNothing DEF SumFunction
<1>. QED
  BY <1>2, <1>3, <1>4

LEMMA CoverGrows ==
    ASSUME NEW R \in SUBSET Entries, IsFiniteSet(R), NEW e \in Entries, e \notin R,
           NEW old \in Accountants \cup {NoBudget}, NEW new \in Accountants,
           NEW n, Kept(old, n), Kept(new, n), Covered(R, old),
           old # NoBudget => old.events \subseteq new.events,
           \A r \in R : old # NoBudget /\ \E y \in old.events : y.id = r.id,
           NEW x \in new.events, x.id = e.id, x.cost.eps = e.eps,
           NEW expect \in Amounts, new.spent = Plus(expect, x.cost),
           old # NoBudget => old.spent = expect
    PROVE  Covered(R \cup {e}, new)
<1>. DEFINE eps(S)        == [r \in S |-> r.eps]
            delta(S, acc) == [r \in S |-> EventIn(acc, r).cost.delta]
            all           == R \cup {e}
<1>0. new # NoBudget
  BY StoreAssumption
<1>1. ASSUME NEW r \in R
      PROVE  /\ EventIn(new, r) = EventIn(old, r)
             /\ EventIn(old, r).cost.delta \in Nat
  <2>1. PICK y \in old.events : y.id = r.id
    BY <1>1
  <2>2. old # NoBudget /\ y \in new.events
    BY <1>1
  <2>3. EventIn(old, r) = y /\ EventIn(new, r) = y
    BY <1>0, <2>1, <2>2, EventIsUnique
  <2>4. y \in Events
    BY <2>2 DEF Accountants
  <2>. QED
    BY <2>3, <2>4 DEF Events, Amounts
<1>2. /\ EventIn(new, e) = x /\ x \in Events
      /\ x.cost.eps \in Nat /\ x.cost.delta \in Nat
  BY <1>0, EventIsUnique DEF Accountants, Events, Amounts
<1>3. expect.eps \in Nat /\ expect.delta \in Nat /\ \A r \in all : r.eps \in Nat
  BY DEF Amounts, Entries
<1>4. SumFunction(eps(all)) <= expect.eps + x.cost.eps
  <2>1. /\ DOMAIN eps(R) = R /\ DOMAIN eps(all) = all
        /\ \A r \in R : eps(all)[r] = eps(R)[r] /\ eps(R)[r] \in Nat
        /\ eps(all)[e] = x.cost.eps
    BY <1>3
  <2>2. R # {} => SumFunction(eps(R)) <= expect.eps
    BY DEF Covered
  <2>. HIDE DEF eps
  <2>3. SumFunction(eps(all)) <= expect.eps + eps(all)[e]
    BY <1>2, <1>3, <2>1, <2>2, BoundGrows
  <2>. QED
    BY <2>1, <2>3
<1>5. SumFunction(delta(all, new)) <= expect.delta + x.cost.delta
  <2>1. /\ DOMAIN delta(R, old) = R /\ DOMAIN delta(all, new) = all
        /\ \A r \in R : /\ delta(all, new)[r] = delta(R, old)[r]
                        /\ delta(R, old)[r] \in Nat
        /\ delta(all, new)[e] = x.cost.delta
    BY <1>1, <1>2
  <2>2. R # {} => SumFunction(delta(R, old)) <= expect.delta
    BY DEF Covered
  <2>. HIDE DEF delta
  <2>3. SumFunction(delta(all, new)) <= expect.delta + delta(all, new)[e]
    BY <1>2, <1>3, <2>1, <2>2, BoundGrows
  <2>. QED
    BY <2>1, <2>3
<1>6. new.spent.eps = expect.eps + x.cost.eps /\ new.spent.delta = expect.delta + x.cost.delta
  BY DEF Plus
<1>. QED
  BY <1>4, <1>5, <1>6 DEF Covered

CoverInv == IsFiniteSet(Released) /\ SpendCoversReleases

LEMMA CoverIsCovered == SpendCoversReleases <=> Covered(Released, db.budget)
  BY DEF SpendCoversReleases, Covered, EventOf, EventIn

LEMMA CommitReleases ==
    ASSUME TypeOK, NEW p \in Procs, Commit(p)
    PROVE  Released' = IF IsRelease(tx[p].entry) THEN Released \cup {tx[p].entry}
                       ELSE Released
<1>. DEFINE e == tx[p].entry
<1>1. db.audit \in Seq(Entries) /\ e \in Entries /\ db'.audit = Append(db.audit, e)
  BY DEF Commit, Apply, TypeOK, Stores, Bundles
<1>. HIDE DEF e
<1>2. /\ DOMAIN db'.audit = 1..(Len(db.audit) + 1) /\ DOMAIN db.audit = 1..Len(db.audit)
      /\ Len(db.audit) \in Nat
      /\ \A i \in DOMAIN db.audit : db'.audit[i] = db.audit[i]
      /\ db'.audit[Len(db.audit) + 1] = e
  BY <1>1
<1>3. \A r : r \in Released' <=> \E i \in DOMAIN db'.audit : IsRelease(db'.audit[i]) /\ r = db'.audit[i]
  BY DEF Released
<1>4. \A r : r \in Released <=> \E i \in DOMAIN db.audit : IsRelease(db.audit[i]) /\ r = db.audit[i]
  BY DEF Released
<1>5. \A r : r \in Released' <=> r \in Released \/ (IsRelease(e) /\ r = e)
  <2>. TAKE r
  <2>1. ASSUME r \in Released'
        PROVE  r \in Released \/ (IsRelease(e) /\ r = e)
    <3>. PICK i \in DOMAIN db'.audit : IsRelease(db'.audit[i]) /\ r = db'.audit[i]
      BY <1>3, <2>1
    <3>1. i \in DOMAIN db.audit \/ i = Len(db.audit) + 1
      BY <1>2
    <3>. QED
      BY <1>2, <1>4, <3>1
  <2>2. ASSUME r \in Released
        PROVE  r \in Released'
    <3>. PICK i \in DOMAIN db.audit : IsRelease(db.audit[i]) /\ r = db.audit[i]
      BY <1>4, <2>2
    <3>. QED
      BY <1>2, <1>3
  <2>3. ASSUME IsRelease(e)
        PROVE  e \in Released'
    BY <1>2, <1>3, <2>3
  <2>. QED
    BY <2>1, <2>2, <2>3
<1>. QED
  BY <1>5 DEF e

LEMMA CommitCovers ==
    ASSUME TypeOK, ChainInv, SpendInv, LedgerInv, LedgerInv', CoverInv,
           NEW p \in Procs, Commit(p)
    PROVE  CoverInv'
<1>. DEFINE b   == tx[p]
            e   == b.entry
            old == db.budget
            new == db'.budget
<1>1. /\ pc[p] = "commit" /\ new = SaveBudget(old, b.budget)
      /\ b \in Bundles /\ e \in Entries
      /\ old \in Accountants \cup {NoBudget}
      /\ b.budget \in BudgetWrites \cup {Nothing}
  <2>1. pc[p] = "commit" /\ new = SaveBudget(old, b.budget)
    BY DEF Commit, Apply
  <2>2. b \in Bundles
    BY <2>1 DEF TypeOK
  <2>. QED
    BY <2>1, <2>2, LedgerTypes DEF Bundles
<1>2. Pays(mem[p].acc, b) /\ Lacks(old, e.id) /\ Kept(old, nonce) /\ Kept(new, nonce)
  <2>1. nonce' = nonce
    BY DEF Commit
  <2>. QED
    BY <1>1, <2>1 DEF LedgerInv, Kept
<1>3. Covered(Released, old) /\ IsFiniteSet(Released)
  BY CoverIsCovered DEF CoverInv
<1>4. Released' = IF IsRelease(e) THEN Released \cup {e} ELSE Released
  BY CommitReleases
<1>5. IsFiniteSet(Released')
  BY <1>3, <1>4, FS_AddElement
<1>6. CASE ~IsRelease(e)
  <2>1. b.budget = Nothing
    BY <1>2, <1>6 DEF Pays
  <2>2. new = old
    BY <1>1, <2>1 DEF SaveBudget
  <2>3. Covered(Released', new)
    BY <1>3, <1>4, <1>6, <2>2
  <2>. QED
    BY <1>5, <2>3 DEF CoverInv, SpendCoversReleases, Covered, EventOf, EventIn
<1>7. CASE IsRelease(e)
  <2>. DEFINE data == b.budget.data
              expect == b.budget.expect
  <2>1. /\ b.budget # Nothing /\ data = mem[p].acc
        /\ data \in Accountants /\ expect \in Amounts
    BY <1>1, <1>2, <1>7 DEF Pays, BudgetWrites
  <2>2. PICK x \in data.events :
            x.id = e.id /\ x.cost.eps = e.eps /\ data.spent = Plus(expect, x.cost)
    BY <1>2, <2>1 DEF Pays
  <2>3. /\ new.spent = data.spent
        /\ old = NoBudget => new.events = data.events
        /\ old # NoBudget => new.events = MergeEvents(old.events, data.events)
    BY <1>1, <2>1, SavedEvents
  <2>4. x \in new.events /\ (old # NoBudget => old.events \subseteq new.events)
    BY <1>2, <2>2, <2>3 DEF Lacks, MergeEvents
  <2>5. new \in Accountants
    <3>1. new \in Accountants \cup {NoBudget}
      BY <1>1, SaveBudgetType
    <3>2. new # NoBudget
      BY <1>1, <2>1, SaveBudgetSpends
    <3>. QED
      BY <3>1, <3>2
  <2>6. old # NoBudget => old.spent = expect
    BY <2>1 DEF Commit, Fresh, BudgetFresh
  <2>7. \A r \in Released : old # NoBudget /\ \E y \in old.events : y.id = r.id
    BY DEF SpendInv, ReleasesCharged
  <2>8. Released \in SUBSET Entries /\ e \notin Released
    <3>1. db.audit \in Seq(Entries)
      BY DEF TypeOK, Stores
    <3>2. Released \in SUBSET Entries
      BY <3>1 DEF Released
    <3>3. ~Logged(db.audit, e.id)
      BY <1>1 DEF ChainInv
    <3>. QED
      BY <3>2, <3>3 DEF Logged, Released
  <2>. HIDE DEF b, e, old, new, data, expect
  <2>9. new.spent = Plus(expect, x.cost)
    BY <2>2, <2>3
  <2>10. Covered(Released \cup {e}, new)
    BY <1>1, <1>2, <1>3, <2>1, <2>2, <2>4, <2>5, <2>6, <2>7, <2>8, <2>9, CoverGrows
  <2>11. Covered(Released', new)
    BY <1>4, <1>7, <2>10
  <2>. QED
    BY <1>5, <2>11 DEF CoverInv, SpendCoversReleases, Covered, EventOf, EventIn, new
<1>. QED
  BY <1>6, <1>7

LEMMA NextCovers ==
    TypeOK /\ ChainInv /\ SpendInv /\ LedgerInv /\ CoverInv /\ LedgerInv' /\ [Next]_vars
        => CoverInv'
<1>. SUFFICES ASSUME TypeOK, ChainInv, SpendInv, LedgerInv, CoverInv, LedgerInv', [Next]_vars
              PROVE  CoverInv'
  OBVIOUS
<1>1. CASE \E p \in Procs : Commit(p)
  BY <1>1, CommitCovers
<1>2. CASE db' = db
  BY <1>2 DEF CoverInv, SpendCoversReleases, Released, EventOf
<1>3. ASSUME NEW p \in Procs, Operation(p)
      PROVE  db' = db
  BY <1>3, OperationKinds DEF Prepares, Raises, Submit, Abort
<1>4. ASSUME NEW p \in Procs,
             \/ Conflict(p) \/ CommitFails(p) \/ ReloadFails(p) \/ Crash(p) \/ Start(p)
             \/ Recovery(p)
      PROVE  db' = db
  BY <1>4, OutcomeLeaves, RecoveryLoads
<1>. QED
  BY <1>1, <1>2, <1>3, <1>4 DEF Next, Quiescent, vars

\* What processes release together is within what the store has as spent:
\* every release adds its own epsilon and delta to a spend that no other commit
\* has moved since it was read, and no event is lost when the ledgers of
\* concurrent committers are merged (save_budget's expect_spent, _merge_events).
THEOREM SpendCoversWhatIsReleased == Spec => []SpendCoversReleases
<1>1. Init => CoverInv
  <2>. SUFFICES ASSUME Init PROVE CoverInv
    OBVIOUS
  <2>1. db.audit = << >>
    BY DEF Init, EmptyStore
  <2>2. Released = {}
    BY <2>1 DEF Released
  <2>. QED
    BY <2>2, FS_EmptySet DEF CoverInv, SpendCoversReleases
<1>2. CoverInv => SpendCoversReleases
  BY DEF CoverInv
<1>. QED
  BY <1>1, <1>2, NextCovers, LedgerIsInvariant, PTL DEF Spec

-----------------------------------------------------------------------------
(* Previews.                                                               *)

\* preview() and charge() decide alike, each by its own code.
LEMMA PreviewIsAdmits ==
    ASSUME NEW acc \in Accountants, NEW cost \in Amounts, NEW rdp
    PROVE  Preview(acc, cost, rdp).allowed <=> Admits(acc, cost, rdp)
<1>. DEFINE projected == Plus(acc.spent, cost)
            fits      == RdpFits(AddRdp(acc.rdp, rdp), acc.limit)
<1>1. projected.delta \in Nat /\ acc.limit.delta \in Nat
  BY DEF Accountants, Amounts, Plus
<1>. HIDE DEF projected, fits
<1>2. CASE projected.delta > acc.limit.delta
  BY <1>1, <1>2 DEF Preview, Admits, projected, fits
<1>3. CASE ~(projected.delta > acc.limit.delta) /\ rdp # NoRdp /\ acc.complete
  BY <1>1, <1>3 DEF Preview, Admits, projected, fits
<1>4. CASE ~(projected.delta > acc.limit.delta) /\ ~(rdp # NoRdp /\ acc.complete)
  BY <1>1, <1>4 DEF Preview, Admits, projected, fits
<1>. QED
  BY <1>2, <1>3, <1>4

\* What preview() answers of a request is what the request would meet: it is
\* allowed exactly when the gates clear it and the charge it makes, which is
\* of the delta of the request in a round alone, is admitted (preview).
THEOREM PreviewIsTruthful == Spec => []PreviewTellsTruth
<1>1. TypeOK => PreviewTellsTruth
  <2>. SUFFICES ASSUME TypeOK, NEW p \in Procs, NEW k \in Cohorts, NEW metric \in AllowedMetrics,
                       NEW eps \in Epsilons, NEW delta \in Deltas
                PROVE  Previewed(mem[p], k, metric, eps, delta)
                           <=> AdmittedNext(mem[p], k, metric, eps, delta)
    BY DEF PreviewTellsTruth
  <2>. DEFINE acc == mem[p].acc
  <2>1. acc \in Accountants
    BY DEF TypeOK, Memories
  <2>2. /\ RoundCost(eps, delta) \in Amounts
        /\ QueryCost(eps) \in Amounts
    BY PlatformAssumption DEF RoundCost, QueryCost, Amounts
  <2>. HIDE DEF acc
  <2>3. CASE metric = RoundMetric
    <3>1. Preview(acc, RoundCost(eps, delta), GaussianRdp[eps]).allowed
              <=> Admits(acc, RoundCost(eps, delta), GaussianRdp[eps])
      BY <2>1, <2>2, PreviewIsAdmits
    <3>. QED
      BY <2>3, <3>1 DEF Previewed, AdmittedNext, PreviewDelta, PreviewRdp, RoundCost, acc
  <2>4. CASE metric # RoundMetric
    <3>1. Preview(acc, QueryCost(eps), LaplaceRdp[eps]).allowed
              <=> Admits(acc, QueryCost(eps), LaplaceRdp[eps])
      BY <2>1, <2>2, PreviewIsAdmits
    <3>. QED
      BY <2>4, <3>1 DEF Previewed, AdmittedNext, PreviewDelta, PreviewRdp, QueryCost, acc
  <2>. QED
    BY <2>3, <2>4
<1>. QED
  BY <1>1, TypeCorrect, PTL

-----------------------------------------------------------------------------
(* Identities.  An entry in flight is the last of its own process's log    *)
(* and of no other log, read or stored: whoever extends the stored log     *)
(* makes every other process's log outdated.                               *)

OnlyMine(p) ==
    /\ tx[p].entry.id \in 1..nonce
    /\ tx[p].entry.prev <= nonce
    /\ Tip(mem[p].audit) = tx[p].entry.id
    /\ \A q \in Procs :
           /\ Tip(scan[q].state.audit) # tx[p].entry.id
           /\ q # p => Tip(mem[q].audit) # tx[p].entry.id
           /\ q # p /\ pc[q] = "commit" => tx[q].entry.prev # tx[p].entry.id

TipsInv ==
    /\ \A p \in Procs : Tip(mem[p].audit) <= nonce /\ Tip(scan[p].state.audit) <= nonce
    /\ \A p \in Procs : pc[p] = "commit" => OnlyMine(p)
    /\ \A p \in Procs : pc[p] = "reconverging" => Tip(mem[p].audit) # Tip(db.audit)

LEMMA TipAppended ==
    ASSUME NEW log \in Seq(Entries), NEW e \in Entries
    PROVE  Tip(Append(log, e)) = e.id
<1>1. Append(log, e) # <<>> /\ Append(log, e)[Len(Append(log, e))] = e
  OBVIOUS
<1>. QED
  BY <1>1 DEF Tip

\* The stored tip is an id already drawn, and none that is in flight.
LEMMA TipStored ==
    ASSUME TypeOK, ChainInv, TipsInv
    PROVE  /\ Tip(db.audit) \in 0..nonce
           /\ \A p \in Procs : pc[p] = "commit" => tx[p].entry.id # Tip(db.audit)
<1>1. db.audit \in Seq(Entries) /\ nonce \in Nat
  BY PlatformAssumption DEF TypeOK, Stores
<1>2. Tip(db.audit) \in Nat
  BY <1>1, TipType
<1>3. CASE db.audit = <<>>
  BY <1>1, <1>3 DEF Tip, Genesis, TipsInv, OnlyMine
<1>4. CASE db.audit # <<>>
  <2>1. Len(db.audit) \in DOMAIN db.audit
    BY <1>1, <1>4
  <2>. QED
    BY <1>2, <1>1, <1>4, <2>1 DEF Tip, ChainInv, Logged
<1>. QED
  BY <1>3, <1>4

LEMMA TipsAreNumbers ==
    ASSUME TypeOK
    PROVE  /\ nonce \in Nat
           /\ \A q \in Procs : Tip(mem[q].audit) \in Nat /\ Tip(scan[q].state.audit) \in Nat
           /\ \A q \in Procs : pc[q] = "commit" =>
                  /\ tx[q] \in Bundles /\ tx[q].entry \in Entries
                  /\ tx[q].entry.id \in Nat /\ tx[q].entry.prev \in Nat
<1>1. \A q \in Procs : mem[q].audit \in Seq(Entries) /\ scan[q].state.audit \in Seq(Entries)
  BY DEF TypeOK, Memories, Stores
<1>2. \A q \in Procs : pc[q] = "commit" => tx[q] \in Bundles
  BY DEF TypeOK
<1>3. \A b \in Bundles : b.entry \in Entries
  BY DEF Bundles
<1>4. \A e \in Entries : e.id \in Nat /\ e.prev \in Nat
  BY DEF Entries
<1>5. nonce \in Nat
  BY PlatformAssumption DEF TypeOK
<1>. QED
  BY <1>1, <1>2, <1>3, <1>4, <1>5, TipType

LEMMA CommitTips ==
    ASSUME TypeOK, ChainInv, TipsInv, NEW p \in Procs, Commit(p)
    PROVE  TipsInv'
<1>1. /\ mem' = mem /\ scan' = scan /\ nonce' = nonce
      /\ \A q \in Procs : q # p => pc'[q] = pc[q] /\ tx'[q] = tx[q]
      /\ pc[p] = "commit" /\ pc'[p] = "idle"
  BY DEF Commit, TypeOK
<1>2. Tip(db'.audit) = tx[p].entry.id
  <2>1. db.audit \in Seq(Entries) /\ tx[p].entry \in Entries
    BY <1>1, TipsAreNumbers DEF TypeOK, Stores
  <2>2. db'.audit = Append(db.audit, tx[p].entry)
    BY DEF Commit, Apply
  <2>. QED
    BY <2>1, <2>2, TipAppended
<1>3. ASSUME NEW q \in Procs, pc'[q] = "commit"
      PROVE  OnlyMine(q)'
  BY <1>1, <1>3 DEF TipsInv, OnlyMine
<1>4. ASSUME NEW q \in Procs, pc'[q] = "reconverging"
      PROVE  Tip(mem'[q].audit) # Tip(db'.audit)
  BY <1>1, <1>2, <1>4 DEF TipsInv, OnlyMine
<1>5. \A q \in Procs : Tip(mem'[q].audit) <= nonce' /\ Tip(scan'[q].state.audit) <= nonce'
  BY <1>1 DEF TipsInv
<1>. QED
  BY <1>3, <1>4, <1>5 DEF TipsInv

LEMMA PreparesTips ==
    ASSUME TypeOK, ChainInv, TipsInv, NEW p \in Procs, Prepares(p)
    PROVE  TipsInv'
<1>. PICK m \in Memories, b \in Bundles :
         Begin(p) /\ Submit(p, m, b) /\ Prepared(mem[p], m, b)
  BY DEF Prepares
<1>1. /\ db' = db /\ scan' = scan /\ nonce' = nonce + 1
      /\ \A q \in Procs : q # p => pc'[q] = pc[q] /\ tx'[q] = tx[q] /\ mem'[q] = mem[q]
      /\ pc[p] = "idle" /\ pc'[p] = "commit" /\ tx'[p] = b
      /\ b.entry.id = nonce + 1 /\ b.entry.prev = Tip(mem[p].audit)
  BY DEF Submit, Begin, Prepared, Id, TypeOK
<1>2. Tip(mem'[p].audit) = nonce + 1
  <2>1. m.audit \in Seq(Entries) /\ b.entry \in Entries
    BY DEF Memories, Bundles
  <2>2. mem'[p].audit = Append(m.audit, b.entry)
    BY DEF Submit, TypeOK, Memories
  <2>. QED
    BY <1>1, <2>1, <2>2, TipAppended
<1>3. /\ nonce \in Nat
      /\ \A q \in Procs : Tip(mem[q].audit) \in 0..nonce /\ Tip(scan[q].state.audit) \in 0..nonce
  BY TipsAreNumbers DEF TipsInv
<1>4. \A q \in Procs : Tip(mem'[q].audit) <= nonce' /\ Tip(scan'[q].state.audit) <= nonce'
  BY <1>1, <1>2, <1>3
<1>5. OnlyMine(p)'
  <2>1. \A q \in Procs : q # p /\ pc'[q] = "commit" => tx'[q].entry.prev \in 0..nonce
    BY <1>1, TipsAreNumbers DEF TipsInv, OnlyMine
  <2>. QED
    BY <1>1, <1>2, <1>3, <2>1 DEF OnlyMine
<1>6. ASSUME NEW q \in Procs, q # p, pc'[q] = "commit"
      PROVE  OnlyMine(q)'
  <2>1. OnlyMine(q) /\ tx'[q] = tx[q] /\ tx[q].entry.id \in Nat /\ tx[q].entry.prev \in Nat
    BY <1>1, <1>6, TipsAreNumbers DEF TipsInv
  <2>2. tx[q].entry.id \in 1..(nonce + 1) /\ tx[q].entry.prev <= nonce + 1
    BY <1>3, <2>1 DEF OnlyMine
  <2>3. Tip(mem'[p].audit) # tx[q].entry.id /\ b.entry.prev # tx[q].entry.id
    BY <1>1, <1>2, <1>3, <1>6, <2>1 DEF OnlyMine
  <2>. QED
    BY <1>1, <1>6, <2>1, <2>2, <2>3 DEF OnlyMine
<1>7. \A q \in Procs : pc'[q] = "reconverging" => Tip(mem'[q].audit) # Tip(db'.audit)
  BY <1>1 DEF TipsInv
<1>. QED
  BY <1>4, <1>5, <1>6, <1>7 DEF TipsInv

\* A step that neither commits nor submits.
LEMMA QuietTips ==
    ASSUME TypeOK, ChainInv, TipsInv, db' = db, nonce' \in Nat, nonce <= nonce',
           \A q \in Procs : pc'[q] = "commit" =>
               pc[q] = "commit" /\ tx'[q] = tx[q] /\ Tip(mem'[q].audit) = Tip(mem[q].audit),
           \A q \in Procs : pc'[q] = "reconverging" =>
               /\ pc[q] \in {"commit", "reconverging"}
               /\ Tip(mem'[q].audit) = Tip(mem[q].audit),
           \A q \in Procs :
               Tip(mem'[q].audit) \in {Tip(mem[q].audit), Tip(scan[q].state.audit), Genesis},
           \A q \in Procs :
               Tip(scan'[q].state.audit) \in {Tip(scan[q].state.audit), Tip(db.audit), Genesis}
    PROVE  TipsInv'
<1>1. /\ nonce \in Nat /\ Tip(db.audit) \in 0..nonce /\ Genesis = 0
      /\ \A q \in Procs : Tip(mem[q].audit) \in 0..nonce /\ Tip(scan[q].state.audit) \in 0..nonce
  BY TipsAreNumbers, TipStored DEF TipsInv, Genesis
<1>2. \A q \in Procs : Tip(mem'[q].audit) <= nonce' /\ Tip(scan'[q].state.audit) <= nonce'
  BY <1>1
<1>3. ASSUME NEW q \in Procs, pc'[q] = "commit"
      PROVE  OnlyMine(q)'
  <2>1. /\ OnlyMine(q) /\ pc[q] = "commit" /\ tx'[q] = tx[q]
        /\ tx[q].entry.id \in Nat /\ tx[q].entry.prev \in Nat
        /\ tx[q].entry.id # Tip(db.audit)
    BY <1>3, TipsAreNumbers, TipStored DEF TipsInv
  <2>2. tx[q].entry.id \in 1..nonce' /\ tx[q].entry.prev <= nonce'
    BY <1>1, <2>1 DEF OnlyMine
  <2>3. \A r \in Procs : Tip(scan'[r].state.audit) # tx[q].entry.id
    BY <1>1, <2>1 DEF OnlyMine
  <2>4. \A r \in Procs : r # q => Tip(mem'[r].audit) # tx[q].entry.id
    BY <1>1, <2>1 DEF OnlyMine
  <2>5. \A r \in Procs : r # q /\ pc'[r] = "commit" => tx'[r].entry.prev # tx[q].entry.id
    BY <2>1 DEF OnlyMine
  <2>6. Tip(mem'[q].audit) = tx[q].entry.id
    BY <1>3, <2>1 DEF OnlyMine
  <2>. QED
    BY <2>1, <2>2, <2>3, <2>4, <2>5, <2>6 DEF OnlyMine
<1>4. ASSUME NEW q \in Procs, pc'[q] = "reconverging"
      PROVE  Tip(mem'[q].audit) # Tip(db'.audit)
  BY <1>4, TipStored DEF TipsInv, OnlyMine
<1>. QED
  BY <1>2, <1>3, <1>4 DEF TipsInv

LEMMA InitTips == Init => TipsInv
  BY DEF Init, TipsInv, LiveObjects, NothingRead, EmptyStore, Tip, Genesis

LEMMA NextTips == TypeOK /\ ChainInv /\ TipsInv /\ [Next]_vars => TipsInv'
<1>. SUFFICES ASSUME TypeOK, ChainInv, TipsInv, [Next]_vars PROVE TipsInv'
  OBVIOUS
<1>0. nonce \in Nat
  BY TipsAreNumbers
<1>1. CASE \E p \in Procs : Prepares(p)
  BY <1>1, PreparesTips
<1>2. CASE \E p \in Procs : Commit(p)
  BY <1>2, CommitTips
<1>3. CASE \E p \in Procs : Raises(p)
  <2>. PICK p \in Procs, m \in Memories : Begin(p) /\ Abort(p, m) /\ Raised(mem[p], m)
    BY <1>3 DEF Raises
  <2>1. nonce' = nonce + 1 /\ db' = db /\ pc' = pc /\ tx' = tx /\ scan' = scan
    BY DEF Abort, Id
  <2>2. \A q \in Procs : mem'[q].audit = mem[q].audit
    BY DEF Abort, Raised, TypeOK
  <2>. QED
    BY <1>0, <2>1, <2>2, QuietTips
<1>4. CASE \E p \in Procs : Recovery(p)
  <2>. PICK p \in Procs : Recovery(p)
    BY <1>4
  <2>1. /\ Tip(LiveObjects(SeedLimit).audit) = Genesis
        /\ Tip(LiveObjects(DefaultLimit).audit) = Genesis
        /\ Tip(NothingRead.state.audit) = Genesis
        /\ \A m : Restored(m, scan[p].state).audit = scan[p].state.audit
    BY DEF LiveObjects, NothingRead, EmptyStore, Tip, Restored
  <2>2. CASE ReadTable(p)
    <3>1. scan'[p].state.audit \in {scan[p].state.audit, db.audit}
      BY <2>2 DEF ReadTable, ReadFrom, TypeOK
    <3>2. db' = db /\ mem' = mem /\ pc' = pc /\ tx' = tx /\ nonce' = nonce
          /\ \A q \in Procs : q # p => scan'[q] = scan[q]
      BY <2>2 DEF ReadTable, TypeOK
    <3>. QED
      BY <1>0, <3>1, <3>2, QuietTips
  <2>3. CASE Started(p) \/ Reconverged(p)
    <3>1. /\ db' = db /\ tx' = tx /\ nonce' = nonce
          /\ pc'[p] \in {"idle", "down"}
          /\ \A q \in Procs : q # p => scan'[q] = scan[q] /\ mem'[q] = mem[q] /\ pc'[q] = pc[q]
          /\ scan'[p] = NothingRead
      BY <2>3 DEF Started, Reconverged, Loaded, TypeOK
    <3>2. Tip(mem'[p].audit) \in {Tip(scan[p].state.audit), Genesis}
      BY <2>1, <2>3 DEF Started, Reconverged, Loaded, TypeOK
    <3>. QED
      BY <1>0, <2>1, <3>1, <3>2, QuietTips
  <2>. QED
    BY <2>2, <2>3 DEF Recovery
<1>5. CASE \E p \in Procs : \/ Start(p) \/ Conflict(p) \/ CommitFails(p)
                            \/ ReloadFails(p) \/ Crash(p)
  <2>. PICK p \in Procs : \/ Start(p) \/ Conflict(p) \/ CommitFails(p)
                          \/ ReloadFails(p) \/ Crash(p)
    BY <1>5
  <2>1. /\ Tip(LiveObjects(SeedLimit).audit) = Genesis
        /\ Tip(NothingRead.state.audit) = Genesis
    BY DEF LiveObjects, NothingRead, EmptyStore, Tip
  <2>2. /\ db' = db /\ nonce' = nonce
        /\ \A q \in Procs : q # p => /\ scan'[q] = scan[q] /\ mem'[q] = mem[q]
                                     /\ pc'[q] = pc[q] /\ tx'[q] = tx[q]
    BY DEF Start, Conflict, CommitFails, Reload, ReloadFails, Crash, TypeOK
  <2>3. /\ pc'[p] # "commit"
        /\ pc'[p] = "reconverging" => pc[p] = "commit" /\ mem' = mem
        /\ mem'[p] \in {mem[p], LiveObjects(SeedLimit)}
        /\ scan'[p] \in {scan[p], NothingRead}
    BY DEF Start, Conflict, CommitFails, Reload, ReloadFails, Crash, TypeOK
  <2>. QED
    BY <1>0, <2>1, <2>2, <2>3, QuietTips
<1>6. CASE UNCHANGED vars
  BY <1>0, <1>6, QuietTips DEF vars, TypeOK, Statuses
<1>. QED
  BY <1>1, <1>2, <1>3, <1>4, <1>5, <1>6, OperationKinds DEF Next, Quiescent

-----------------------------------------------------------------------------
(* Logs.  What a process shows is a stored prefix and entries of its own    *)
(* that no store holds and no other process is about to store.             *)

\* The first n entries of two logs are the same.
Shared(log, other, n) ==
    /\ n \in 0..Len(log) /\ n <= Len(other)
    /\ \A i \in 1..n : log[i] = other[i]

\* The ids of p's that were never stored and no other process may store.
PrivateIds(p) ==
    {id \in 1..nonce : /\ ~Logged(db.audit, id)
                       /\ \A q \in Procs : pc[q] = "commit" /\ q # p => tx[q].entry.id # id}

Excused(p) == pc[p] \in {"commit", "reconverging"} \/ faults > 0

Forkless(p, n) ==
    /\ Shared(mem[p].audit, db.audit, n)
    /\ \A i \in (n + 1)..Len(mem[p].audit) : mem[p].audit[i].id \in PrivateIds(p)
    /\ n = Len(mem[p].audit) \/ Excused(p)

ForkInv ==
    /\ \A i \in DOMAIN db.audit : db.audit[i].id # Genesis
    /\ \A p \in Procs : \E n \in Nat : Forkless(p, n)
    /\ \A p \in Procs : Shared(scan[p].state.audit, db.audit, Len(scan[p].state.audit))
    /\ \A p \in Procs : pc[p] = "commit" =>
           \E log \in Seq(Entries) : /\ mem[p].audit = Append(log, tx[p].entry)
                                     /\ tx[p].entry.prev = Tip(log)

LEMMA LogTypes ==
    ASSUME TypeOK
    PROVE  /\ db.audit \in Seq(Entries) /\ nonce \in Nat
           /\ \A p \in Procs : /\ mem[p].audit \in Seq(Entries)
                               /\ scan[p].state.audit \in Seq(Entries)
                               /\ pc[p] = "commit" => tx[p].entry \in Entries
  BY TipsAreNumbers DEF TypeOK, Memories, Stores

\* When the tips agree, the log before the entry in flight is the stored log.
LEMMA FreshLogIsStored ==
    ASSUME TypeOK, ChainInv, TipsInv, ForkInv, NEW p \in Procs, Commit(p),
           NEW log \in Seq(Entries), mem[p].audit = Append(log, tx[p].entry),
           tx[p].entry.prev = Tip(log)
    PROVE  log = db.audit
<1>. DEFINE all == mem[p].audit
<1>1. /\ all \in Seq(Entries) /\ db.audit \in Seq(Entries) /\ tx[p].entry \in Entries
      /\ pc[p] = "commit" /\ Tip(log) = Tip(db.audit)
  BY LogTypes DEF Commit, Fresh, TipFresh
<1>2. /\ Len(log) \in Nat /\ Len(db.audit) \in Nat /\ Len(all) = Len(log) + 1
      /\ \A i \in 1..Len(log) : all[i] = log[i]
      /\ all[Len(log) + 1] = tx[p].entry
      /\ DOMAIN db.audit = 1..Len(db.audit)
  BY <1>1
<1>. PICK n \in Nat : Forkless(p, n)
  BY DEF ForkInv
<1>3. /\ n <= Len(all) /\ n <= Len(db.audit)
      /\ \A i \in 1..n : all[i] = db.audit[i]
      /\ \A i \in (n + 1)..Len(all) : all[i].id \in PrivateIds(p)
  BY DEF Forkless, Shared
<1>4. n # Len(all)
  <2>. SUFFICES ASSUME n = Len(all) PROVE FALSE
    OBVIOUS
  <2>1. n \in DOMAIN db.audit /\ db.audit[n] = tx[p].entry
    BY <1>2, <1>3
  <2>. QED
    BY <1>1, <2>1 DEF ChainInv, Logged
<1>5. n = Len(log)
  <2>. SUFFICES ASSUME n < Len(log) PROVE FALSE
    BY <1>2, <1>3, <1>4
  <2>1. log[Len(log)].id \in PrivateIds(p)
    BY <1>2, <1>3
  <2>2. Tip(log) = log[Len(log)].id
    BY <1>2 DEF Tip
  <2>3. db.audit # <<>>
    BY <1>1, <2>1, <2>2 DEF PrivateIds, Tip, Genesis
  <2>4. Logged(db.audit, Tip(db.audit))
    BY <1>1, <1>2, <2>3 DEF Logged, Tip
  <2>. QED
    BY <1>1, <2>1, <2>2, <2>4 DEF PrivateIds
<1>6. n = Len(db.audit)
  <2>. SUFFICES ASSUME n < Len(db.audit) PROVE FALSE
    BY <1>2, <1>3
  <2>1. /\ Tip(db.audit) = db.audit[Len(db.audit)].id
        /\ Len(db.audit) \in DOMAIN db.audit
    BY <1>1, <1>2 DEF Tip
  <2>2. CASE n = 0
    <3>1. log = <<>>
      <4>1. \A some \in Seq(Entries) : Len(some) = 0 => some = <<>>
        OBVIOUS
      <4>. QED
        BY <1>5, <2>2, <4>1
    <3>2. Tip(log) = Genesis
      BY <3>1 DEF Tip
    <3>. QED
      BY <1>1, <2>1, <3>2 DEF ForkInv
  <2>3. CASE n # 0
    <3>1. Tip(log) = db.audit[n].id
      BY <1>1, <1>2, <1>3, <1>5, <2>3 DEF Tip
    <3>2. \A i \in DOMAIN db.audit : \A j \in 1..(i - 1) : db.audit[j].id # db.audit[i].id
      BY DEF ChainInv, AuditChained
    <3>3. n \in 1..(Len(db.audit) - 1)
      BY <1>2, <2>3
    <3>4. db.audit[n].id # db.audit[Len(db.audit)].id
      BY <2>1, <3>2, <3>3
    <3>. QED
      BY <1>1, <2>1, <3>1, <3>4
  <2>. QED
    BY <2>2, <2>3
<1>7. Len(log) = Len(db.audit) /\ \A i \in 1..Len(log) : log[i] = db.audit[i]
  BY <1>2, <1>3, <1>5, <1>6
<1>8. \A one, other \in Seq(Entries) :
          Len(one) = Len(other) /\ (\A i \in 1..Len(one) : one[i] = other[i]) => one = other
  OBVIOUS
<1>. QED
  BY <1>1, <1>7, <1>8

LEMMA CommitForks ==
    ASSUME TypeOK, ChainInv, TipsInv, ForkInv, NEW p \in Procs, Commit(p)
    PROVE  ForkInv'
<1>. DEFINE e == tx[p].entry
<1>1. /\ mem' = mem /\ scan' = scan /\ nonce' = nonce /\ faults' = faults
      /\ \A q \in Procs : q # p => pc'[q] = pc[q] /\ tx'[q] = tx[q]
      /\ pc[p] = "commit" /\ pc'[p] = "idle"
      /\ db'.audit = Append(db.audit, e)
  BY DEF Commit, Apply, TypeOK
<1>2. /\ db.audit \in Seq(Entries) /\ e \in Entries
      /\ e.id # Genesis /\ e.id \in 1..nonce
  BY <1>1, LogTypes DEF TipsInv, OnlyMine, Genesis
<1>. HIDE DEF e
<1>3. /\ Len(db.audit) \in Nat /\ Len(db'.audit) = Len(db.audit) + 1
      /\ DOMAIN db'.audit = 1..Len(db'.audit) /\ DOMAIN db.audit = 1..Len(db.audit)
      /\ \A i \in 1..Len(db.audit) : db'.audit[i] = db.audit[i]
      /\ db'.audit[Len(db.audit) + 1] = e
  BY <1>1, <1>2
<1>4. \A i \in DOMAIN db'.audit : db'.audit[i].id # Genesis
  BY <1>2, <1>3 DEF ForkInv
<1>5. ASSUME NEW log, NEW n, Len(log) \in Nat, Shared(log, db.audit, n)
      PROVE  Shared(log, db'.audit, n)
  <2>1. /\ n \in 0..Len(log) /\ n <= Len(db.audit)
        /\ \A i \in 1..n : log[i] = db.audit[i]
    BY <1>5 DEF Shared
  <2>2. \A i \in 1..n : i \in 1..Len(db.audit)
    BY <1>3, <1>5, <2>1
  <2>3. n \in Nat /\ n <= Len(db'.audit)
    BY <1>3, <1>5, <2>1
  <2>4. \A i \in 1..n : log[i] = db'.audit[i]
    BY <1>3, <2>1, <2>2
  <2>. QED
    BY <2>1, <2>3, <2>4 DEF Shared
<1>6. \A q \in Procs : Shared(scan'[q].state.audit, db'.audit, Len(scan'[q].state.audit))
  BY <1>1, <1>5, LogTypes DEF ForkInv
<1>7. \E n \in Nat : Forkless(p, n)'
  <2>. PICK log \in Seq(Entries) : mem[p].audit = Append(log, tx[p].entry)
                                   /\ tx[p].entry.prev = Tip(log)
    BY <1>1 DEF ForkInv
  <2>1. log = db.audit
    BY FreshLogIsStored
  <2>2. mem'[p].audit = db'.audit
    BY <1>1, <2>1 DEF e
  <2>3. Shared(db'.audit, db'.audit, Len(db'.audit))
    BY <1>3 DEF Shared
  <2>. PICK n \in Nat : n = Len(db.audit) + 1
    BY <1>3
  <2>4. Forkless(p, n)'
    BY <1>3, <2>2, <2>3 DEF Forkless
  <2>. QED
    BY <1>3, <2>4
<1>8. ASSUME NEW q \in Procs, q # p PROVE \E n \in Nat : Forkless(q, n)'
  <2>1. PICK n \in Nat : Forkless(q, n)
    BY DEF ForkInv
  <2>2. Len(mem[q].audit) \in Nat /\ mem'[q].audit = mem[q].audit
    BY <1>1, LogTypes
  <2>3. PrivateIds(q) \subseteq PrivateIds(q)'
    <3>. SUFFICES ASSUME NEW id \in PrivateIds(q) PROVE id \in PrivateIds(q)'
      OBVIOUS
    <3>1. id # e.id
      BY <1>1, <1>8 DEF PrivateIds, e
    <3>2. ~Logged(db'.audit, id)
      BY <1>3, <3>1 DEF PrivateIds, Logged
    <3>. QED
      BY <1>1, <3>2 DEF PrivateIds
  <2>4. Excused(q) => Excused(q)'
    BY <1>1, <1>8 DEF Excused
  <2>5. Forkless(q, n)'
    BY <1>5, <2>1, <2>2, <2>3, <2>4 DEF Forkless
  <2>. QED
    BY <2>5
<1>9. \A q \in Procs : pc'[q] = "commit" =>
          \E log \in Seq(Entries) : /\ mem'[q].audit = Append(log, tx'[q].entry)
                                    /\ tx'[q].entry.prev = Tip(log)
  BY <1>1 DEF ForkInv
<1>. QED
  BY <1>4, <1>6, <1>7, <1>8, <1>9 DEF ForkInv

LEMMA PreparesForks ==
    ASSUME TypeOK, ChainInv, TipsInv, ForkInv, NEW p \in Procs, Prepares(p)
    PROVE  ForkInv'
<1>. PICK m \in Memories, b \in Bundles :
         Begin(p) /\ Submit(p, m, b) /\ Prepared(mem[p], m, b)
  BY DEF Prepares
<1>1. /\ db' = db /\ scan' = scan /\ nonce' = nonce + 1 /\ nonce \in Nat /\ faults' = faults
      /\ \A q \in Procs : q # p => pc'[q] = pc[q] /\ tx'[q] = tx[q] /\ mem'[q] = mem[q]
      /\ pc[p] = "idle" /\ pc'[p] = "commit" /\ tx'[p] = b
      /\ b.entry.id = nonce + 1 /\ b.entry.prev = Tip(mem[p].audit)
  BY LogTypes DEF Submit, Begin, Prepared, Id, TypeOK
<1>2. mem'[p].audit = Append(mem[p].audit, b.entry)
  BY DEF Submit, Prepared, TypeOK, Memories
<1>3. /\ mem[p].audit \in Seq(Entries) /\ b.entry \in Entries
      /\ \A i \in DOMAIN db.audit : db.audit[i].id <= nonce
      /\ \A i \in DOMAIN db.audit : db.audit[i].id \in Nat
      /\ \A q \in Procs : pc[q] = "commit" => tx[q].entry.id \in 1..nonce
  BY LogTypes, IdsAreNumbers DEF TypeOK, Bundles, ChainInv, TipsInv, OnlyMine
<1>4. \A q \in Procs : q # p => PrivateIds(q) \subseteq PrivateIds(q)'
  <2>. SUFFICES ASSUME NEW q \in Procs, q # p, NEW id \in PrivateIds(q)
                PROVE  id \in PrivateIds(q)'
    OBVIOUS
  <2>1. id \in 1..nonce' /\ id # nonce + 1 /\ ~Logged(db'.audit, id)
    BY <1>1 DEF PrivateIds
  <2>2. \A r \in Procs : pc'[r] = "commit" /\ r # q => tx'[r].entry.id # id
    BY <1>1, <2>1 DEF PrivateIds
  <2>. QED
    BY <2>1, <2>2 DEF PrivateIds
<1>5. PrivateIds(p) \cup {nonce + 1} \subseteq PrivateIds(p)'
  <2>1. ~Logged(db.audit, nonce + 1)
    BY <1>1, <1>3 DEF Logged
  <2>2. \A r \in Procs : pc'[r] = "commit" /\ r # p => tx'[r].entry.id \in 1..nonce
    BY <1>1, <1>3
  <2>. SUFFICES ASSUME NEW id \in PrivateIds(p) \cup {nonce + 1}
                PROVE  id \in PrivateIds(p)'
    OBVIOUS
  <2>3. id \in 1..nonce' /\ ~Logged(db'.audit, id)
    BY <1>1, <2>1 DEF PrivateIds
  <2>4. \A r \in Procs : pc'[r] = "commit" /\ r # p => tx'[r].entry.id # id
    BY <1>1, <2>2 DEF PrivateIds
  <2>. QED
    BY <2>3, <2>4 DEF PrivateIds
<1>6. ASSUME NEW q \in Procs, q # p PROVE \E n \in Nat : Forkless(q, n)'
  <2>1. PICK n \in Nat : Forkless(q, n)
    BY DEF ForkInv
  <2>2. mem'[q].audit = mem[q].audit /\ db'.audit = db.audit
    BY <1>1, <1>6
  <2>3. Excused(q) => Excused(q)'
    BY <1>1, <1>6 DEF Excused
  <2>4. Forkless(q, n)'
    BY <1>4, <1>6, <2>1, <2>2, <2>3 DEF Forkless
  <2>. QED
    BY <2>4
<1>7. \E n \in Nat : Forkless(p, n)'
  <2>. DEFINE log == mem[p].audit
  <2>1. PICK n \in Nat : Forkless(p, n)
    BY DEF ForkInv
  <2>2. /\ Shared(log, db.audit, n)
        /\ \A i \in (n + 1)..Len(log) : log[i].id \in PrivateIds(p)
    BY <2>1 DEF Forkless
  <2>. HIDE DEF log
  <2>3. /\ Len(log) \in Nat /\ Len(mem'[p].audit) = Len(log) + 1
        /\ \A i \in 1..Len(log) : mem'[p].audit[i] = log[i]
        /\ mem'[p].audit[Len(log) + 1] = b.entry
    BY <1>2, <1>3 DEF log
  <2>4. Shared(mem'[p].audit, db'.audit, n)
    BY <1>1, <2>2, <2>3 DEF Shared
  <2>5. \A i \in (n + 1)..Len(mem'[p].audit) : mem'[p].audit[i].id \in PrivateIds(p)'
    BY <1>1, <1>5, <2>2, <2>3
  <2>6. Excused(p)'
    BY <1>1 DEF Excused
  <2>7. Forkless(p, n)'
    BY <2>4, <2>5, <2>6 DEF Forkless
  <2>. QED
    BY <2>7
<1>8. \A q \in Procs : pc'[q] = "commit" =>
          \E log \in Seq(Entries) : /\ mem'[q].audit = Append(log, tx'[q].entry)
                                    /\ tx'[q].entry.prev = Tip(log)
  BY <1>1, <1>2, <1>3 DEF ForkInv
<1>. QED
  BY <1>1, <1>6, <1>7, <1>8 DEF ForkInv

\* A step that stores nothing and prepares nothing keeps every log, or puts a
\* stored prefix in its place, and excuses no process less.
LEMMA QuietForks ==
    ASSUME TypeOK, ForkInv, db' = db, nonce' \in Nat, nonce <= nonce',
           \A q \in Procs : pc'[q] = "commit" =>
               pc[q] = "commit" /\ tx'[q] = tx[q] /\ mem'[q].audit = mem[q].audit,
           \A q \in Procs :
               \/ mem'[q].audit = mem[q].audit /\ (Excused(q) => Excused(q)')
               \/ mem'[q].audit \in {<<>>, scan[q].state.audit},
           \A q \in Procs :
               scan'[q].state.audit \in {scan[q].state.audit, db.audit, <<>>}
    PROVE  ForkInv'
<1>1. db.audit \in Seq(Entries) /\ nonce \in Nat
  BY LogTypes
<1>2. /\ Shared(<<>>, db.audit, 0)
      /\ Shared(db.audit, db.audit, Len(db.audit))
      /\ \A q \in Procs : Shared(scan[q].state.audit, db.audit, Len(scan[q].state.audit))
  BY <1>1 DEF Shared, ForkInv
<1>3. \A q \in Procs : Shared(scan'[q].state.audit, db'.audit, Len(scan'[q].state.audit))
  BY <1>2
<1>4. \A q \in Procs : PrivateIds(q) \subseteq PrivateIds(q)'
  <2>. SUFFICES ASSUME NEW q \in Procs, NEW id \in PrivateIds(q)
                PROVE  id \in PrivateIds(q)'
    OBVIOUS
  <2>1. id \in 1..nonce' /\ ~Logged(db'.audit, id)
    BY <1>1 DEF PrivateIds
  <2>2. \A r \in Procs : pc'[r] = "commit" /\ r # q => tx'[r].entry.id # id
    BY DEF PrivateIds
  <2>. QED
    BY <2>1, <2>2 DEF PrivateIds
<1>5. ASSUME NEW q \in Procs PROVE \E n \in Nat : Forkless(q, n)'
  <2>1. CASE mem'[q].audit = mem[q].audit /\ (Excused(q) => Excused(q)')
    <3>1. PICK n \in Nat : Forkless(q, n)
      BY DEF ForkInv
    <3>2. Forkless(q, n)'
      BY <1>4, <2>1, <3>1 DEF Forkless
    <3>. QED
      BY <3>2
  <2>2. CASE mem'[q].audit \in {<<>>, scan[q].state.audit}
    <3>. DEFINE n == Len(mem'[q].audit)
    <3>1. n \in Nat /\ Shared(mem'[q].audit, db'.audit, n)
      BY <1>2, <2>2, LogTypes
    <3>2. \A i \in (n + 1)..n : FALSE
      BY <3>1
    <3>. HIDE DEF n
    <3>3. PICK k \in Nat : k = n
      BY <3>1
    <3>4. Forkless(q, k)'
      BY <3>1, <3>2, <3>3 DEF Forkless, n
    <3>. QED
      BY <3>4
  <2>. QED
    BY <2>1, <2>2
<1>. QED
  BY <1>3, <1>5 DEF ForkInv

LEMMA InitForks == Init => ForkInv
<1>. SUFFICES ASSUME Init PROVE ForkInv
  OBVIOUS
<1>1. /\ db.audit = <<>>
      /\ \A p \in Procs : /\ mem[p].audit = <<>> /\ scan[p].state.audit = <<>>
                          /\ pc[p] # "commit"
  BY DEF Init, EmptyStore, LiveObjects, NothingRead
<1>2. Shared(<<>>, <<>>, 0) /\ Len(<<>>) = 0
  BY DEF Shared
<1>3. \A p \in Procs : Forkless(p, 0)
  BY <1>1, <1>2 DEF Forkless
<1>. QED
  BY <1>1, <1>2, <1>3 DEF ForkInv

LEMMA NextForks == TypeOK /\ ChainInv /\ TipsInv /\ ForkInv /\ [Next]_vars => ForkInv'
<1>. SUFFICES ASSUME TypeOK, ChainInv, TipsInv, ForkInv, [Next]_vars PROVE ForkInv'
  OBVIOUS
<1>0. nonce \in Nat
  BY LogTypes
<1>1. CASE \E p \in Procs : Prepares(p)
  BY <1>1, PreparesForks
<1>2. CASE \E p \in Procs : Commit(p)
  BY <1>2, CommitForks
<1>3. CASE \E p \in Procs : Raises(p)
  <2>. PICK p \in Procs, m \in Memories : Begin(p) /\ Abort(p, m) /\ Raised(mem[p], m)
    BY <1>3 DEF Raises
  <2>1. /\ nonce' = nonce + 1 /\ db' = db /\ pc' = pc /\ tx' = tx /\ scan' = scan
        /\ faults' = faults /\ \A q \in Procs : mem'[q].audit = mem[q].audit
    BY DEF Abort, Raised, Id, TypeOK
  <2>. QED
    BY <1>0, <2>1, QuietForks DEF Excused
<1>4. CASE \E p \in Procs : Recovery(p)
  <2>. PICK p \in Procs : Recovery(p)
    BY <1>4
  <2>1. /\ LiveObjects(SeedLimit).audit = <<>> /\ LiveObjects(DefaultLimit).audit = <<>>
        /\ NothingRead.state.audit = <<>>
        /\ \A m, s : Restored(m, s).audit = s.audit
    BY DEF LiveObjects, NothingRead, EmptyStore, Restored
  <2>2. CASE ReadTable(p)
    <3>1. /\ db' = db /\ nonce' = nonce /\ mem' = mem /\ pc' = pc /\ tx' = tx /\ faults' = faults
          /\ \A q \in Procs : q # p => scan'[q] = scan[q]
          /\ scan'[p].state.audit \in {scan[p].state.audit, db.audit}
      BY <2>2 DEF ReadTable, ReadFrom, TypeOK
    <3>. QED
      BY <1>0, <3>1, QuietForks DEF Excused
  <2>3. CASE Started(p) \/ Reconverged(p)
    <3>1. /\ db' = db /\ nonce' = nonce /\ tx' = tx /\ faults' = faults
          /\ \A q \in Procs : q # p => /\ scan'[q] = scan[q] /\ mem'[q] = mem[q]
                                       /\ pc'[q] = pc[q]
          /\ pc'[p] # "commit" /\ scan'[p] = NothingRead
      BY <2>3 DEF Started, Reconverged, Loaded, TypeOK
    <3>2. mem'[p].audit \in {<<>>, scan[p].state.audit}
      BY <2>1, <2>3 DEF Started, Reconverged, Loaded, TypeOK
    <3>. QED
      BY <1>0, <2>1, <3>1, <3>2, QuietForks DEF Excused
  <2>. QED
    BY <2>2, <2>3 DEF Recovery
<1>5. CASE \E p \in Procs : \/ Start(p) \/ Conflict(p) \/ CommitFails(p)
                            \/ ReloadFails(p) \/ Crash(p)
  <2>. PICK p \in Procs : \/ Start(p) \/ Conflict(p) \/ CommitFails(p)
                          \/ ReloadFails(p) \/ Crash(p)
    BY <1>5
  <2>1. LiveObjects(SeedLimit).audit = <<>> /\ NothingRead.state.audit = <<>>
    BY DEF LiveObjects, NothingRead, EmptyStore
  <2>2. /\ db' = db /\ nonce' = nonce
        /\ \A q \in Procs : q # p => /\ scan'[q] = scan[q] /\ mem'[q] = mem[q]
                                     /\ pc'[q] = pc[q] /\ tx'[q] = tx[q]
        /\ pc'[p] # "commit"
        /\ scan'[p] \in {scan[p], NothingRead}
    BY DEF Start, Conflict, CommitFails, Reload, ReloadFails, Crash, TypeOK
  <2>3. faults \in Nat /\ (faults' = faults \/ faults' = faults + 1)
    BY PlatformAssumption
       DEF Start, Conflict, CommitFails, Reload, ReloadFails, Crash, Fault, TypeOK
  <2>4. \/ mem'[p] = LiveObjects(SeedLimit)
        \/ mem' = mem /\ pc[p] = "down" /\ faults' = faults
        \/ mem' = mem /\ (pc'[p] = "reconverging" \/ faults' = faults + 1)
    BY DEF Start, Conflict, CommitFails, Reload, ReloadFails, Crash, Fault, TypeOK
  <2>5. \A q \in Procs : q # p => (Excused(q) => Excused(q)')
    BY <2>2, <2>3 DEF Excused
  <2>6. \/ mem'[p].audit = <<>>
        \/ mem'[p].audit = mem[p].audit /\ (Excused(p) => Excused(p)')
    BY <2>1, <2>3, <2>4 DEF Excused
  <2>. QED
    BY <1>0, <2>1, <2>2, <2>5, <2>6, QuietForks
<1>6. CASE UNCHANGED vars
  BY <1>0, <1>6, QuietForks DEF vars, Excused
<1>. QED
  BY <1>1, <1>2, <1>3, <1>4, <1>5, <1>6, OperationKinds DEF Next, Quiescent

\* No process shows a log that forks from the stored one, under any
\* interleaving, crash, storage failure or torn load: its log is a stored
\* prefix, and entries that were never stored only while its own operation is
\* in flight or after a fault (append before commit, rebuild after).
THEOREM LogsNeverFork == Spec => []LogNeverForks
<1>1. Init => TypeOK /\ ChainInv /\ TipsInv /\ ForkInv
  BY InitType, InitChains, InitTips, InitForks
<1>2. TypeOK /\ ChainInv /\ TipsInv /\ ForkInv /\ [Next]_vars
          => (TypeOK /\ ChainInv /\ TipsInv /\ ForkInv)'
  BY NextType, NextChains, NextTips, NextForks
<1>3. TypeOK /\ ForkInv => LogNeverForks
  <2>. SUFFICES ASSUME TypeOK, ForkInv, NEW p \in Procs
                PROVE  \E n \in 0..Len(mem[p].audit) :
                           LET unsaved == {mem[p].audit[i].id : i \in (n + 1)..Len(mem[p].audit)}
                           IN  /\ n <= Len(db.audit)
                               /\ SubSeq(mem[p].audit, 1, n) = SubSeq(db.audit, 1, n)
                               /\ unsaved \cap StoredIds = {}
                               /\ \/ unsaved = {} \/ pc[p] \in {"commit", "reconverging"}
                                  \/ faults > 0
    BY DEF LogNeverForks
  <2>. PICK n \in Nat : Forkless(p, n)
    BY DEF ForkInv
  <2>. DEFINE unsaved == {mem[p].audit[i].id : i \in (n + 1)..Len(mem[p].audit)}
  <2>1. /\ n \in 0..Len(mem[p].audit) /\ n <= Len(db.audit)
        /\ \A i \in 1..n : mem[p].audit[i] = db.audit[i]
        /\ mem[p].audit \in Seq(Entries) /\ db.audit \in Seq(Entries)
    BY LogTypes DEF Forkless, Shared
  <2>2. SubSeq(mem[p].audit, 1, n) = SubSeq(db.audit, 1, n)
    BY <2>1
  <2>3. unsaved \subseteq PrivateIds(p)
    BY DEF Forkless
  <2>4. unsaved \cap StoredIds = {}
    BY <2>3 DEF StoredIds, PrivateIds, Logged
  <2>5. unsaved = {} \/ pc[p] \in {"commit", "reconverging"} \/ faults > 0
    <3>1. n = Len(mem[p].audit) => unsaved = {}
      BY <2>1
    <3>. QED
      BY <3>1 DEF Forkless, Excused
  <2>. QED
    BY <2>1, <2>2, <2>4, <2>5
<1>. QED
  BY <1>1, <1>2, <1>3, PTL DEF Spec

-----------------------------------------------------------------------------
(* What an operation decides, from the live objects it finds.              *)

Enrolled(k) == [sector |-> k.sector, domain |-> k.domain, active |-> TRUE]

\* The contributors are members of the cohort whose policies in x allow it.
Willing(x, k, metric, contributors, eps) ==
    /\ contributors # {}
    /\ \A o \in contributors :
          /\ x.orgs[o] = Enrolled(k)
          /\ metric \in x.policies[o].metrics
          /\ eps <= x.policies[o].cap

Enrols(x, b) ==
    \E o \in OrgIds, k \in Cohorts :
        /\ b.entry = Entry(b.entry.id, x.audit, "org.join", o, {}, {}, 0)
        /\ b.org = [id |-> o, data |-> Enrolled(k)]
        /\ b.policy = [id |-> o, data |-> DefaultPolicyFor(Enrolled(k))]
        /\ b.budget = Nothing /\ b.round = Nothing

Updates(x, b) ==
    \E o \in OrgIds, metrics \in SUBSET AllowedMetrics :
        /\ x.orgs[o] # NoOrg
        /\ b.entry = Entry(b.entry.id, x.audit, "consent.update", o, metrics, {}, 0)
        /\ b.org = Nothing
        /\ b.policy = [id |-> o, data |-> [x.policies[o] EXCEPT !.metrics = metrics]]
        /\ b.budget = Nothing /\ b.round = Nothing

Queries == {"query.histogram", "query.variance", "query.correlation"}

Reports(x, b) ==
    \E k \in Cohorts, contributors \in SUBSET OrgIds, eps \in Epsilons, action \in Queries :
        /\ b.entry = Entry(b.entry.id, x.audit, action, NoOrg, {}, contributors, eps)
        /\ Willing(x, k, MetricOf(action), contributors, eps)
        /\ Cardinality(contributors) >= MinParticipants
        /\ \A o \in contributors : Cardinality(contributors) >= x.policies[o].floor
        /\ b.org = Nothing /\ b.policy = Nothing
        /\ b.budget # Nothing /\ b.round = Nothing

Trains(x, b) ==
    \E k \in Cohorts, survivors \in SUBSET OrgIds, eps \in Epsilons :
        /\ b.entry = Entry(b.entry.id, x.audit, "federated.round", NoOrg, {}, survivors, eps)
        /\ Willing(x, k, RoundMetric, survivors, eps)
        /\ b.org = Nothing /\ b.policy = Nothing
        /\ b.budget # Nothing /\ b.round = [key |-> k, id |-> b.entry.id]

Decided(x, b) == Enrols(x, b) \/ Updates(x, b) \/ Reports(x, b) \/ Trains(x, b)

\* What p hands to its commit was decided from its live objects, and the
\* organization it registers is one nobody knew.
Decides(p) ==
    pc'[p] = "commit" =>
        /\ Decided(mem[p], tx'[p])
        /\ tx'[p].org # Nothing => Undrawn(tx'[p].org.id)

LEMMA JoinDecides ==
    ASSUME TypeOK, NEW p \in Procs, NEW o \in OrgIds, NEW k \in Cohorts, Join(p, o, k)
    PROVE  Decides(p)
<1>. DEFINE m      == mem[p]
            org    == Enrolled(k)
            policy == DefaultPolicyFor(org)
            entry  == Entry(Id, m.audit, "org.join", o, {}, {}, 0)
            bundle == [Bundle(entry) EXCEPT !.org = [id |-> o, data |-> org],
                                            !.policy = [id |-> o, data |-> policy]]
            after  == [m EXCEPT !.orgs[o] = org, !.policies[o] = policy]
<1>1. Submit(p, after, bundle) /\ Undrawn(o)
  BY DEF Join, Enrolled
<1>2. /\ bundle.org = [id |-> o, data |-> org]
      /\ bundle.policy = [id |-> o, data |-> policy]
      /\ bundle.budget = Nothing /\ bundle.round = Nothing /\ bundle.entry = entry
  BY DEF Bundle
<1>3. entry = Entry(entry.id, m.audit, "org.join", o, {}, {}, 0)
  BY DEF Entry
<1>. HIDE DEF bundle, after, entry, policy, org
<1>4. tx'[p] = bundle
  BY <1>1 DEF Submit, TypeOK
<1>5. Enrols(m, bundle) /\ bundle.org.id = o
  BY <1>2, <1>3 DEF Enrols, org, policy
<1>. QED
  BY <1>1, <1>4, <1>5 DEF Decides, Decided

LEMMA SetConsentDecides ==
    ASSUME TypeOK, NEW p \in Procs, NEW o \in OrgIds, NEW metrics \in ConsentChoices,
           Governed(mem[p]), SetConsent(p, o, metrics)
    PROVE  Decides(p)
<1>. DEFINE m      == mem[p]
            policy == [m.policies[o] EXCEPT !.metrics = metrics]
            entry  == Entry(Id, m.audit, "consent.update", o, metrics, {}, 0)
            bundle == [Bundle(entry) EXCEPT !.policy = [id |-> o, data |-> policy]]
            after  == [m EXCEPT !.policies[o] = policy]
<1>1. m.orgs[o] # NoOrg /\ m.policies[o] # NoPolicy
  BY DEF SetConsent, Governed
<1>2. Submit(p, after, bundle) /\ metrics \in SUBSET AllowedMetrics
  BY <1>1, PlatformAssumption DEF SetConsent, ConsentBase
<1>3. /\ bundle.org = Nothing /\ bundle.policy = [id |-> o, data |-> policy]
      /\ bundle.budget = Nothing /\ bundle.round = Nothing /\ bundle.entry = entry
  BY DEF Bundle
<1>4. entry = Entry(entry.id, m.audit, "consent.update", o, metrics, {}, 0)
  BY DEF Entry
<1>. HIDE DEF bundle, after, entry, policy
<1>5. tx'[p] = bundle
  BY <1>2 DEF Submit, TypeOK
<1>6. Updates(m, bundle)
  BY <1>1, <1>2, <1>3, <1>4 DEF Updates, policy
<1>. QED
  BY <1>3, <1>5, <1>6 DEF Decides, Decided

\* Whoever contributes is a member of the cohort that consents.
LEMMA ContributorsWilling ==
    ASSUME NEW m \in Memories, Governed(m), NEW k \in Cohorts, NEW metric, NEW eps,
           NEW some \in SUBSET Contributors(m, k, metric, eps), some # {}
    PROVE  /\ Willing(m, k, metric, some, eps)
           /\ \A o \in some : PolicyOf(m.policies, o) = m.policies[o]
<1>. SUFFICES ASSUME NEW o \in some
              PROVE  /\ m.orgs[o] = Enrolled(k)
                     /\ metric \in m.policies[o].metrics
                     /\ eps <= m.policies[o].cap
                     /\ PolicyOf(m.policies, o) = m.policies[o]
  BY DEF Willing
<1>1. /\ o \in OrgIds /\ m.orgs[o] # NoOrg /\ m.orgs[o].active
      /\ m.orgs[o].sector = k.sector /\ m.orgs[o].domain = k.domain
      /\ Consents(m.policies, o, metric, eps)
  BY DEF Contributors, Participants, Cohort
<1>2. m.orgs[o] \in Organizations
  BY <1>1 DEF Memories, Registries
<1>3. m.orgs[o] = Enrolled(k)
  BY <1>1, <1>2 DEF Organizations, Enrolled
<1>4. PolicyOf(m.policies, o) = m.policies[o]
  BY <1>1 DEF Governed, PolicyOf
<1>. QED
  BY <1>1, <1>3, <1>4 DEF Consents

LEMMA QueryDecides ==
    ASSUME TypeOK, NEW p \in Procs, NEW k \in Cohorts, NEW metric, NEW action \in Queries,
           NEW eps \in Epsilons, MetricOf(action) = metric, Governed(mem[p]),
           Query(p, k, metric, action, eps)
    PROVE  Decides(p)
<1>. DEFINE m      == mem[p]
            some   == Contributors(m, k, metric, eps)
            acc    == Charged(m.acc, Id, QueryCost(eps), LaplaceRdp[eps])
            entry  == Entry(Id, m.audit, action, NoOrg, {}, some, eps)
            bundle == [Bundle(entry) EXCEPT !.budget = BudgetWrite(m.acc, acc)]
            after  == [m EXCEPT !.acc = acc]
<1>1. m \in Memories /\ m.acc \in Accountants
  BY DEF TypeOK, Memories
<1>2. Submit(p, after, bundle) /\ Cleared(m, k, metric, eps)
  BY DEF Query
<1>3. BudgetWrite(m.acc, acc) \in BudgetWrites
  <2>1. Id \in Nat /\ QueryCost(eps) \in Amounts /\ LaplaceRdp[eps] \in RdpCosts
    BY PlatformAssumption DEF TypeOK, Id, QueryCost, Amounts
  <2>. QED
    BY <1>1, <2>1, ChargedType, BudgetWriteType
<1>4. /\ bundle.org = Nothing /\ bundle.policy = Nothing
      /\ bundle.budget # Nothing /\ bundle.round = Nothing /\ bundle.entry = entry
  BY <1>3, StoreAssumption DEF Bundle
<1>5. entry = Entry(entry.id, m.audit, action, NoOrg, {}, some, eps)
  BY DEF Entry
<1>6. /\ some # {} /\ MeetsFloor(m.policies, some)
      /\ some \in SUBSET OrgIds
  BY <1>2, ContributorsType DEF Cleared, Allows, Contributors
<1>. HIDE DEF bundle, after, entry
<1>7. tx'[p] = bundle
  BY <1>2 DEF Submit, TypeOK
<1>8. Reports(m, bundle)
  <2>1. /\ Willing(m, k, metric, some, eps)
        /\ \A o \in some : PolicyOf(m.policies, o) = m.policies[o]
    BY <1>1, <1>6, ContributorsWilling
  <2>2. /\ Cardinality(some) >= MinParticipants
        /\ \A o \in some : Cardinality(some) >= m.policies[o].floor
    <3>. HIDE DEF some
    <3>. QED
      BY <1>6, <2>1 DEF MeetsFloor
  <2>. HIDE DEF some, acc
  <2>. QED
    BY <1>4, <1>5, <1>6, <2>1, <2>2 DEF Reports
<1>. QED
  BY <1>4, <1>7, <1>8 DEF Decides, Decided

LEMMA RoundDecides ==
    ASSUME TypeOK, NEW p \in Procs, NEW k \in Cohorts, NEW eps \in Epsilons,
           NEW delta \in Deltas, NEW dim \in Dims, NEW survivors \in SUBSET OrgIds,
           Governed(mem[p]), FederatedRound(p, k, eps, delta, dim, survivors)
    PROVE  Decides(p)
<1>. DEFINE m       == mem[p]
            trained == Trained(m, k, dim)
            acc     == Charged(m.acc, Id, RoundCost(eps, delta), GaussianRdp[eps])
            server  == trained.servers[k]
            row     == [dim |-> server.dim, model |-> server.model,
                        rounds |-> Len(server.history)]
            entry   == Entry(Id, m.audit, "federated.round", NoOrg, {}, survivors, eps)
            write   == [key |-> k, data |-> row,
                        expect |-> Len(ServerFor(m, k, dim).history)]
            bundle  == [Bundle(entry) EXCEPT
                           !.budget = BudgetWrite(m.acc, acc),
                           !.server = write,
                           !.round  = [key |-> k, id |-> Id]]
            after   == [trained EXCEPT !.acc = acc, !.last[k] = Id]
<1>1. m \in Memories /\ m.acc \in Accountants
  BY DEF TypeOK, Memories
<1>2. Submit(p, after, bundle)
  BY DEF FederatedRound
<1>3. survivors # {} /\ survivors \subseteq Contributors(m, k, RoundMetric, eps)
  BY DEF FederatedRound
<1>4. BudgetWrite(m.acc, acc) \in BudgetWrites
  <2>1. Id \in Nat /\ RoundCost(eps, delta) \in Amounts /\ GaussianRdp[eps] \in RdpCosts
    BY PlatformAssumption DEF TypeOK, Id, RoundCost, Amounts
  <2>. QED
    BY <1>1, <2>1, ChargedType, BudgetWriteType
<1>5. /\ bundle.org = Nothing /\ bundle.policy = Nothing
      /\ bundle.budget # Nothing
      /\ bundle.round = [key |-> k, id |-> Id] /\ bundle.entry = entry
  <2>. HIDE DEF write, acc, entry
  <2>. QED
    BY <1>4, StoreAssumption DEF Bundle
<1>6. /\ entry = Entry(entry.id, m.audit, "federated.round", NoOrg, {}, survivors, eps)
      /\ entry.id = Id
  BY DEF Entry
<1>. HIDE DEF bundle, after, entry
<1>7. tx'[p] = bundle
  BY <1>2 DEF Submit, TypeOK
<1>8. Trains(m, bundle)
  <2>1. Willing(m, k, RoundMetric, survivors, eps)
    BY <1>1, <1>3, ContributorsWilling
  <2>. HIDE DEF acc
  <2>. QED
    BY <1>5, <1>6, <2>1 DEF Trains
<1>. QED
  BY <1>5, <1>7, <1>8 DEF Decides, Decided

\* An operation that raises commits nothing.
LEMMA RaisingDecides ==
    ASSUME TypeOK, NEW p \in Procs, NEW k \in Cohorts, NEW eps \in Epsilons,
           \/ HistogramBadLabels(p, k, eps)
           \/ \E dim \in Dims : FirstRoundFails(p, k, eps, dim)
           \/ \E dim \in Dims, delta \in Deltas : RoundOverBudget(p, k, eps, delta, dim)
    PROVE  Decides(p)
<1>1. pc[p] = "idle" /\ pc' = pc
  BY DEF HistogramBadLabels, FirstRoundFails, RoundOverBudget, RoundRuns, Begin, Abort
<1>. QED
  BY <1>1 DEF Decides

LEMMA OperationDecides ==
    ASSUME TypeOK, NEW p \in Procs, Governed(mem[p]), Operation(p)
    PROVE  Decides(p)
<1>1. CASE \E o \in OrgIds, k \in Cohorts : Join(p, o, k)
  BY <1>1, JoinDecides
<1>2. CASE \E o \in OrgIds, metrics \in ConsentChoices : SetConsent(p, o, metrics)
  BY <1>2, SetConsentDecides
<1>3. CASE \E k \in Cohorts, eps \in Epsilons :
               Histogram(p, k, eps) \/ Variance(p, k, eps) \/ Correlation(p, k, eps)
  <2>1. /\ "query.histogram" \in Queries /\ MetricOf("query.histogram") = "histogram"
        /\ "query.variance" \in Queries /\ MetricOf("query.variance") = "variance"
        /\ "query.correlation" \in Queries /\ MetricOf("query.correlation") = "correlation"
    BY DEF Queries, MetricOf
  <2>. QED
    BY <1>3, <2>1, QueryDecides DEF Histogram, Variance, Correlation
<1>4. CASE \E k \in Cohorts, eps \in Epsilons :
               \/ HistogramBadLabels(p, k, eps)
               \/ \E dim \in Dims : FirstRoundFails(p, k, eps, dim)
               \/ \E dim \in Dims, delta \in Deltas : RoundOverBudget(p, k, eps, delta, dim)
  BY <1>4, RaisingDecides
<1>5. CASE \E k \in Cohorts, eps \in Epsilons, dim \in Dims, delta \in Deltas,
                survivors \in SUBSET OrgIds :
               FederatedRound(p, k, eps, delta, dim, survivors)
  BY <1>5, RoundDecides
<1>. QED
  BY <1>1, <1>2, <1>3, <1>4, <1>5 DEF Operation


-----------------------------------------------------------------------------
(* Governance.  A load reads the registry first and the log last, so the   *)
(* log that a process holds tells all it knows of the members, and so does *)
(* the log its entry extends of all that the entry was decided from.       *)

\* What x knows of the members the log tells.
Told(x, log) ==
    \A o \in OrgIds : x.orgs[o] # NoOrg =>
        /\ JoinedBy(log, Len(log), o)
        /\ \E metrics \in GivenBy(log, Len(log), o, x.orgs[o]) :
               x.policies[o] = [DefaultPolicyFor(x.orgs[o]) EXCEPT !.metrics = metrics]

\* The organizations y knows, z knows alike.
Includes(z, y) == \A o \in OrgIds : y.orgs[o] # NoOrg => z.orgs[o] = y.orgs[o]

\* Nobody but p knows organization o.
OnlyMember(p, o) ==
    db.orgs[o] = NoOrg /\ \A q \in Procs : q # p => mem[q].orgs[o] = NoOrg

\* The log that tells what p's load has read: the log it read, once it has.
Heard(p) == IF scan[p].read = TableCount THEN scan[p].state.audit ELSE db.audit

\* x is what p decided its bundle from.
DecidedFrom(x, p) ==
    /\ Decided(x, tx[p]) /\ Told(x, x.audit) /\ Includes(mem[p], x)
    /\ mem[p].audit = Append(x.audit, tx[p].entry)

StoreTold ==
    /\ Governed(db) /\ Told(db, db.audit)
    /\ \A o \in OrgIds : JoinedBy(db.audit, Len(db.audit), o) => db.orgs[o] # NoOrg

MemoryTold(p) ==
    /\ Governed(mem[p]) /\ Told(mem[p], mem[p].audit)
    /\ \A o \in OrgIds : mem[p].orgs[o] # NoOrg =>
           mem[p].orgs[o] = db.orgs[o] \/ OnlyMember(p, o)

LoadTold(p) ==
    /\ Includes(db, scan[p].state)
    /\ scan[p].read > 1 => Told(scan[p].state, Heard(p))

BundleTold(p) ==
    pc[p] = "commit" =>
        /\ tx[p].org # Nothing => /\ OnlyMember(p, tx[p].org.id)
                                  /\ mem[p].orgs[tx[p].org.id] = tx[p].org.data
        /\ \E x \in Memories : DecidedFrom(x, p)

KnowledgeInv ==
    /\ StoreTold
    /\ \A p \in Procs : MemoryTold(p) /\ LoadTold(p) /\ BundleTold(p)

\* A policy is its vertical's with an allow-list.
LEMMA PolicyParts ==
    ASSUME NEW policy \in Policies, NEW metrics
    PROVE  LET new == [policy EXCEPT !.metrics = metrics]
           IN  /\ new.metrics = metrics /\ new.cap = policy.cap /\ new.floor = policy.floor
               /\ \A other : [new EXCEPT !.metrics = other] = [policy EXCEPT !.metrics = other]
               /\ [policy EXCEPT !.metrics = policy.metrics] = policy
               /\ metrics \in SUBSET AllowedMetrics => new \in Policies /\ new # NoPolicy
  BY PolicyAssumption DEF Policies

LEMMA GivenIs ==
    ASSUME NEW log, NEW n, NEW o, NEW org, NEW metrics
    PROVE  metrics \in GivenBy(log, n, o, org) <=>
               \/ metrics = DefaultPolicyFor(org).metrics
               \/ \E i \in 1..n : /\ log[i].action = "consent.update" /\ log[i].org = o
                                  /\ metrics = log[i].metrics
  BY DEF GivenBy

\* What a log has told by its entry n stays told when the log grows.
LEMMA LogTells ==
    ASSUME NEW log \in Seq(Entries), NEW e \in Entries, NEW n \in 0..Len(log),
           NEW o, NEW org
    PROVE  LET grown == Append(log, e)
           IN  /\ JoinedBy(grown, n, o) <=> JoinedBy(log, n, o)
               /\ GivenBy(grown, n, o, org) = GivenBy(log, n, o, org)
               /\ JoinedBy(log, n, o) => JoinedBy(grown, n + 1, o)
               /\ GivenBy(log, n, o, org) \subseteq GivenBy(grown, n + 1, o, org)
<1>. DEFINE grown == Append(log, e)
<1>1. \A i \in 1..n : grown[i] = log[i]
  OBVIOUS
<1>2. n \in Nat /\ \A i \in 1..n : i \in 1..(n + 1)
  OBVIOUS
<1>. HIDE DEF grown
<1>3. JoinedBy(grown, n, o) <=> JoinedBy(log, n, o)
  BY <1>1 DEF JoinedBy
<1>4. \A metrics : metrics \in GivenBy(grown, n, o, org) <=> metrics \in GivenBy(log, n, o, org)
  BY <1>1, GivenIs
<1>5. JoinedBy(log, n, o) => JoinedBy(grown, n + 1, o)
  BY <1>1, <1>2 DEF JoinedBy
<1>6. \A metrics : metrics \in GivenBy(log, n, o, org) =>
                       metrics \in GivenBy(grown, n + 1, o, org)
  BY <1>1, <1>2, GivenIs
<1>7. GivenBy(grown, n, o, org) = GivenBy(log, n, o, org)
  BY <1>4
<1>. QED
  BY <1>3, <1>5, <1>6, <1>7 DEF grown

\* What the log tells at its end when entry e is appended.
LEMMA EntryTells ==
    ASSUME NEW log \in Seq(Entries), NEW e \in Entries, NEW o
    PROVE  LET grown == Append(log, e)
           IN  /\ Len(grown) = Len(log) + 1 /\ grown \in Seq(Entries)
               /\ JoinedBy(grown, Len(grown), o) =>
                      JoinedBy(log, Len(log), o) \/ (e.action = "org.join" /\ e.org = o)
               /\ e.action = "org.join" /\ e.org = o => JoinedBy(grown, Len(grown), o)
               /\ e.action = "consent.update" /\ e.org = o =>
                      \A org : e.metrics \in GivenBy(grown, Len(grown), o, org)
<1>. DEFINE grown == Append(log, e)
            n     == Len(log)
<1>1. /\ Len(grown) = n + 1 /\ grown \in Seq(Entries) /\ n \in Nat
      /\ grown[n + 1] = e /\ \A i \in 1..n : grown[i] = log[i]
      /\ \A i \in 1..(n + 1) : i \in 1..n \/ i = n + 1
      /\ n + 1 \in 1..(n + 1)
  OBVIOUS
<1>. HIDE DEF grown, n
<1>2. JoinedBy(grown, n + 1, o) =>
          JoinedBy(log, n, o) \/ (e.action = "org.join" /\ e.org = o)
  BY <1>1 DEF JoinedBy
<1>3. e.action = "org.join" /\ e.org = o => JoinedBy(grown, n + 1, o)
  BY <1>1 DEF JoinedBy
<1>4. e.action = "consent.update" /\ e.org = o =>
          \A org : e.metrics \in GivenBy(grown, n + 1, o, org)
  BY <1>1, GivenIs
<1>. QED
  BY <1>1, <1>2, <1>3, <1>4 DEF grown, n

LEMMA ToldGrows ==
    ASSUME NEW log \in Seq(Entries), NEW e \in Entries, NEW x, Told(x, log)
    PROVE  Told(x, Append(log, e))
<1>. SUFFICES ASSUME NEW o \in OrgIds, x.orgs[o] # NoOrg
              PROVE  LET grown == Append(log, e)
                     IN  /\ JoinedBy(grown, Len(grown), o)
                         /\ \E metrics \in GivenBy(grown, Len(grown), o, x.orgs[o]) :
                                x.policies[o] = [DefaultPolicyFor(x.orgs[o]) EXCEPT
                                                    !.metrics = metrics]
  BY DEF Told
<1>1. Len(log) \in 0..Len(log) /\ Len(Append(log, e)) = Len(log) + 1
  OBVIOUS
<1>2. /\ JoinedBy(Append(log, e), Len(log) + 1, o)
      /\ GivenBy(log, Len(log), o, x.orgs[o])
             \subseteq GivenBy(Append(log, e), Len(log) + 1, o, x.orgs[o])
  <2>1. JoinedBy(log, Len(log), o)
    BY DEF Told
  <2>. QED
    BY <1>1, <2>1, LogTells
<1>. QED
  BY <1>1, <1>2 DEF Told

\* What a bundle writes of the governance: a new member, or a consent.
Registers(b, o) ==
    \E k \in Cohorts :
        /\ b.entry.action = "org.join" /\ b.entry.org = o
        /\ b.org = [id |-> o, data |-> Enrolled(k)]
        /\ b.policy = [id |-> o, data |-> DefaultPolicyFor(Enrolled(k))]

Replaces(x, b, o) ==
    \E metrics \in SUBSET AllowedMetrics :
        /\ b.entry.action = "consent.update" /\ b.entry.org = o
        /\ b.entry.metrics = metrics
        /\ x.orgs[o] # NoOrg /\ b.org = Nothing
        /\ b.policy = [id |-> o, data |-> [x.policies[o] EXCEPT !.metrics = metrics]]

LEMMA DecidedKinds ==
    ASSUME NEW x, NEW b \in Bundles, Decided(x, b)
    PROVE  /\ b.entry.prev = Tip(x.audit)
           /\ \/ \E o \in OrgIds : Registers(b, o) \/ Replaces(x, b, o)
              \/ IsRelease(b.entry) /\ b.org = Nothing /\ b.policy = Nothing
<1>1. CASE Enrols(x, b)
  BY <1>1 DEF Enrols, Entry, Registers
<1>2. CASE Updates(x, b)
  <2>. PICK o \in OrgIds, metrics \in SUBSET AllowedMetrics :
           /\ x.orgs[o] # NoOrg
           /\ b.entry = Entry(b.entry.id, x.audit, "consent.update", o, metrics, {}, 0)
           /\ b.org = Nothing
           /\ b.policy = [id |-> o, data |-> [x.policies[o] EXCEPT !.metrics = metrics]]
    BY <1>2 DEF Updates
  <2>1. /\ b.entry.prev = Tip(x.audit) /\ b.entry.action = "consent.update"
        /\ b.entry.org = o /\ b.entry.metrics = metrics
    BY DEF Entry
  <2>. QED
    BY <2>1 DEF Replaces
<1>3. CASE Reports(x, b)
  <2>1. \A action \in Queries : action \notin {"org.join", "consent.update"}
    BY DEF Queries
  <2>. QED
    BY <1>3, <2>1 DEF Reports, Entry, IsRelease
<1>4. CASE Trains(x, b)
  BY <1>4 DEF Trains, Entry, IsRelease
<1>. QED
  BY <1>1, <1>2, <1>3, <1>4 DEF Decided

\* z is y with the governance that bundle b writes.
Amends(y, z, b) ==
    /\ z.orgs = IF b.org = Nothing THEN y.orgs
                ELSE [y.orgs EXCEPT ![b.org.id] = b.org.data]
    /\ z.policies = IF b.policy = Nothing THEN y.policies
                    ELSE [y.policies EXCEPT ![b.policy.id] = b.policy.data]

\* Writing a bundle keeps the governance told by the log with its entry, when
\* all it was decided from was told.
LEMMA BundleTells ==
    ASSUME NEW y, y.orgs \in Registries, y.policies \in PolicyTables,
           NEW x, Includes(y, x), NEW b \in Bundles, Decided(x, b),
           NEW log \in Seq(Entries), Told(x, log), Told(y, log), Governed(y),
           NEW z, Amends(y, z, b)
    PROVE  Governed(z) /\ Told(z, Append(log, b.entry))
<1>. DEFINE grown == Append(log, b.entry)
            Right(v, o) ==
                IF v.orgs[o] = NoOrg THEN v.policies[o] = NoPolicy
                ELSE /\ v.policies[o] # NoPolicy
                     /\ JoinedBy(grown, Len(grown), o)
                     /\ \E metrics \in GivenBy(grown, Len(grown), o, v.orgs[o]) :
                            v.policies[o] = [DefaultPolicyFor(v.orgs[o]) EXCEPT
                                                !.metrics = metrics]
<1>1. b.entry \in Entries /\ b.org \in OrgWrites \cup {Nothing}
      /\ b.policy \in PolicyWrites \cup {Nothing}
  BY DEF Bundles
<1>2. Told(x, grown) /\ Told(y, grown)
  BY <1>1, ToldGrows
<1>3. \A o \in OrgIds : Right(y, o)
  BY <1>2 DEF Told, Governed
<1>4. SUFFICES ASSUME NEW o \in OrgIds PROVE Right(z, o)
  BY <1>4 DEF Told, Governed
<1>5. CASE Registers(b, o)
  <2>. PICK k \in Cohorts :
              /\ b.entry.action = "org.join" /\ b.entry.org = o
              /\ b.org = [id |-> o, data |-> Enrolled(k)]
              /\ b.policy = [id |-> o, data |-> DefaultPolicyFor(Enrolled(k))]
    BY <1>5 DEF Registers
  <2>. DEFINE org == Enrolled(k)
  <2>1. b.org # Nothing /\ b.policy # Nothing /\ org \in Organizations
        /\ DefaultPolicyFor(org) \in Policies
    <3>1. org \in Organizations
      BY StoreAssumption DEF Enrolled, Organizations
    <3>2. DefaultPolicyFor(org) \in Policies
      BY <3>1, DefaultPolicyType
    <3>. HIDE DEF org
    <3>3. [id |-> o, data |-> org] \in OrgWrites
          /\ [id |-> o, data |-> DefaultPolicyFor(org)] \in PolicyWrites
      BY <3>1, <3>2 DEF OrgWrites, PolicyWrites
    <3>. QED
      BY <3>1, <3>2, <3>3, StoreAssumption DEF org
  <2>. HIDE DEF org
  <2>2. z.orgs[o] = org /\ z.policies[o] = DefaultPolicyFor(org)
    BY <2>1 DEF Amends, Registries, PolicyTables, org
  <2>3. JoinedBy(grown, Len(grown), o)
    BY <1>1, EntryTells
  <2>4. DefaultPolicyFor(org).metrics \in GivenBy(grown, Len(grown), o, org)
    BY GivenIs
  <2>5. DefaultPolicyFor(org) = [DefaultPolicyFor(org) EXCEPT
                                     !.metrics = DefaultPolicyFor(org).metrics]
    BY <2>1, PolicyParts
  <2>6. org # NoOrg /\ DefaultPolicyFor(org) # NoPolicy
    BY <2>1, PolicyAssumption
  <2>. HIDE DEF grown
  <2>. QED
    BY <2>2, <2>3, <2>4, <2>5, <2>6
<1>6. CASE Replaces(x, b, o)
  <2>. PICK metrics \in SUBSET AllowedMetrics :
              /\ b.entry.action = "consent.update" /\ b.entry.org = o
              /\ b.entry.metrics = metrics
              /\ x.orgs[o] # NoOrg /\ b.org = Nothing
              /\ b.policy = [id |-> o, data |-> [x.policies[o] EXCEPT !.metrics = metrics]]
    BY <1>6 DEF Replaces
  <2>. DEFINE default == DefaultPolicyFor(y.orgs[o])
  <2>1. y.orgs[o] = x.orgs[o] /\ y.orgs[o] \in Organizations
    BY DEF Includes, Registries
  <2>2. default \in Policies
    BY <2>1, DefaultPolicyType
  <2>. HIDE DEF default
  <2>3. PICK before : x.policies[o] = [default EXCEPT !.metrics = before]
    <3>1. PICK before \in GivenBy(log, Len(log), o, x.orgs[o]) :
              x.policies[o] = [DefaultPolicyFor(x.orgs[o]) EXCEPT !.metrics = before]
      BY DEF Told
    <3>2. DefaultPolicyFor(x.orgs[o]) = default
      BY <2>1 DEF default
    <3>. QED
      BY <3>1, <3>2
  <2>4. [x.policies[o] EXCEPT !.metrics = metrics] = [default EXCEPT !.metrics = metrics]
    BY <2>2, <2>3, PolicyParts
  <2>5. [default EXCEPT !.metrics = metrics] \in Policies
    BY <2>2, PolicyParts
  <2>6. b.policy # Nothing /\ [default EXCEPT !.metrics = metrics] # NoPolicy
    <3>1. b.policy \in PolicyWrites
      BY <2>4, <2>5 DEF PolicyWrites
    <3>. QED
      BY <2>5, <3>1, StoreAssumption, PolicyAssumption
  <2>7. z.orgs[o] = y.orgs[o] /\ z.policies[o] = [default EXCEPT !.metrics = metrics]
    BY <2>4, <2>6 DEF Amends, PolicyTables
  <2>8. JoinedBy(grown, Len(grown), o)
    BY <1>2, <2>1 DEF Told
  <2>9. metrics \in GivenBy(grown, Len(grown), o, y.orgs[o])
    BY <1>1, EntryTells
  <2>. HIDE DEF grown
  <2>. QED
    BY <2>1, <2>6, <2>7, <2>8, <2>9 DEF default
<1>7. CASE z.orgs[o] = y.orgs[o] /\ z.policies[o] = y.policies[o]
  <2>. HIDE DEF grown
  <2>. QED
    BY <1>3, <1>7
<1>8. CASE b.org = Nothing /\ b.policy = Nothing
  BY <1>7, <1>8 DEF Amends
<1>9. CASE \E i \in OrgIds : i # o /\ (Registers(b, i) \/ Replaces(x, b, i))
  <2>. PICK i \in OrgIds : i # o /\ (Registers(b, i) \/ Replaces(x, b, i))
    BY <1>9
  <2>1. b.policy.id = i /\ (b.org = Nothing \/ b.org.id = i)
    <3>1. CASE Registers(b, i)
      BY <3>1 DEF Registers
    <3>2. CASE Replaces(x, b, i)
      BY <3>2 DEF Replaces
    <3>. QED
      BY <3>1, <3>2
  <2>2. z.orgs[o] = y.orgs[o] /\ z.policies[o] = y.policies[o]
    BY <2>1 DEF Amends, Registries, PolicyTables
  <2>. QED
    BY <1>7, <2>2
<1>. HIDE DEF Right
<1>. QED
  BY <1>5, <1>6, <1>8, <1>9, DecidedKinds

\* When its entry can be appended, what p decided from has the stored log, and
\* the members it knew are the stored ones.
LEMMA CommitFinds ==
    ASSUME TypeOK, ChainInv, TipsInv, ForkInv, KnowledgeInv, NEW p \in Procs, Commit(p)
    PROVE  \E x \in Memories : DecidedFrom(x, p) /\ x.audit = db.audit /\ Includes(db, x)
<1>1. pc[p] = "commit" /\ tx[p] \in Bundles
  BY DEF Commit, TypeOK
<1>. PICK x \in Memories : DecidedFrom(x, p)
  BY <1>1 DEF KnowledgeInv, BundleTold
<1>2. tx[p].entry.prev = Tip(x.audit)
  BY <1>1, DecidedKinds DEF DecidedFrom
<1>3. x.audit \in Seq(Entries)
  BY DEF Memories
<1>4. x.audit = db.audit
  BY <1>2, <1>3, FreshLogIsStored DEF DecidedFrom
<1>5. ASSUME NEW o \in OrgIds, x.orgs[o] # NoOrg
      PROVE  db.orgs[o] = x.orgs[o]
  <2>1. mem[p].orgs[o] = x.orgs[o] /\ JoinedBy(db.audit, Len(db.audit), o)
    BY <1>4, <1>5 DEF DecidedFrom, Includes, Told
  <2>2. db.orgs[o] # NoOrg
    BY <2>1 DEF KnowledgeInv, StoreTold
  <2>. QED
    BY <1>5, <2>1, <2>2 DEF KnowledgeInv, MemoryTold, OnlyMember
<1>. QED
  BY <1>4, <1>5 DEF Includes

\* A commit registers at most the organization that only its process knows.
LEMMA CommitMembers ==
    ASSUME TypeOK, KnowledgeInv, NEW p \in Procs, Commit(p)
    PROVE  /\ mem' = mem /\ scan' = scan /\ db' = Apply(db, tx[p])
           /\ pc[p] = "commit" /\ pc'[p] = "idle" /\ tx[p] \in Bundles
           /\ \A q \in Procs : q # p => pc'[q] = pc[q] /\ tx'[q] = tx[q]
           /\ db'.audit = Append(db.audit, tx[p].entry)
           /\ Includes(db', db)
           /\ \A o \in OrgIds :
                  \/ db'.orgs[o] = db.orgs[o]
                  \/ /\ tx[p].org # Nothing /\ tx[p].org.id = o
                     /\ db'.orgs[o] = mem[p].orgs[o] /\ db'.orgs[o] # NoOrg
                     /\ OnlyMember(p, o)
<1>1. /\ mem' = mem /\ scan' = scan /\ db' = Apply(db, tx[p])
      /\ pc[p] = "commit" /\ pc'[p] = "idle" /\ tx[p] \in Bundles
      /\ \A q \in Procs : q # p => pc'[q] = pc[q] /\ tx'[q] = tx[q]
  BY DEF Commit, TypeOK
<1>2. /\ db'.audit = Append(db.audit, tx[p].entry)
      /\ db'.orgs = IF tx[p].org = Nothing THEN db.orgs
                    ELSE [db.orgs EXCEPT ![tx[p].org.id] = tx[p].org.data]
      /\ db.orgs \in Registries
  BY <1>1 DEF Apply, TypeOK, Stores
<1>3. tx[p].org # Nothing => /\ tx[p].org.id \in OrgIds /\ tx[p].org.data # NoOrg
                             /\ OnlyMember(p, tx[p].org.id)
                             /\ mem[p].orgs[tx[p].org.id] = tx[p].org.data
  <2>1. tx[p].org # Nothing => tx[p].org \in OrgWrites
    BY <1>1 DEF Bundles
  <2>2. \A write \in OrgWrites : write.id \in OrgIds /\ write.data # NoOrg
    BY PolicyAssumption DEF OrgWrites
  <2>. QED
    BY <1>1, <2>1, <2>2 DEF KnowledgeInv, BundleTold
<1>4. \A o \in OrgIds :
          \/ db'.orgs[o] = db.orgs[o]
          \/ /\ tx[p].org # Nothing /\ tx[p].org.id = o
             /\ db'.orgs[o] = mem[p].orgs[o] /\ db'.orgs[o] # NoOrg
             /\ OnlyMember(p, o)
  BY <1>2, <1>3 DEF Registries
<1>5. Includes(db', db)
  BY <1>4 DEF Includes, OnlyMember
<1>. QED
  BY <1>1, <1>2, <1>4, <1>5

LEMMA CommitKnows ==
    ASSUME TypeOK, ChainInv, TipsInv, ForkInv, KnowledgeInv, NEW p \in Procs, Commit(p)
    PROVE  KnowledgeInv'
<1>1. /\ mem' = mem /\ scan' = scan /\ db' = Apply(db, tx[p])
      /\ pc[p] = "commit" /\ pc'[p] = "idle" /\ tx[p] \in Bundles
      /\ \A q \in Procs : q # p => pc'[q] = pc[q] /\ tx'[q] = tx[q]
      /\ db'.audit = Append(db.audit, tx[p].entry)
      /\ Includes(db', db)
      /\ \A o \in OrgIds :
             \/ db'.orgs[o] = db.orgs[o]
             \/ /\ tx[p].org # Nothing /\ tx[p].org.id = o
                /\ db'.orgs[o] = mem[p].orgs[o] /\ db'.orgs[o] # NoOrg
                /\ OnlyMember(p, o)
  BY CommitMembers
<1>2. /\ db.audit \in Seq(Entries) /\ tx[p].entry \in Entries
      /\ db.orgs \in Registries /\ db.policies \in PolicyTables
  BY <1>1, TipsAreNumbers DEF TypeOK, Stores
<1>3. StoreTold'
  <2>. PICK x \in Memories : DecidedFrom(x, p) /\ x.audit = db.audit /\ Includes(db, x)
    BY CommitFinds
  <2>1. Governed(db') /\ Told(db', db'.audit)
    <3>1. Told(x, db.audit) /\ Decided(x, tx[p]) /\ Told(db, db.audit) /\ Governed(db)
      BY DEF DecidedFrom, KnowledgeInv, StoreTold
    <3>2. Amends(db, db', tx[p])
      BY <1>1 DEF Apply, Amends
    <3>. QED
      BY <1>1, <1>2, <3>1, <3>2, BundleTells
  <2>2. ASSUME NEW o \in OrgIds, JoinedBy(db'.audit, Len(db'.audit), o)
        PROVE  db'.orgs[o] # NoOrg
    <3>1. CASE JoinedBy(db.audit, Len(db.audit), o)
      BY <1>1, <3>1 DEF KnowledgeInv, StoreTold, Includes
    <3>2. CASE tx[p].entry.action = "org.join" /\ tx[p].entry.org = o
      <4>1. Registers(tx[p], o)
        <5>1. \/ \E i \in OrgIds : Registers(tx[p], i) \/ Replaces(x, tx[p], i)
              \/ IsRelease(tx[p].entry)
          BY <1>1, DecidedKinds DEF DecidedFrom
        <5>2. \A i : Replaces(x, tx[p], i) => tx[p].entry.action = "consent.update"
          BY DEF Replaces
        <5>3. \A i : Registers(tx[p], i) => tx[p].entry.org = i
          BY DEF Registers
        <5>. QED
          BY <3>2, <5>1, <5>2, <5>3 DEF IsRelease
      <4>2. PICK k \in Cohorts : tx[p].org = [id |-> o, data |-> Enrolled(k)]
        BY <4>1 DEF Registers
      <4>3. Enrolled(k) \in Organizations
        BY StoreAssumption DEF Enrolled, Organizations
      <4>4. tx[p].org # Nothing
        <5>1. [id |-> o, data |-> Enrolled(k)] \in OrgWrites
          BY <4>3 DEF OrgWrites
        <5>. QED
          BY <4>2, <5>1, StoreAssumption
      <4>5. db'.orgs[o] = Enrolled(k)
        BY <1>1, <1>2, <4>2, <4>4 DEF Apply, Registries
      <4>. QED
        BY <4>3, <4>5, PolicyAssumption
    <3>. QED
      BY <1>1, <1>2, <2>2, <3>1, <3>2, EntryTells
  <2>3. \A o \in OrgIds : JoinedBy(db'.audit, Len(db'.audit), o) => db'.orgs[o] # NoOrg
    BY <2>2
  <2>. QED
    BY <2>1, <2>3 DEF StoreTold, Told, Governed
<1>4. ASSUME NEW q \in Procs
      PROVE  MemoryTold(q)'
  <2>1. MemoryTold(q)
    BY DEF KnowledgeInv
  <2>2. ASSUME NEW o \in OrgIds, mem[q].orgs[o] # NoOrg
        PROVE  mem[q].orgs[o] = db'.orgs[o] \/ OnlyMember(q, o)'
    <3>1. mem[q].orgs[o] = db.orgs[o] \/ OnlyMember(q, o)
      BY <2>1, <2>2 DEF MemoryTold
    <3>. QED
      BY <1>1, <2>2, <3>1 DEF OnlyMember, Includes
  <2>. QED
    BY <1>1, <2>1, <2>2 DEF MemoryTold, Governed, Told
<1>5. ASSUME NEW q \in Procs
      PROVE  LoadTold(q)'
  <2>1. LoadTold(q)
    BY DEF KnowledgeInv
  <2>2. Includes(db', scan[q].state)
    BY <1>1, <2>1 DEF LoadTold, Includes
  <2>3. scan[q].read > 1 => Told(scan[q].state, Heard(q)')
    BY <1>1, <1>2, <2>1, ToldGrows DEF LoadTold, Heard
  <2>. QED
    BY <1>1, <2>2, <2>3 DEF LoadTold, Includes, Told
<1>6. ASSUME NEW q \in Procs, pc'[q] = "commit"
      PROVE  BundleTold(q)'
  <2>1. q # p /\ pc[q] = "commit" /\ tx'[q] = tx[q] /\ tx[q] \in Bundles
    BY <1>1, <1>6 DEF TypeOK
  <2>2. BundleTold(q)
    BY DEF KnowledgeInv
  <2>3. ASSUME tx[q].org # Nothing
        PROVE  OnlyMember(q, tx[q].org.id)' /\ mem[q].orgs[tx[q].org.id] = tx[q].org.data
    <3>1. OnlyMember(q, tx[q].org.id) /\ mem[q].orgs[tx[q].org.id] = tx[q].org.data
      BY <2>1, <2>2, <2>3 DEF BundleTold
    <3>2. tx[q].org.id \in OrgIds
      BY <2>1, <2>3 DEF Bundles, OrgWrites
    <3>. QED
      BY <1>1, <2>1, <3>1, <3>2 DEF OnlyMember
  <2>4. PICK x \in Memories : DecidedFrom(x, q)
    BY <2>1, <2>2 DEF BundleTold
  <2>5. DecidedFrom(x, q)'
    BY <1>1, <2>1, <2>4 DEF DecidedFrom, Includes
  <2>. QED
    BY <1>1, <2>1, <2>3, <2>5 DEF BundleTold
<1>7. \A q \in Procs : BundleTold(q)'
  BY <1>6 DEF BundleTold
<1>. QED
  BY <1>3, <1>4, <1>5, <1>7 DEF KnowledgeInv

LEMMA SameLoadKnows ==
    ASSUME KnowledgeInv, db' = db, NEW p \in Procs, scan'[p] = scan[p]
    PROVE  LoadTold(p)'
<1>1. LoadTold(p) /\ Heard(p)' = Heard(p)
  BY DEF KnowledgeInv, Heard
<1>. QED
  BY <1>1 DEF LoadTold, Told, Includes

LEMMA PreparesKnows ==
    ASSUME TypeOK, KnowledgeInv, NEW p \in Procs, Operation(p), Prepares(p)
    PROVE  KnowledgeInv'
<1>. PICK m \in Memories, b \in Bundles :
         Begin(p) /\ Submit(p, m, b) /\ Prepared(mem[p], m, b)
  BY DEF Prepares
<1>. DEFINE old == mem[p]
            new == mem'[p]
<1>1. /\ db' = db /\ scan' = scan
      /\ \A q \in Procs : q # p => pc'[q] = pc[q] /\ tx'[q] = tx[q] /\ mem'[q] = mem[q]
      /\ pc'[p] = "commit" /\ tx'[p] = b
      /\ new = [m EXCEPT !.audit = Append(@, b.entry)]
  BY DEF Submit, TypeOK
<1>2. new.audit = Append(old.audit, b.entry) /\ Amends(old, new, b)
  BY <1>1 DEF Prepared, Memories, Amends
<1>3. /\ old \in Memories /\ old.orgs \in Registries /\ old.policies \in PolicyTables
      /\ old.audit \in Seq(Entries)
  BY DEF TypeOK, Memories
<1>4. MemoryTold(p) /\ Governed(old) /\ Told(old, old.audit)
  BY DEF KnowledgeInv, MemoryTold
<1>5. Decided(old, b) /\ (b.org # Nothing => Undrawn(b.org.id))
  BY <1>1, <1>4, OperationDecides DEF Decides
<1>6. Governed(new) /\ Told(new, new.audit)
  <2>1. Includes(old, old)
    BY DEF Includes
  <2>. HIDE DEF old, new
  <2>. QED
    BY <1>2, <1>3, <1>4, <1>5, <2>1, BundleTells
<1>. HIDE DEF new
<1>7. \A o \in OrgIds : \/ new.orgs[o] = old.orgs[o]
                        \/ Undrawn(o) /\ b.org # Nothing /\ o = b.org.id
  <2>1. CASE b.org = Nothing
    BY <1>2, <2>1 DEF Amends
  <2>2. CASE b.org # Nothing
    <3>1. new.orgs = [old.orgs EXCEPT ![b.org.id] = b.org.data] /\ Undrawn(b.org.id)
      BY <1>2, <1>5, <2>2 DEF Amends
    <3>. HIDE DEF old
    <3>. QED
      BY <1>3, <2>2, <3>1 DEF Registries
  <2>. QED
    BY <2>1, <2>2
<1>8. Includes(new, old)
  BY <1>7 DEF Includes, Undrawn
<1>9. ASSUME NEW q \in Procs, q # p, NEW o \in OrgIds, OnlyMember(q, o),
             mem[q].orgs[o] # NoOrg
      PROVE  OnlyMember(q, o)'
  BY <1>1, <1>7, <1>9 DEF OnlyMember, Undrawn, new
<1>10. ASSUME NEW o \in OrgIds, OnlyMember(p, o) \/ Undrawn(o)
       PROVE  OnlyMember(p, o)'
  BY <1>1, <1>10 DEF OnlyMember, Undrawn
<1>11. ASSUME NEW q \in Procs
       PROVE  MemoryTold(q)'
  <2>1. CASE q = p
    <3>1. \A o \in OrgIds : new.orgs[o] # NoOrg =>
              new.orgs[o] = db.orgs[o] \/ OnlyMember(p, o)'
      BY <1>4, <1>7, <1>10 DEF MemoryTold
    <3>. QED
      BY <1>1, <1>6, <2>1, <3>1 DEF MemoryTold, Governed, Told, new
  <2>2. CASE q # p
    <3>1. MemoryTold(q) /\ mem'[q] = mem[q]
      BY <1>1, <2>2 DEF KnowledgeInv
    <3>2. \A o \in OrgIds : mem[q].orgs[o] # NoOrg =>
              mem[q].orgs[o] = db.orgs[o] \/ OnlyMember(q, o)'
      BY <1>9, <2>2, <3>1 DEF MemoryTold
    <3>. QED
      BY <1>1, <3>1, <3>2 DEF MemoryTold, Governed, Told
  <2>. QED
    BY <2>1, <2>2
<1>12. ASSUME NEW q \in Procs, pc'[q] = "commit"
       PROVE  BundleTold(q)'
  <2>1. CASE q = p
    <3>1. b.org # Nothing => b.org.id \in OrgIds /\ new.orgs[b.org.id] = b.org.data
      BY <1>2, <1>3 DEF Amends, Bundles, OrgWrites, Registries
    <3>2. b.org # Nothing => OnlyMember(p, b.org.id)'
      BY <1>1, <1>5, <3>1 DEF OnlyMember, Undrawn
    <3>3. PICK x \in Memories : x = old
      BY <1>3
    <3>4. DecidedFrom(x, p)'
      BY <1>1, <1>2, <1>4, <1>5, <1>8, <3>3 DEF DecidedFrom, Includes, new
    <3>. QED
      BY <1>1, <2>1, <3>1, <3>2, <3>4 DEF BundleTold, new
  <2>2. CASE q # p
    <3>1. BundleTold(q) /\ pc[q] = "commit" /\ tx[q] \in Bundles
          /\ tx'[q] = tx[q] /\ mem'[q] = mem[q]
      BY <1>1, <1>12, <2>2 DEF KnowledgeInv, TypeOK
    <3>2. tx[q].org # Nothing => tx[q].org.id \in OrgIds /\ tx[q].org.data # NoOrg
      <4>1. tx[q].org # Nothing => tx[q].org \in OrgWrites
        BY <3>1 DEF Bundles
      <4>2. \A write \in OrgWrites : write.id \in OrgIds /\ write.data # NoOrg
        BY PolicyAssumption DEF OrgWrites
      <4>. QED
        BY <4>1, <4>2
    <3>3. tx[q].org # Nothing => /\ OnlyMember(q, tx[q].org.id)'
                                 /\ mem[q].orgs[tx[q].org.id] = tx[q].org.data
      BY <1>9, <2>2, <3>1, <3>2 DEF BundleTold
    <3>4. PICK x \in Memories : DecidedFrom(x, q)
      BY <3>1 DEF BundleTold
    <3>5. DecidedFrom(x, q)'
      BY <3>1, <3>4 DEF DecidedFrom, Includes
    <3>. QED
      BY <3>1, <3>3, <3>5 DEF BundleTold
  <2>. QED
    BY <2>1, <2>2
<1>13. \A q \in Procs : BundleTold(q)'
  BY <1>12 DEF BundleTold
<1>14. StoreTold' /\ \A q \in Procs : LoadTold(q)'
  <2>1. StoreTold'
    BY <1>1 DEF KnowledgeInv, StoreTold, Governed, Told
  <2>. QED
    BY <1>1, <2>1, SameLoadKnows
<1>. QED
  BY <1>11, <1>13, <1>14 DEF KnowledgeInv

\* A step that neither commits nor submits, and leaves in memory what was there
\* or what the store has.
LEMMA QuietKnows ==
    ASSUME TypeOK, KnowledgeInv, db' = db,
           \A q \in Procs : pc'[q] = "commit" =>
               pc[q] = "commit" /\ tx'[q] = tx[q] /\ mem'[q] = mem[q],
           \A q \in Procs :
               \/ /\ mem'[q].orgs = mem[q].orgs /\ mem'[q].policies = mem[q].policies
                  /\ mem'[q].audit = mem[q].audit
               \/ /\ Governed(mem'[q]) /\ Told(mem'[q], mem'[q].audit)
                  /\ Includes(db, mem'[q]),
           \A q \in Procs : LoadTold(q)'
    PROVE  KnowledgeInv'
<1>1. ASSUME NEW q \in Procs, NEW o \in OrgIds, OnlyMember(q, o)
      PROVE  OnlyMember(q, o)'
  BY <1>1 DEF OnlyMember, Includes
<1>2. ASSUME NEW q \in Procs
      PROVE  MemoryTold(q)'
  <2>1. MemoryTold(q)
    BY DEF KnowledgeInv
  <2>2. CASE /\ mem'[q].orgs = mem[q].orgs /\ mem'[q].policies = mem[q].policies
             /\ mem'[q].audit = mem[q].audit
    <3>1. \A o \in OrgIds : mem'[q].orgs[o] # NoOrg =>
              mem'[q].orgs[o] = db'.orgs[o] \/ OnlyMember(q, o)'
      BY <1>1, <2>1, <2>2 DEF MemoryTold
    <3>2. Governed(mem'[q]) /\ Told(mem'[q], mem'[q].audit)
      BY <2>1, <2>2 DEF MemoryTold, Governed, Told
    <3>. QED
      BY <3>1, <3>2 DEF MemoryTold, Governed, Told
  <2>3. CASE /\ Governed(mem'[q]) /\ Told(mem'[q], mem'[q].audit)
             /\ Includes(db, mem'[q])
    BY <2>3 DEF MemoryTold, Governed, Told, Includes
  <2>. QED
    BY <2>2, <2>3
<1>3. ASSUME NEW q \in Procs, pc'[q] = "commit"
      PROVE  BundleTold(q)'
  <2>1. /\ BundleTold(q) /\ pc[q] = "commit" /\ tx'[q] = tx[q] /\ mem'[q] = mem[q]
    BY <1>3 DEF KnowledgeInv
  <2>2. tx[q].org # Nothing => /\ OnlyMember(q, tx[q].org.id)'
                               /\ mem[q].orgs[tx[q].org.id] = tx[q].org.data
    <3>1. tx[q].org # Nothing => tx[q].org.id \in OrgIds
      BY <2>1 DEF TypeOK, Bundles, OrgWrites
    <3>. QED
      BY <1>1, <2>1, <3>1 DEF BundleTold
  <2>3. PICK x \in Memories : DecidedFrom(x, q)
    BY <2>1 DEF BundleTold
  <2>4. DecidedFrom(x, q)'
    BY <2>1, <2>3 DEF DecidedFrom, Includes
  <2>. QED
    BY <2>1, <2>2, <2>4 DEF BundleTold
<1>4. \A q \in Procs : BundleTold(q)'
  BY <1>3 DEF BundleTold
<1>5. StoreTold'
  BY DEF KnowledgeInv, StoreTold, Governed, Told
<1>. QED
  BY <1>2, <1>4, <1>5 DEF KnowledgeInv

\* What a load of the whole store, or an empty process, puts into memory.
LEMMA LoadedKnows ==
    ASSUME NEW s \in Stores, Includes(db, s), Told(s, s.audit), NEW m, NEW limit
    PROVE  /\ LET new == Restored(m, s)
              IN  Governed(new) /\ Told(new, new.audit) /\ Includes(db, new)
           /\ LET new == LiveObjects(limit)
              IN  Governed(new) /\ Told(new, new.audit) /\ Includes(db, new)
<1>. DEFINE new == Restored(m, s)
<1>1. /\ new.orgs = s.orgs /\ new.audit = s.audit
      /\ \A o \in OrgIds : new.policies[o] = IF s.orgs[o] = NoOrg THEN NoPolicy
                                             ELSE s.policies[o]
  BY DEF Restored
<1>2. ASSUME NEW o \in OrgIds, s.orgs[o] # NoOrg
      PROVE  s.policies[o] # NoPolicy
  <2>. DEFINE default == DefaultPolicyFor(s.orgs[o])
  <2>1. s.orgs[o] \in Organizations
    BY <1>2 DEF Stores, Registries
  <2>2. default \in Policies
    BY <2>1, DefaultPolicyType
  <2>3. PICK metrics \in GivenBy(s.audit, Len(s.audit), o, s.orgs[o]) :
            s.policies[o] = [default EXCEPT !.metrics = metrics]
    BY <1>2 DEF Told
  <2>4. metrics \in SUBSET AllowedMetrics
    <3>1. default.metrics \in SUBSET AllowedMetrics
      BY <2>2 DEF Policies
    <3>2. \A i \in 1..Len(s.audit) : s.audit[i].metrics \in SUBSET AllowedMetrics
      <4>1. s.audit \in Seq(Entries) /\ \A e \in Entries : e.metrics \in SUBSET AllowedMetrics
        BY DEF Stores, Entries
      <4>. QED
        BY <4>1
    <3>. QED
      BY <3>1, <3>2, GivenIs
  <2>. HIDE DEF default
  <2>5. [default EXCEPT !.metrics = metrics] \in Policies
    BY <2>2, <2>4, PolicyParts
  <2>. QED
    BY <2>3, <2>5, PolicyAssumption
<1>. HIDE DEF new
<1>3. Governed(new)
  BY <1>1, <1>2 DEF Governed
<1>4. Told(new, new.audit)
  BY <1>1 DEF Told
<1>5. Includes(db, new)
  BY <1>1 DEF Includes
<1>6. LET empty == LiveObjects(limit)
      IN  Governed(empty) /\ Told(empty, empty.audit) /\ Includes(db, empty)
  BY DEF LiveObjects, Nobody, NoPolicies, Governed, Told, Includes
<1>. QED
  BY <1>3, <1>4, <1>5, <1>6 DEF new

LEMMA NothingKnows ==
    ASSUME NEW p \in Procs, scan'[p] = NothingRead
    PROVE  LoadTold(p)'
  BY DEF LoadTold, NothingRead, EmptyStore, Nobody, Includes

\* One more table: the policies are those of members that were read before, and
\* the log is read when it tells everything that was.
LEMMA ReadTableKnows ==
    ASSUME TypeOK, KnowledgeInv, NEW p \in Procs, ReadTable(p)
    PROVE  LoadTold(p)'
<1>. DEFINE s == scan[p].state
            n == scan[p].read + 1
            t == ReadFrom(s, db, n)
<1>1. /\ scan'[p] = [state |-> t, read |-> n] /\ db' = db
      /\ n \in 1..TableCount
  BY DEF ReadTable, TypeOK
<1>2. Includes(db, s) /\ (scan[p].read > 1 => Told(s, Heard(p)))
  BY DEF KnowledgeInv, LoadTold
<1>3. t.orgs = IF n = 1 THEN db.orgs ELSE s.orgs
  BY DEF ReadFrom
<1>4. t.policies = IF n = 2 THEN db.policies ELSE s.policies
  BY DEF ReadFrom
<1>5. t.audit = IF n = 6 THEN db.audit ELSE s.audit
  BY DEF ReadFrom
<1>6. Heard(p)' = db.audit
  BY <1>1, <1>5 DEF Heard, TableCount
<1>. HIDE DEF t
<1>7. Includes(db, t)
  BY <1>2, <1>3 DEF Includes
<1>8. ASSUME n > 1 PROVE Told(t, db.audit)
  <2>1. CASE n = 2
    <3>1. Told(db, db.audit)
      BY DEF KnowledgeInv, StoreTold
    <3>. QED
      BY <1>2, <1>3, <1>4, <2>1, <3>1 DEF Told, Includes
  <2>2. CASE n > 2
    <3>1. scan[p].read > 1 /\ scan[p].read # TableCount
      BY <1>1, <2>2 DEF TableCount, TypeOK
    <3>2. Told(s, db.audit)
      BY <1>2, <3>1 DEF Heard
    <3>. QED
      BY <1>3, <1>4, <2>2, <3>2 DEF Told
  <2>. QED
    BY <1>1, <1>8, <2>1, <2>2 DEF TableCount
<1>. QED
  BY <1>1, <1>6, <1>7, <1>8 DEF LoadTold, Includes, Told

LEMMA RecoveryKnows ==
    ASSUME TypeOK, KnowledgeInv, NEW p \in Procs, Recovery(p)
    PROVE  KnowledgeInv'
<1>. DEFINE s == scan[p].state
<1>1. /\ db' = db /\ tx' = tx
      /\ \A q \in Procs : q # p => mem'[q] = mem[q] /\ scan'[q] = scan[q] /\ pc'[q] = pc[q]
  BY RecoveryLoads
<1>2. ASSUME NEW q \in Procs, q # p
      PROVE  LoadTold(q)'
  BY <1>1, <1>2, SameLoadKnows
<1>3. CASE ReadTable(p)
  <2>1. LoadTold(p)'
    BY <1>3, ReadTableKnows
  <2>2. mem' = mem /\ pc' = pc
    BY <1>3 DEF ReadTable
  <2>3. \A q \in Procs : LoadTold(q)'
    BY <1>2, <2>1
  <2>. QED
    BY <1>1, <2>2, <2>3, QuietKnows
<1>4. CASE Started(p) \/ Reconverged(p)
  <2>1. /\ scan[p].read = TableCount /\ scan'[p] = NothingRead
        /\ pc'[p] \in {"idle", "down"}
    BY <1>4 DEF Started, Reconverged, Loaded, TypeOK
  <2>2. \/ mem'[p] = mem[p]
        \/ mem'[p] = LiveObjects(SeedLimit)
        \/ mem'[p] = LiveObjects(DefaultLimit)
        \/ mem'[p] = Restored(LiveObjects(SeedLimit), s)
        \/ mem'[p] = Restored(mem[p], s)
    BY RecoveryLoads
  <2>3. s \in Stores /\ Includes(db, s) /\ Told(s, s.audit)
    BY <2>1 DEF TypeOK, KnowledgeInv, LoadTold, Heard, TableCount
  <2>4. \/ mem'[p] = mem[p]
        \/ /\ Governed(mem'[p]) /\ Told(mem'[p], mem'[p].audit)
           /\ Includes(db, mem'[p])
    BY <2>2, <2>3, LoadedKnows
  <2>5. \A q \in Procs : LoadTold(q)'
    BY <1>2, <2>1, NothingKnows
  <2>6. \A q \in Procs : pc'[q] = "commit" =>
            pc[q] = "commit" /\ tx'[q] = tx[q] /\ mem'[q] = mem[q]
    BY <1>1, <2>1
  <2>7. \A q \in Procs :
            \/ /\ mem'[q].orgs = mem[q].orgs /\ mem'[q].policies = mem[q].policies
               /\ mem'[q].audit = mem[q].audit
            \/ /\ Governed(mem'[q]) /\ Told(mem'[q], mem'[q].audit)
               /\ Includes(db, mem'[q])
    BY <1>1, <2>4
  <2>. QED
    BY <1>1, <2>5, <2>6, <2>7, QuietKnows
<1>. QED
  BY <1>3, <1>4 DEF Recovery

LEMMA OutcomeKnows ==
    ASSUME TypeOK, KnowledgeInv, NEW p \in Procs,
           \/ Conflict(p) \/ CommitFails(p) \/ ReloadFails(p) \/ Crash(p) \/ Start(p)
    PROVE  KnowledgeInv'
<1>1. /\ db' = db
      /\ \A q \in Procs : q # p => /\ scan'[q] = scan[q] /\ mem'[q] = mem[q]
                                   /\ pc'[q] = pc[q] /\ tx'[q] = tx[q]
      /\ pc'[p] # "commit"
      /\ mem'[p] \in {mem[p], LiveObjects(SeedLimit)}
      /\ scan'[p] \in {scan[p], NothingRead}
  BY OutcomeLeaves
<1>2. LET empty == LiveObjects(SeedLimit)
      IN  Governed(empty) /\ Told(empty, empty.audit) /\ Includes(db, empty)
  BY DEF LiveObjects, Nobody, NoPolicies, Governed, Told, Includes
<1>3. ASSUME NEW q \in Procs PROVE LoadTold(q)'
  <2>1. CASE scan'[q] = scan[q]
    BY <1>1, <2>1, SameLoadKnows
  <2>. QED
    BY <1>1, <2>1, NothingKnows
<1>4. \A q \in Procs :
          \/ /\ mem'[q].orgs = mem[q].orgs /\ mem'[q].policies = mem[q].policies
             /\ mem'[q].audit = mem[q].audit
          \/ /\ Governed(mem'[q]) /\ Told(mem'[q], mem'[q].audit)
             /\ Includes(db, mem'[q])
  BY <1>1, <1>2
<1>. QED
  BY <1>1, <1>3, <1>4, QuietKnows

LEMMA RaisesKnows ==
    ASSUME TypeOK, KnowledgeInv, NEW p \in Procs, Raises(p)
    PROVE  KnowledgeInv'
<1>. PICK m \in Memories : Begin(p) /\ Abort(p, m) /\ Raised(mem[p], m)
  BY DEF Raises
<1>1. /\ db' = db /\ scan' = scan /\ pc' = pc /\ tx' = tx /\ pc[p] = "idle"
      /\ \A q \in Procs : q # p => mem'[q] = mem[q]
      /\ mem'[p] = m
  BY DEF Abort, Begin, TypeOK
<1>2. /\ m.orgs = mem[p].orgs /\ m.policies = mem[p].policies /\ m.audit = mem[p].audit
  BY DEF Raised
<1>3. \A q \in Procs : LoadTold(q)'
  BY <1>1, SameLoadKnows
<1>4. \A q \in Procs : pc'[q] = "commit" =>
          pc[q] = "commit" /\ tx'[q] = tx[q] /\ mem'[q] = mem[q]
  BY <1>1
<1>5. \A q \in Procs : /\ mem'[q].orgs = mem[q].orgs /\ mem'[q].policies = mem[q].policies
                       /\ mem'[q].audit = mem[q].audit
  BY <1>1, <1>2
<1>. QED
  BY <1>1, <1>3, <1>4, <1>5, QuietKnows

LEMMA InitKnows == Init => KnowledgeInv
<1>. SUFFICES ASSUME Init PROVE KnowledgeInv
  OBVIOUS
<1>1. /\ db = EmptyStore
      /\ \A p \in Procs : /\ mem[p] = LiveObjects(SeedLimit) /\ pc[p] = "down"
                          /\ scan[p] = NothingRead
  BY DEF Init
<1>2. StoreTold
  BY <1>1 DEF StoreTold, Governed, Told, JoinedBy, EmptyStore, Nobody, NoPolicies
<1>3. ASSUME NEW p \in Procs
      PROVE  MemoryTold(p) /\ LoadTold(p) /\ BundleTold(p)
  <2>1. MemoryTold(p)
    BY <1>1 DEF MemoryTold, LiveObjects, Governed, Told, Nobody, NoPolicies
  <2>2. LoadTold(p)
    BY <1>1 DEF LoadTold, NothingRead, EmptyStore, Includes, Nobody
  <2>3. BundleTold(p)
    BY <1>1 DEF BundleTold
  <2>. QED
    BY <2>1, <2>2, <2>3
<1>. QED
  BY <1>2, <1>3 DEF KnowledgeInv

LEMMA NextKnows ==
    TypeOK /\ ChainInv /\ TipsInv /\ ForkInv /\ KnowledgeInv /\ [Next]_vars => KnowledgeInv'
<1>. SUFFICES ASSUME TypeOK, ChainInv, TipsInv, ForkInv, KnowledgeInv, [Next]_vars
              PROVE  KnowledgeInv'
  OBVIOUS
<1>1. CASE \E p \in Procs : Operation(p)
  BY <1>1, OperationKinds, PreparesKnows, RaisesKnows
<1>2. CASE \E p \in Procs : Recovery(p)
  BY <1>2, RecoveryKnows
<1>3. CASE \E p \in Procs : Commit(p)
  BY <1>3, CommitKnows
<1>4. CASE \E p \in Procs : \/ Conflict(p) \/ CommitFails(p) \/ ReloadFails(p)
                            \/ Crash(p) \/ Start(p)
  BY <1>4, OutcomeKnows
<1>5. CASE UNCHANGED vars
  <2>1. \A q \in Procs : LoadTold(q)'
    BY <1>5, SameLoadKnows DEF vars
  <2>. QED
    BY <1>5, <2>1, QuietKnows DEF vars
<1>. QED
  BY <1>1, <1>2, <1>3, <1>4, <1>5 DEF Next, Quiescent

LEMMA KnowledgeIsInvariant ==
    Spec => [](TypeOK /\ ChainInv /\ TipsInv /\ ForkInv /\ KnowledgeInv)
<1>1. Init => TypeOK /\ ChainInv /\ TipsInv /\ ForkInv /\ KnowledgeInv
  BY InitType, InitChains, InitTips, InitForks, InitKnows
<1>2. TypeOK /\ ChainInv /\ TipsInv /\ ForkInv /\ KnowledgeInv /\ [Next]_vars
          => (TypeOK /\ ChainInv /\ TipsInv /\ ForkInv /\ KnowledgeInv)'
  BY NextType, NextChains, NextTips, NextForks, NextKnows
<1>. QED
  BY <1>1, <1>2, PTL DEF Spec

\* Whatever a process knows of the members, its log tells: a load that is torn
\* by other processes' commits reads the registry first and the log last.
THEOREM KnowledgeFollowsLog == Spec => []KnowledgeIsLogged
<1>1. KnowledgeInv => KnowledgeIsLogged
  BY DEF KnowledgeInv, MemoryTold, Told, KnowledgeIsLogged
<1>. QED
  BY <1>1, KnowledgeIsInvariant, PTL

-----------------------------------------------------------------------------
(* Consent.  What a release was decided from has the log before its entry; *)
(* nothing that this log told is taken back later.                         *)

\* Entry i of d's log was consented to.
ConsentedAt(d, i) ==
    LET e == d.audit[i]
    IN  IsRelease(e) =>
            /\ \A o \in e.participants :
                  /\ JoinedBy(d.audit, i - 1, o)
                  /\ \E metrics \in GivenBy(d.audit, i - 1, o, d.orgs[o]) :
                        MetricOf(e.action) \in metrics
                  /\ e.eps <= DefaultPolicyFor(d.orgs[o]).cap
                  /\ ~IsRound(e) => Cardinality(e.participants)
                                         >= DefaultPolicyFor(d.orgs[o]).floor
            /\ ~IsRound(e) => Cardinality(e.participants) >= MinParticipants

LEMMA ConsentIsAt == ReleasesWereConsented <=> \A i \in DOMAIN db.audit : ConsentedAt(db, i)
  BY DEF ReleasesWereConsented, ConsentedAt

\* A policy that the log tells gives what it allows within its vertical's terms.
LEMMA ToldPolicy ==
    ASSUME NEW x, NEW log, Told(x, log), NEW o \in OrgIds, x.orgs[o] \in Organizations
    PROVE  LET default == DefaultPolicyFor(x.orgs[o])
           IN  /\ JoinedBy(log, Len(log), o)
               /\ x.policies[o].metrics \in GivenBy(log, Len(log), o, x.orgs[o])
               /\ x.policies[o].cap = default.cap /\ x.policies[o].floor = default.floor
<1>. DEFINE default == DefaultPolicyFor(x.orgs[o])
<1>1. x.orgs[o] # NoOrg
  BY PolicyAssumption
<1>2. default \in Policies
  BY DefaultPolicyType
<1>3. PICK metrics \in GivenBy(log, Len(log), o, x.orgs[o]) :
          x.policies[o] = [default EXCEPT !.metrics = metrics]
  BY <1>1 DEF Told
<1>4. JoinedBy(log, Len(log), o)
  BY <1>1 DEF Told
<1>. HIDE DEF default
<1>5. /\ x.policies[o].metrics = metrics /\ x.policies[o].cap = default.cap
      /\ x.policies[o].floor = default.floor
  <2>. DEFINE new == [default EXCEPT !.metrics = metrics]
  <2>1. new.metrics = metrics /\ new.cap = default.cap /\ new.floor = default.floor
    BY <1>2, PolicyParts
  <2>. HIDE DEF new
  <2>2. x.policies[o] = new
    BY <1>3 DEF new
  <2>. QED
    BY <2>1, <2>2
<1>6. x.policies[o].metrics \in GivenBy(log, Len(log), o, x.orgs[o])
  BY <1>3, <1>5
<1>. QED
  BY <1>4, <1>5, <1>6 DEF default

\* A release that was decided on what the stored log tells is consented to.
LEMMA DecisionConsents ==
    ASSUME TypeOK, NEW x \in Memories, NEW b \in Bundles, Decided(x, b),
           Told(x, x.audit), x.audit = db.audit, Includes(db, x), IsRelease(b.entry)
    PROVE  LET n == Len(db.audit)
               e == b.entry
           IN  /\ \A o \in e.participants :
                     /\ JoinedBy(db.audit, n, o) /\ x.orgs[o] = db.orgs[o]
                     /\ \E metrics \in GivenBy(db.audit, n, o, db.orgs[o]) :
                           MetricOf(e.action) \in metrics
                     /\ e.eps <= DefaultPolicyFor(db.orgs[o]).cap
                     /\ ~IsRound(e) => Cardinality(e.participants)
                                            >= DefaultPolicyFor(db.orgs[o]).floor
               /\ ~IsRound(e) => Cardinality(e.participants) >= MinParticipants
<1>. DEFINE e    == b.entry
            some == e.participants
<1>1. /\ \E k \in Cohorts : Willing(x, k, MetricOf(e.action), some, e.eps)
      /\ ~IsRound(e) => /\ Cardinality(some) >= MinParticipants
                        /\ \A o \in some : Cardinality(some) >= x.policies[o].floor
  <2>1. CASE Reports(x, b)
    BY <2>1 DEF Reports, Entry
  <2>2. CASE Trains(x, b)
    <3>1. e.action = "federated.round"
      BY <2>2 DEF Trains, Entry
    <3>2. MetricOf("federated.round") = RoundMetric
      BY DEF MetricOf
    <3>. QED
      BY <2>2, <3>1, <3>2 DEF Trains, Entry, IsRound
  <2>3. ASSUME Enrols(x, b) PROVE FALSE
    <3>1. PICK o \in OrgIds : b.entry = Entry(b.entry.id, x.audit, "org.join", o, {}, {}, 0)
      BY <2>3 DEF Enrols
    <3>2. b.entry.action = "org.join"
      BY <3>1 DEF Entry
    <3>. QED
      BY <3>2 DEF IsRelease
  <2>4. ASSUME Updates(x, b) PROVE FALSE
    <3>1. PICK o \in OrgIds, metrics \in SUBSET AllowedMetrics :
              b.entry = Entry(b.entry.id, x.audit, "consent.update", o, metrics, {}, 0)
      BY <2>4 DEF Updates
    <3>2. b.entry.action = "consent.update"
      BY <3>1 DEF Entry
    <3>. QED
      BY <3>2 DEF IsRelease
  <2>. QED
    BY <2>1, <2>2, <2>3, <2>4 DEF Decided
<1>2. PICK k \in Cohorts : Willing(x, k, MetricOf(e.action), some, e.eps)
  BY <1>1
<1>3. Enrolled(k) \in Organizations /\ some \in SUBSET OrgIds
  BY StoreAssumption DEF Enrolled, Organizations, Bundles, Entries
<1>. HIDE DEF e, some
<1>4. ASSUME NEW o \in some
      PROVE  /\ JoinedBy(db.audit, Len(db.audit), o) /\ x.orgs[o] = db.orgs[o]
             /\ \E metrics \in GivenBy(db.audit, Len(db.audit), o, db.orgs[o]) :
                   MetricOf(e.action) \in metrics
             /\ e.eps <= DefaultPolicyFor(db.orgs[o]).cap
             /\ ~IsRound(e) => Cardinality(some) >= DefaultPolicyFor(db.orgs[o]).floor
  <2>1. /\ o \in OrgIds /\ x.orgs[o] = Enrolled(k)
        /\ MetricOf(e.action) \in x.policies[o].metrics /\ e.eps <= x.policies[o].cap
        /\ ~IsRound(e) => Cardinality(some) >= x.policies[o].floor
    BY <1>1, <1>2, <1>3 DEF Willing
  <2>2. x.orgs[o] = db.orgs[o]
    BY <1>3, <2>1, PolicyAssumption DEF Includes
  <2>3. /\ JoinedBy(db.audit, Len(db.audit), o)
        /\ x.policies[o].metrics \in GivenBy(db.audit, Len(db.audit), o, x.orgs[o])
        /\ x.policies[o].cap = DefaultPolicyFor(x.orgs[o]).cap
        /\ x.policies[o].floor = DefaultPolicyFor(x.orgs[o]).floor
    BY <1>3, <2>1, ToldPolicy
  <2>. QED
    BY <2>1, <2>2, <2>3
<1>. QED
  BY <1>1, <1>4 DEF e, some

LEMMA CommitConsents ==
    ASSUME TypeOK, ChainInv, TipsInv, ForkInv, KnowledgeInv, ReleasesWereConsented,
           NEW p \in Procs, Commit(p)
    PROVE  ReleasesWereConsented'
<1>. DEFINE n == Len(db.audit)
            e == tx[p].entry
<1>1. /\ tx[p] \in Bundles /\ db'.audit = Append(db.audit, e) /\ Includes(db', db)
      /\ db.audit \in Seq(Entries) /\ e \in Entries
  BY CommitMembers, TipsAreNumbers DEF TypeOK, Stores
<1>2. /\ DOMAIN db'.audit = 1..(n + 1) /\ DOMAIN db.audit = 1..n /\ n \in Nat
      /\ db'.audit[n + 1] = e /\ \A i \in 1..n : db'.audit[i] = db.audit[i]
  BY <1>1
<1>. HIDE DEF e
<1>0. ASSUME NEW i \in 0..n, NEW o, NEW org
      PROVE  /\ JoinedBy(db'.audit, i, o) <=> JoinedBy(db.audit, i, o)
             /\ GivenBy(db'.audit, i, o, org) = GivenBy(db.audit, i, o, org)
  <2>. DEFINE log == db.audit
              grown == Append(log, e)
  <2>. HIDE DEF log
  <2>1. /\ JoinedBy(grown, i, o) <=> JoinedBy(log, i, o)
        /\ GivenBy(grown, i, o, org) = GivenBy(log, i, o, org)
    BY <1>1, LogTells DEF log
  <2>. HIDE DEF grown
  <2>2. db'.audit = grown
    BY <1>1 DEF grown, log
  <2>. QED
    BY <2>1, <2>2 DEF log
<1>3. ASSUME NEW i \in 1..n
      PROVE  ConsentedAt(db', i)
  <2>. DEFINE old == db.audit[i]
  <2>1. ConsentedAt(db, i) /\ i - 1 \in 0..n /\ db'.audit[i] = old /\ old \in Entries
    BY <1>1, <1>2, ConsentIsAt
  <2>2. ASSUME NEW o \in old.participants, IsRelease(old)
        PROVE  /\ JoinedBy(db'.audit, i - 1, o) /\ db'.orgs[o] = db.orgs[o]
               /\ GivenBy(db'.audit, i - 1, o, db.orgs[o])
                      = GivenBy(db.audit, i - 1, o, db.orgs[o])
    <3>1. JoinedBy(db.audit, i - 1, o) /\ o \in OrgIds
      BY <2>1, <2>2 DEF ConsentedAt, Entries
    <3>2. /\ JoinedBy(db'.audit, i - 1, o)
          /\ GivenBy(db'.audit, i - 1, o, db.orgs[o])
                 = GivenBy(db.audit, i - 1, o, db.orgs[o])
      BY <1>0, <2>1, <3>1
    <3>3. JoinedBy(db.audit, n, o)
      BY <1>2, <3>1 DEF JoinedBy
    <3>4. db.orgs[o] # NoOrg
      BY <3>1, <3>3 DEF KnowledgeInv, StoreTold
    <3>. QED
      BY <1>1, <3>1, <3>2, <3>4 DEF Includes
  <2>. HIDE DEF old
  <2>. QED
    BY <2>1, <2>2 DEF ConsentedAt, old
<1>4. ConsentedAt(db', n + 1)
  <2>. SUFFICES ASSUME IsRelease(e) PROVE ConsentedAt(db', n + 1)
    BY <1>2 DEF ConsentedAt
  <2>. PICK x \in Memories : DecidedFrom(x, p) /\ x.audit = db.audit /\ Includes(db, x)
    BY CommitFinds
  <2>1. /\ \A o \in e.participants :
              /\ JoinedBy(db.audit, n, o) /\ x.orgs[o] = db.orgs[o]
              /\ \E metrics \in GivenBy(db.audit, n, o, db.orgs[o]) :
                    MetricOf(e.action) \in metrics
              /\ e.eps <= DefaultPolicyFor(db.orgs[o]).cap
              /\ ~IsRound(e) => Cardinality(e.participants)
                                     >= DefaultPolicyFor(db.orgs[o]).floor
        /\ ~IsRound(e) => Cardinality(e.participants) >= MinParticipants
    BY <1>1, DecisionConsents DEF DecidedFrom, e
  <2>2. (n + 1) - 1 = n /\ n \in 0..n
    BY <1>2
  <2>3. ASSUME NEW o \in e.participants
        PROVE  /\ JoinedBy(db'.audit, n, o) /\ db'.orgs[o] = db.orgs[o]
               /\ GivenBy(db'.audit, n, o, db.orgs[o]) = GivenBy(db.audit, n, o, db.orgs[o])
    <3>1. JoinedBy(db.audit, n, o) /\ o \in OrgIds
      BY <1>1, <2>1 DEF Entries
    <3>2. db.orgs[o] # NoOrg
      BY <3>1 DEF KnowledgeInv, StoreTold
    <3>. QED
      BY <1>0, <1>1, <2>2, <3>1, <3>2 DEF Includes
  <2>. HIDE DEF n
  <2>. QED
    BY <1>2, <2>1, <2>2, <2>3 DEF ConsentedAt
<1>5. \A i \in DOMAIN db'.audit : ConsentedAt(db', i)
  BY <1>2, <1>3, <1>4
<1>. QED
  BY <1>5 DEF ReleasesWereConsented, ConsentedAt

LEMMA NextConsents ==
    /\ TypeOK /\ ChainInv /\ TipsInv /\ ForkInv /\ KnowledgeInv
    /\ ReleasesWereConsented /\ [Next]_vars
    => ReleasesWereConsented'
<1>. SUFFICES ASSUME TypeOK, ChainInv, TipsInv, ForkInv, KnowledgeInv,
                     ReleasesWereConsented, [Next]_vars
              PROVE  ReleasesWereConsented'
  OBVIOUS
<1>1. CASE \E p \in Procs : Commit(p)
  BY <1>1, CommitConsents
<1>2. CASE db' = db
  BY <1>2 DEF ReleasesWereConsented
<1>3. db' = db \/ \E p \in Procs : Commit(p)
  <2>1. \A p \in Procs : Prepares(p) \/ Raises(p) => db' = db
    BY DEF Prepares, Raises, Submit, Abort
  <2>2. \A p \in Procs : Recovery(p) => db' = db
    BY RecoveryLoads
  <2>3. \A p \in Procs : Conflict(p) \/ CommitFails(p) \/ ReloadFails(p)
                          \/ Crash(p) \/ Start(p) => db' = db
    BY OutcomeLeaves
  <2>4. UNCHANGED vars => db' = db
    BY DEF vars
  <2>. QED
    BY <2>1, <2>2, <2>3, <2>4, OperationKinds DEF Next, Quiescent
<1>. QED
  BY <1>1, <1>2, <1>3

\* No release is made up: whoever it is over had joined and given its metric by
\* its entry, within the cap and the floors of the verticals, however torn the
\* loads it was decided from (evaluate, append_audit).
THEOREM ReleasesHadConsent == Spec => []ReleasesWereConsented
<1>1. Init => ReleasesWereConsented
  BY DEF Init, EmptyStore, ReleasesWereConsented
<1>. QED
  BY <1>1, NextConsents, KnowledgeIsInvariant, PTL DEF Spec

-----------------------------------------------------------------------------
(* What is spent is listed.  A row keeps the spend of whoever wrote it     *)
(* last; the merge may know more events than that writer did, never fewer, *)
(* because an event is the same wherever it is listed.                     *)

Listed(row) ==
    row # NoBudget => /\ row.spent.eps <= LedgerSpend(row.events).eps
                      /\ row.spent.delta <= LedgerSpend(row.events).delta

Has(row, x) == row # NoBudget /\ x \in row.events

\* Some ledger, stored, live or being loaded, lists x.
Known(x) ==
    \/ Has(db.budget, x)
    \/ \E q \in Procs : Has(mem[q].acc, x) \/ Has(scan[q].state.budget, x)

ListedInv ==
    /\ Listed(db.budget)
    /\ \A q \in Procs : Listed(mem[q].acc) /\ Listed(scan[q].state.budget)
    /\ \A x, y : Known(x) /\ Known(y) /\ x.id = y.id => x = y

\* A ledger with more events accounts for no less.
LEMMA LedgerIsMonotone ==
    ASSUME NEW events \in SUBSET Events, IsFiniteSet(events), NEW some \in SUBSET events
    PROVE  /\ LedgerSpend(some) \in Amounts /\ LedgerSpend(events) \in Amounts
           /\ LedgerSpend(some).eps <= LedgerSpend(events).eps
           /\ LedgerSpend(some).delta <= LedgerSpend(events).delta
<1>. DEFINE eps(S)   == [y \in S |-> y.cost.eps]
            delta(S) == [y \in S |-> y.cost.delta]
            rest     == events \ some
<1>1. /\ IsFiniteSet(some) /\ IsFiniteSet(rest)
      /\ some \cap rest = {} /\ some \cup rest = events
  BY FS_Subset
<1>2. \A y \in events : y.cost.eps \in Nat /\ y.cost.delta \in Nat
  BY DEF Events, Amounts
<1>. HIDE DEF rest
<1>3. ASSUME NEW f, NEW g, DOMAIN f = events, DOMAIN g = some,
             \A y \in events : f[y] \in Nat, \A y \in some : g[y] = f[y]
      PROVE  SumFunction(g) \in Nat /\ SumFunction(f) \in Nat /\ SumFunction(g) <= SumFunction(f)
  <2>1. Whole(f, some \cup rest)
    BY <1>1, <1>3 DEF Whole
  <2>2. SumFunctionOnSet(f, events)
            = SumFunctionOnSet(f, some) + SumFunctionOnSet(f, rest)
    BY <1>1, <2>1, SumOfUnion
  <2>3. SumFunctionOnSet(f, some) = SumFunctionOnSet(g, some)
    BY <1>1, <1>3, SumOfEqual
  <2>4. SumFunctionOnSet(f, some) \in Nat /\ SumFunctionOnSet(f, rest) \in Nat
    BY <1>1, <1>3, SumIsNat
  <2>. QED
    BY <1>3, <2>2, <2>3, <2>4 DEF SumFunction
<1>4. /\ SumFunction(eps(some)) \in Nat /\ SumFunction(eps(events)) \in Nat
      /\ SumFunction(eps(some)) <= SumFunction(eps(events))
  <2>1. /\ DOMAIN eps(events) = events /\ DOMAIN eps(some) = some
        /\ \A y \in events : eps(events)[y] \in Nat
        /\ \A y \in some : eps(some)[y] = eps(events)[y]
    BY <1>2
  <2>. HIDE DEF eps
  <2>. QED
    BY <1>3, <2>1
<1>5. /\ SumFunction(delta(some)) \in Nat /\ SumFunction(delta(events)) \in Nat
      /\ SumFunction(delta(some)) <= SumFunction(delta(events))
  <2>1. /\ DOMAIN delta(events) = events /\ DOMAIN delta(some) = some
        /\ \A y \in events : delta(events)[y] \in Nat
        /\ \A y \in some : delta(some)[y] = delta(events)[y]
    BY <1>2
  <2>. HIDE DEF delta
  <2>. QED
    BY <1>3, <2>1
<1>6. /\ LedgerSpend(some)
             = [eps |-> SumFunction(eps(some)), delta |-> SumFunction(delta(some))]
      /\ LedgerSpend(events)
             = [eps |-> SumFunction(eps(events)), delta |-> SumFunction(delta(events))]
  BY DEF LedgerSpend
<1>. HIDE DEF eps, delta
<1>. QED
  BY <1>4, <1>5, <1>6 DEF Amounts

LEMMA NewIsListed == Listed(NoBudget) /\ \A limit : Listed(NewAccountant(limit))
  BY EmptyLedger DEF Listed, NewAccountant, NoSpend

\* A charge is listed with its spend.
LEMMA ChargeIsListed ==
    ASSUME NEW acc \in Accountants, nonce \in Nat, Kept(acc, nonce), Listed(acc),
           NEW cost \in Amounts, NEW rdp
    PROVE  LET new == Charged(acc, Id, cost, rdp)
               x   == [id |-> Id, cost |-> cost, tracked |-> rdp # NoRdp]
           IN  Listed(new) /\ \A y : Has(new, y) => Has(acc, y) \/ y = x
<1>. DEFINE new == Charged(acc, Id, cost, rdp)
            x   == [id |-> Id, cost |-> cost, tracked |-> rdp # NoRdp]
<1>1. new.spent = Plus(acc.spent, cost) /\ new.events = acc.events \cup {x}
  BY DEF Charged
<1>2. x \in Events
  <2>1. Id \in Nat
    BY DEF Id
  <2>. QED
    BY <2>1 DEF Events
<1>3. x.id = Id /\ x.cost = cost
  OBVIOUS
<1>. HIDE DEF new, x
<1>4. /\ acc # NoBudget /\ acc.events \in SUBSET Events /\ acc.spent \in Amounts
      /\ \A y \in acc.events : y.id \in Nat
  BY StoreAssumption DEF Accountants, Events
<1>5. IsFiniteSet(acc.events) /\ x \notin acc.events
  BY <1>3, <1>4 DEF Kept, Id
<1>6. LedgerSpend(new.events) = Plus(LedgerSpend(acc.events), x.cost)
  BY <1>1, <1>2, <1>4, <1>5, LedgerGrows
<1>7. /\ acc.spent.eps <= LedgerSpend(acc.events).eps
      /\ acc.spent.delta <= LedgerSpend(acc.events).delta
      /\ LedgerSpend(acc.events) \in Amounts
  BY <1>4, <1>5, LedgerIsMonotone DEF Listed
<1>8. Listed(new)
  <2>. DEFINE ledger == LedgerSpend(acc.events)
  <2>1. /\ new.spent.eps = acc.spent.eps + cost.eps
        /\ new.spent.delta = acc.spent.delta + cost.delta
        /\ LedgerSpend(new.events).eps = ledger.eps + cost.eps
        /\ LedgerSpend(new.events).delta = ledger.delta + cost.delta
    BY <1>1, <1>3, <1>6 DEF Plus
  <2>. HIDE DEF ledger
  <2>2. /\ acc.spent.eps + cost.eps <= ledger.eps + cost.eps
        /\ acc.spent.delta + cost.delta <= ledger.delta + cost.delta
    BY <1>4, <1>7 DEF Amounts, ledger
  <2>. QED
    BY <2>1, <2>2 DEF Listed
<1>9. \A y : Has(new, y) => Has(acc, y) \/ y = x
  BY <1>1, <1>4 DEF Has
<1>. QED
  BY <1>8, <1>9 DEF new, x

LEMMA CopiesStayListed ==
    ASSUME ListedInv, Copies
    PROVE  ListedInv'
<1>1. /\ Listed(db'.budget)
      /\ \A q \in Procs : Listed(mem'[q].acc) /\ Listed(scan'[q].state.budget)
  <2>. HIDE DEF Listed
  <2>. QED
    BY NewIsListed DEF ListedInv, Copies
<1>2. \A x : ~Has(NoBudget, x) /\ \A limit : ~Has(NewAccountant(limit), x)
  BY DEF Has, NewAccountant
<1>3. ASSUME NEW x, Known(x)'
      PROVE  Known(x)
  <2>1. CASE Has(db'.budget, x)
    BY <2>1 DEF Known, Copies
  <2>2. ASSUME NEW q \in Procs, Has(mem'[q].acc, x) \/ Has(scan'[q].state.budget, x)
        PROVE  Known(x)
    <3>. HIDE DEF Has
    <3>. QED
      BY <1>2, <2>2 DEF Known, Copies
  <2>. QED
    BY <1>3, <2>1, <2>2 DEF Known, Has
<1>4. \A x, y : Known(x)' /\ Known(y)' /\ x.id = y.id => x = y
  BY <1>3 DEF ListedInv
<1>. QED
  BY <1>1, <1>4 DEF ListedInv, Listed

LEMMA OperationLists ==
    ASSUME TypeOK, LedgerInv, ListedInv, NEW p \in Procs, Operation(p)
    PROVE  ListedInv'
<1>1. /\ db' = db /\ scan' = scan /\ \A q \in Procs : q # p => mem'[q] = mem[q]
      /\ \/ mem'[p].acc = mem[p].acc
         \/ \E eps : ChargedOnce(mem[p].acc, mem'[p].acc, eps)
  BY OperationCharges
<1>2. mem[p].acc \in Accountants /\ nonce \in Nat /\ Kept(mem[p].acc, nonce)
      /\ Listed(mem[p].acc)
  BY LedgerTypes DEF LedgerInv, ListedInv
<1>3. PICK event : /\ event.id = Id /\ Listed(mem'[p].acc)
                   /\ \A y : Has(mem'[p].acc, y) => Has(mem[p].acc, y) \/ y = event
  <2>1. CASE mem'[p].acc = mem[p].acc
    <3>1. [id |-> Id].id = Id
      OBVIOUS
    <3>. QED
      BY <1>2, <2>1, <3>1
  <2>2. CASE \E eps : ChargedOnce(mem[p].acc, mem'[p].acc, eps)
    <3>. PICK cost \in Amounts, rdp \in RdpCosts :
             mem'[p].acc = Charged(mem[p].acc, Id, cost, rdp)
      BY <2>2 DEF ChargedOnce
    <3>. DEFINE x == [id |-> Id, cost |-> cost, tracked |-> rdp # NoRdp]
    <3>1. x.id = Id
      OBVIOUS
    <3>2. Listed(mem'[p].acc) /\ \A y : Has(mem'[p].acc, y) => Has(mem[p].acc, y) \/ y = x
      BY <1>2, ChargeIsListed
    <3>. HIDE DEF x
    <3>. QED
      BY <3>1, <3>2
  <2>. QED
    BY <1>1, <2>1, <2>2
<1>4. \A q \in Procs : Listed(mem'[q].acc)
  BY <1>1, <1>3 DEF ListedInv
<1>5. ASSUME NEW x, Known(x)
      PROVE  x.id # Id
  <2>1. /\ \A q \in Procs : /\ mem[q].acc \in Accountants /\ Kept(mem[q].acc, nonce)
                            /\ scan[q].state.budget \in Accountants \cup {NoBudget}
                            /\ Kept(scan[q].state.budget, nonce)
        /\ db.budget \in Accountants \cup {NoBudget} /\ Kept(db.budget, nonce)
    BY LedgerTypes DEF LedgerInv
  <2>2. ASSUME NEW row \in Accountants \cup {NoBudget}, Kept(row, nonce), Has(row, x)
        PROVE  x.id # Id
    <3>1. Lacks(row, nonce + 1)
      BY <1>2, <2>2, KeptLacksNext
    <3>. QED
      BY <2>2, <3>1 DEF Lacks, Has, Id
  <2>. HIDE DEF Kept, Has
  <2>. QED
    BY <1>5, <2>1, <2>2 DEF Known
<1>6. ASSUME NEW x, Known(x)'
      PROVE  Known(x) \/ x = event
  <2>1. CASE Has(mem'[p].acc, x)
    BY <1>3, <2>1 DEF Known
  <2>2. CASE ~Has(mem'[p].acc, x)
    <3>1. \/ Has(db'.budget, x)
          \/ \E q \in Procs : \/ q # p /\ Has(mem'[q].acc, x)
                              \/ Has(scan'[q].state.budget, x)
      BY <1>6, <2>2 DEF Known, Has
    <3>. HIDE DEF Has
    <3>. QED
      BY <1>1, <3>1 DEF Known
  <2>. QED
    BY <2>1, <2>2
<1>7. \A x, y : Known(x)' /\ Known(y)' /\ x.id = y.id => x = y
  BY <1>3, <1>5, <1>6 DEF ListedInv
<1>. QED
  BY <1>1, <1>4, <1>7 DEF ListedInv, Listed

\* save_budget drops no event that the writer knew: one with the id of a stored
\* event is that event.
LEMMA SavedIsListed ==
    ASSUME NEW old \in Accountants \cup {NoBudget}, NEW write \in BudgetWrites, NEW n,
           Kept(SaveBudget(old, write), n), Listed(write.data),
           \A x, y : Has(old, x) /\ Has(write.data, y) /\ x.id = y.id => x = y
    PROVE  /\ Listed(SaveBudget(old, write))
           /\ \A x : Has(SaveBudget(old, write), x) => Has(old, x) \/ Has(write.data, x)
<1>. DEFINE data == write.data
            new  == SaveBudget(old, write)
<1>1. /\ write # Nothing /\ data \in Accountants /\ data # NoBudget
      /\ new \in Accountants \cup {NoBudget} /\ new # NoBudget
  <2>1. write # Nothing /\ data \in Accountants /\ data # NoBudget
    BY StoreAssumption DEF BudgetWrites
  <2>. QED
    BY <2>1, SaveBudgetSpends, SaveBudgetType
<1>2. /\ new.spent = data.spent
      /\ old = NoBudget => new.events = data.events
      /\ old # NoBudget => new.events = MergeEvents(old.events, data.events)
  BY <1>1, SavedEvents
<1>3. Kept(new, n) /\ Listed(data)
  OBVIOUS
<1>4. \A x, y : Has(old, x) /\ Has(data, y) /\ x.id = y.id => x = y
  OBVIOUS
<1>. HIDE DEF new, data
<1>5. data.events \subseteq new.events
  <2>. SUFFICES ASSUME NEW x \in data.events, old # NoBudget
                PROVE  x \in new.events
    BY <1>2
  <2>1. CASE \E y \in old.events : y.id = x.id
    <3>. PICK y \in old.events : y.id = x.id
      BY <2>1
    <3>1. y = x
      BY <1>1, <1>4 DEF Has
    <3>. QED
      BY <1>2, <3>1 DEF MergeEvents
  <2>2. CASE ~\E y \in old.events : y.id = x.id
    BY <1>2, <2>2 DEF MergeEvents
  <2>. QED
    BY <2>1, <2>2
<1>6. /\ new.events \in SUBSET Events /\ IsFiniteSet(new.events)
      /\ data.spent \in Amounts
  BY <1>1, <1>3 DEF Kept, Accountants
<1>7. /\ LedgerSpend(data.events) \in Amounts /\ LedgerSpend(new.events) \in Amounts
      /\ LedgerSpend(data.events).eps <= LedgerSpend(new.events).eps
      /\ LedgerSpend(data.events).delta <= LedgerSpend(new.events).delta
  BY <1>5, <1>6, LedgerIsMonotone
<1>8. Listed(new)
  <2>. DEFINE less == LedgerSpend(data.events)
              more == LedgerSpend(new.events)
  <2>1. data.spent.eps <= less.eps /\ data.spent.delta <= less.delta
    BY <1>1, <1>3 DEF Listed
  <2>2. less \in Amounts /\ more \in Amounts /\ less.eps <= more.eps /\ less.delta <= more.delta
    BY <1>7
  <2>. HIDE DEF less, more
  <2>3. data.spent.eps <= more.eps /\ data.spent.delta <= more.delta
    BY <1>6, <2>1, <2>2 DEF Amounts
  <2>. QED
    BY <1>2, <2>3 DEF Listed, more
<1>9. \A x : Has(new, x) => Has(old, x) \/ Has(data, x)
  BY <1>1, <1>2 DEF Has, MergeEvents
<1>. QED
  BY <1>8, <1>9 DEF new, data

LEMMA CommitLists ==
    ASSUME TypeOK, LedgerInv, ListedInv, NEW p \in Procs, Commit(p)
    PROVE  ListedInv'
<1>. DEFINE write == tx[p].budget
<1>1. /\ mem' = mem /\ scan' = scan /\ pc[p] = "commit"
      /\ db'.budget = SaveBudget(db.budget, write)
  BY DEF Commit, Apply
<1>2. /\ db.budget \in Accountants \cup {NoBudget}
      /\ write \in BudgetWrites \cup {Nothing}
  BY <1>1, LedgerTypes
<1>3. /\ Kept(db.budget, nonce) /\ Kept(mem[p].acc, nonce) /\ Listed(mem[p].acc)
      /\ write # Nothing => write.data = mem[p].acc
  BY <1>1 DEF LedgerInv, Pays, ListedInv
<1>. HIDE DEF write
<1>4. /\ Listed(db'.budget)
      /\ \A x : Has(db'.budget, x) => Has(db.budget, x) \/ Has(mem[p].acc, x)
  <2>1. CASE write = Nothing
    BY <1>1, <2>1 DEF SaveBudget, ListedInv
  <2>2. CASE write # Nothing
    <3>1. write \in BudgetWrites /\ write.data = mem[p].acc
      BY <1>2, <1>3, <2>2
    <3>2. Kept(SaveBudget(db.budget, write), nonce)
      BY <1>2, <1>3, <3>1, SavedIsKept
    <3>3. \A x, y : Has(db.budget, x) /\ Has(mem[p].acc, y) /\ x.id = y.id => x = y
      BY DEF ListedInv, Known
    <3>. HIDE DEF Listed, Has, Kept
    <3>. QED
      BY <1>1, <1>2, <1>3, <3>1, <3>2, <3>3, SavedIsListed
  <2>. QED
    BY <2>1, <2>2
<1>5. ASSUME NEW x, Known(x)'
      PROVE  Known(x)
  <2>1. \/ Has(db'.budget, x)
        \/ \E q \in Procs : Has(mem'[q].acc, x) \/ Has(scan'[q].state.budget, x)
    BY <1>5 DEF Known, Has
  <2>. HIDE DEF Has
  <2>. QED
    BY <1>1, <1>4, <2>1 DEF Known
<1>6. \A x, y : Known(x)' /\ Known(y)' /\ x.id = y.id => x = y
  BY <1>5 DEF ListedInv
<1>. QED
  BY <1>1, <1>4, <1>6 DEF ListedInv, Listed

LEMMA NextLists == TypeOK /\ LedgerInv /\ ListedInv /\ [Next]_vars => ListedInv'
<1>. SUFFICES ASSUME TypeOK, LedgerInv, ListedInv, [Next]_vars PROVE ListedInv'
  OBVIOUS
<1>1. CASE \E p \in Procs : Operation(p)
  BY <1>1, OperationLists
<1>2. CASE \E p \in Procs : Recovery(p)
  BY <1>2, RecoveryCopies, CopiesStayListed
<1>3. CASE \E p \in Procs : Commit(p)
  BY <1>3, CommitLists
<1>4. CASE \E p \in Procs : \/ Conflict(p) \/ CommitFails(p) \/ ReloadFails(p)
                            \/ Crash(p) \/ Start(p)
  BY <1>4, OutcomeCopies, CopiesStayListed
<1>5. CASE UNCHANGED vars
  <2>1. Copies
    BY <1>5 DEF vars, Copies
  <2>. QED
    BY <2>1, CopiesStayListed
<1>. QED
  BY <1>1, <1>2, <1>3, <1>4, <1>5 DEF Next, Quiescent

\* Nothing is spent that the stored ledger does not list: the events merged
\* under the spend of the last writer include all it had charged, however torn
\* the load it started from (save_budget).
THEOREM StoredSpendIsListed == Spec => []SpendIsListed
<1>1. Init => ListedInv
  <2>. SUFFICES ASSUME Init PROVE ListedInv
    OBVIOUS
  <2>1. /\ db.budget = NoBudget
        /\ \A q \in Procs : /\ mem[q].acc = NewAccountant(SeedLimit)
                            /\ scan[q].state.budget = NoBudget
    BY DEF Init, LiveObjects, EmptyStore, NothingRead
  <2>2. \A x : ~Known(x)
    BY <2>1 DEF Known, Has, NewAccountant
  <2>. QED
    BY <2>1, <2>2, NewIsListed DEF ListedInv
<1>2. ListedInv => SpendIsListed
  BY DEF ListedInv, Listed, SpendIsListed
<1>. QED
  BY <1>1, <1>2, NextLists, LedgerIsInvariant, PTL DEF Spec
=============================================================================
