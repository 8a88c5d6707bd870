----------------------------- MODULE Consortium -----------------------------
(***************************************************************************)
(* What the platform promises its members, however many processes serve    *)
(* them: one registry, one table of consent, one budget and one log, on    *)
(* which every operation happens at once, as if nobody else were there.    *)
(* There are no processes here, no memory beside the store, no conflicts   *)
(* and no reloads; an operation that fails has not happened.  The          *)
(* platform's processes and their store implement this (PlatformRefines).  *)
(***************************************************************************)
EXTENDS StoreState

CONSTANTS Ids,      \* what identifies an operation in the log and the ledger
          Prices    \* the epsilons of releases

VARIABLES registry,   \* the members
          policies,   \* their consent
          account,    \* the budget and its ledger, once something was released
          rounds,     \* the rounds trained for each cohort
          log         \* the audit log
state == <<registry, policies, account, rounds, log>>

Init ==
    /\ registry = Nobody
    /\ policies = NoPolicies
    /\ account = NoBudget
    /\ rounds = [k \in Cohorts |-> <<>>]
    /\ log = <<>>

\* Entry `id` closes the operation: it follows the tip and its id is new.
Logs(id, action, org, metrics, contributors, eps) ==
    /\ log' = Append(log, Entry(id, log, action, org, metrics, contributors, eps))
    /\ \A i \in DOMAIN log : log[i].id # id

\* An organization joins once, on the terms of its vertical.
Enrol(id, o, k) ==
    LET org == [sector |-> k.sector, domain |-> k.domain, active |-> TRUE]
    IN  /\ Logs(id, "org.join", o, {}, {}, 0)
        /\ registry[o] = NoOrg
        /\ registry' = [registry EXCEPT ![o] = org]
        /\ policies' = [policies EXCEPT ![o] = DefaultPolicyFor(org)]
        /\ UNCHANGED <<account, rounds>>

\* A member replaces its allow-list; its cap and floor stay.
Allow(id, o, metrics) ==
    /\ Logs(id, "consent.update", o, metrics, {}, 0)
    /\ registry[o] # NoOrg
    /\ policies' = [policies EXCEPT ![o].metrics = metrics]
    /\ UNCHANGED <<registry, account, rounds>>

\* Member o has allowed the metric, by default or in an update.
Gave(o, metric) ==
    \/ metric \in DefaultPolicyFor(registry[o]).metrics
    \/ \E i \in DOMAIN log : /\ log[i].action = "consent.update"
                              /\ log[i].org = o
                              /\ metric \in log[i].metrics

\* Every contributor is a member of the cohort who gave its consent, at an
\* epsilon within its cap.  Consent it has replaced may still be used: a process
\* that loads between two commits can miss the update (TornConsent).
Agreed(k, metric, contributors, eps) ==
    /\ contributors # {}
    /\ \A o \in contributors :
          /\ registry[o] = [sector |-> k.sector, domain |-> k.domain, active |-> TRUE]
          /\ Gave(o, metric)
          /\ eps <= policies[o].cap

\* Event `id` enters the ledger and is paid for in full; nothing is forgotten,
\* and no limit is overspent in both regimes.
Charges(id, eps) ==
    /\ account' # NoBudget
    /\ BudgetSound(account')
    /\ \E x \in account'.events :
          LET paid == IF account = NoBudget THEN x.cost ELSE Plus(account.spent, x.cost)
          IN  /\ x.id = id /\ x.cost.eps = eps
              /\ paid.eps <= account'.spent.eps
              /\ paid.delta <= account'.spent.delta
    /\ account # NoBudget => account.events \subseteq account'.events

\* An aggregate answer, over no fewer contributors than any of them asks for.
Answer(id, k, action, metric, contributors, eps) ==
    /\ Logs(id, action, NoOrg, {}, contributors, eps)
    /\ Agreed(k, metric, contributors, eps)
    /\ Cardinality(contributors) >= MinParticipants
    /\ \A o \in contributors : Cardinality(contributors) >= policies[o].floor
    /\ Charges(id, eps)
    /\ UNCHANGED <<registry, policies, rounds>>

\* A round over those of the cohort who stayed to the end.
Train(id, k, survivors, eps) ==
    /\ Logs(id, "federated.round", NoOrg, {}, survivors, eps)
    /\ Agreed(k, "federated_model_round", survivors, eps)
    /\ Charges(id, eps)
    /\ rounds' = [rounds EXCEPT ![k] = Append(@, id)]
    /\ UNCHANGED <<registry, policies>>

\* Nothing happens without an entry.
Next ==
    /\ log' # log
    /\ \E id \in Ids :
          \/ \E o \in OrgIds, k \in Cohorts : Enrol(id, o, k)
          \/ \E o \in OrgIds, metrics \in SUBSET AllowedMetrics : Allow(id, o, metrics)
          \/ \E k \in Cohorts, contributors \in SUBSET OrgIds, eps \in Prices :
                \/ Answer(id, k, "query.histogram", "histogram", contributors, eps)
                \/ Answer(id, k, "query.variance", "variance", contributors, eps)
                \/ Answer(id, k, "query.correlation", "correlation", contributors, eps)
                \/ Train(id, k, contributors, eps)

Spec == Init /\ [][Next]_state
=============================================================================
