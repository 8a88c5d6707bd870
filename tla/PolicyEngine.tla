---------------------------- MODULE PolicyEngine ----------------------------
(***************************************************************************)
(* governance/policy.py: PolicyEngine.evaluate over a registry and the     *)
(* consent policies.  Both are functions on every organization id; NoOrg   *)
(* and NoPolicy mark ids the dictionaries do not hold.                     *)
(***************************************************************************)
EXTENDS Naturals, FiniteSets

CONSTANTS OrgIds,            \* the ids secrets.token_hex may draw
          Sectors, Domains,  \* sector groups and data domains
          NoOrg, NoPolicy,
          AllowedMetrics,    \* ALLOWED_METRICS
          MinParticipants,   \* MIN_PARTICIPANTS: the global cohort floor
          FallbackPolicy,    \* ConsentPolicy.default()
          VerticalPolicy     \* VerticalPolicy[d]: policy_for_domain(d)

Policies == [metrics : SUBSET AllowedMetrics, floor : Nat, cap : Nat]
Organizations == [sector : Sectors, domain : Domains, active : BOOLEAN]

ASSUME PolicyAssumption ==
    /\ MinParticipants \in Nat
    /\ FallbackPolicy \in Policies
    /\ VerticalPolicy \in [Domains -> Policies]
    /\ NoPolicy \notin Policies
    /\ NoOrg \notin Organizations

Registries == [OrgIds -> Organizations \cup {NoOrg}]
PolicyTables == [OrgIds -> Policies \cup {NoPolicy}]
Nobody == [o \in OrgIds |-> NoOrg]
NoPolicies == [o \in OrgIds |-> NoPolicy]

\* policies.get(org_id, ConsentPolicy.default())
PolicyOf(policies, o) == IF policies[o] = NoPolicy THEN FallbackPolicy ELSE policies[o]

\* default_policy_for(org): the vertical's terms, never below the global floor
DefaultPolicyFor(org) ==
    [VerticalPolicy[org.domain] EXCEPT
        !.floor = IF @ < MinParticipants THEN MinParticipants ELSE @]

\* registry.cohort(sector_group, domain)
Cohort(registry, cohort) ==
    {o \in OrgIds : /\ registry[o] # NoOrg
                    /\ registry[o].active
                    /\ registry[o].sector = cohort.sector
                    /\ registry[o].domain = cohort.domain}

\* Mutation: an epsilon at the cap plus one is still let in.
Consents_PastCap(policies, o, metric, eps) ==
    /\ metric \in PolicyOf(policies, o).metrics
    /\ eps <= PolicyOf(policies, o).cap + 1

Consents(policies, o, metric, eps) ==
    /\ metric \in PolicyOf(policies, o).metrics
    /\ eps <= PolicyOf(policies, o).cap

\* decision.participants: the candidates that consented to the metric at eps
Participants(registry, policies, cohort, metric, eps) ==
    {o \in Cohort(registry, cohort) : Consents(policies, o, metric, eps)}

\* Mutation: only the global minimum counts.
MeetsFloor_GlobalOnly(policies, contributors) ==
    Cardinality(contributors) >= MinParticipants

\* the global minimum and the floor of every contributor
MeetsFloor(policies, contributors) ==
    /\ Cardinality(contributors) >= MinParticipants
    /\ \A o \in contributors : Cardinality(contributors) >= PolicyOf(policies, o).floor

\* decision.allowed
Allows(registry, policies, cohort, metric, eps) ==
    LET contributors == Participants(registry, policies, cohort, metric, eps)
    IN  /\ metric \in AllowedMetrics
        /\ eps > 0
        /\ contributors # {}
        /\ MeetsFloor(policies, contributors)
=============================================================================
