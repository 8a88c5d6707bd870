----------------------------- MODULE Accounting -----------------------------
(***************************************************************************)
(* The privacy accountant's arithmetic (crypto/differential_privacy.py):   *)
(* what a charge costs in the two composition regimes and when it is       *)
(* admitted.  Budgets are counted in whole units: the floats of the code   *)
(* and its 1e-12 comparison slack are exact integers here.                 *)
(***************************************************************************)
EXTENDS Naturals, FiniteSets, Functions

CONSTANTS Orders,     \* RDP_ALPHAS: the Renyi orders that are tracked
          Overhead,   \* Overhead[a]: log(1/limit.delta)/(a-1), the conversion term
          NoRdp       \* a charge without an `rdp` cost dict

ASSUME AccountingAssumption == /\ Orders # {}
                               /\ Overhead \in [Orders -> Nat]
                               /\ NoRdp \notin [Orders -> Nat]

\* PrivacyBudget: a pair of non-negative amounts, added component-wise.
Amounts == [eps : Nat, delta : Nat]
NoSpend == [eps |-> 0, delta |-> 0]
Plus(a, b) == [eps |-> a.eps + b.eps, delta |-> a.delta + b.delta]

\* Renyi costs per order; an accountant that saw no cost has zero everywhere.
RdpCosts == [Orders -> Nat]
NoRdpSpent == [a \in Orders |-> 0]
AddRdp(r, s) == [a \in Orders |-> r[a] + s[a]]

Events == [id : Nat, cost : Amounts, tracked : BOOLEAN]
Accountants == [limit : Amounts, spent : Amounts, events : SUBSET Events,
                rdp : RdpCosts, complete : BOOLEAN]

\* The spend that a log of events accounts for.
LedgerSpend(events) ==
    [eps   |-> SumFunction([x \in events |-> x.cost.eps]),
     delta |-> SumFunction([x \in events |-> x.cost.delta])]

\* rdp_to_epsilon(...) <= limit: the minimum over the orders fits iff one does.
RdpFits(rdp, limit) == \E a \in Orders : rdp[a] + Overhead[a] <= limit.eps

BasicFits(spent, limit) == spent.eps <= limit.eps

\* Mutation: the Renyi totals start out missing instead of empty.
NewAccountant_NoTotals(limit) ==
    [limit |-> limit, spent |-> NoSpend, events |-> {}, rdp |-> NoRdp, complete |-> TRUE]

\* A fresh PrivacyAccountant(limit=...).
NewAccountant(limit) ==
    [limit |-> limit, spent |-> NoSpend, events |-> {},
     rdp |-> NoRdpSpent, complete |-> TRUE]

\* Mutation: the Renyi bound alone admits a charge, whatever its delta.
Admits_IgnoresDelta(acc, cost, rdp) ==
    \/ rdp # NoRdp /\ acc.complete /\ RdpFits(AddRdp(acc.rdp, rdp), acc.limit)
    \/ BasicFits(Plus(acc.spent, cost), acc.limit)

\* Mutation: what was spent is compared with the limit, not what would be.
Admits_Unprojected(acc, cost, rdp) ==
    /\ acc.spent.delta <= acc.limit.delta
    /\ \/ rdp # NoRdp /\ acc.complete /\ RdpFits(acc.rdp, acc.limit)
       \/ BasicFits(acc.spent, acc.limit)

\* charge() raises PrivacyBudgetError exactly when this is false.
Admits(acc, cost, rdp) ==
    LET projected == Plus(acc.spent, cost)
    IN  /\ projected.delta <= acc.limit.delta
        /\ \/ /\ rdp # NoRdp
              /\ acc.complete
              /\ RdpFits(AddRdp(acc.rdp, rdp), acc.limit)
           \/ BasicFits(projected, acc.limit)

\* Mutation: the totals are replaced by the latest cost.
Charged_LatestRdp(acc, id, cost, rdp) ==
    [limit    |-> acc.limit,
     spent    |-> Plus(acc.spent, cost),
     events   |-> acc.events \cup {[id |-> id, cost |-> cost, tracked |-> rdp # NoRdp]},
     rdp      |-> IF rdp = NoRdp THEN acc.rdp ELSE rdp,
     complete |-> acc.complete /\ rdp # NoRdp]

\* Mutation: a charge without Renyi cost does not end the Renyi regime.
Charged_StaysComplete(acc, id, cost, rdp) ==
    [limit    |-> acc.limit,
     spent    |-> Plus(acc.spent, cost),
     events   |-> acc.events \cup {[id |-> id, cost |-> cost, tracked |-> rdp # NoRdp]},
     rdp      |-> IF rdp = NoRdp THEN acc.rdp ELSE AddRdp(acc.rdp, rdp),
     complete |-> acc.complete]

\* The accountant after an admitted charge() recorded as event `id`.
Charged(acc, id, cost, rdp) ==
    [limit    |-> acc.limit,
     spent    |-> Plus(acc.spent, cost),
     events   |-> acc.events \cup {[id |-> id, cost |-> cost, tracked |-> rdp # NoRdp]},
     rdp      |-> IF rdp = NoRdp THEN acc.rdp ELSE AddRdp(acc.rdp, rdp),
     complete |-> acc.complete /\ rdp # NoRdp]

\* Mutation: the preview forgets that basic composition may fit.
Preview_RdpOnly(acc, cost, rdp) ==
    LET projected == Plus(acc.spent, cost)
    IN  IF projected.delta > acc.limit.delta
        THEN [allowed |-> FALSE, regime |-> "basic"]
        ELSE IF rdp # NoRdp /\ acc.complete
        THEN [allowed |-> RdpFits(AddRdp(acc.rdp, rdp), acc.limit), regime |-> "rdp"]
        ELSE [allowed |-> BasicFits(projected, acc.limit), regime |-> "basic"]

\* preview(): the same decision, taken by its own code path, with the regime
\* it reports.
Preview(acc, cost, rdp) ==
    LET projected == Plus(acc.spent, cost)
    IN  IF projected.delta > acc.limit.delta
        THEN [allowed |-> FALSE, regime |-> "basic"]
        ELSE IF rdp # NoRdp /\ acc.complete
        THEN [allowed |-> \/ RdpFits(AddRdp(acc.rdp, rdp), acc.limit)
                          \/ BasicFits(projected, acc.limit),
              regime  |-> "rdp"]
        ELSE [allowed |-> BasicFits(projected, acc.limit), regime |-> "basic"]

\* What the two regimes promise together: delta is never overspent, and the
\* spend is within the limit by basic composition or, while every event
\* carries a Renyi cost, by the converted Renyi bound.
BudgetSound(acc) ==
    /\ acc.spent.delta <= acc.limit.delta
    /\ \/ BasicFits(acc.spent, acc.limit)
       \/ acc.complete /\ RdpFits(acc.rdp, acc.limit)
=============================================================================
