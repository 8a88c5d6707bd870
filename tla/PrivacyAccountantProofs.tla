----------------------- MODULE PrivacyAccountantProofs -----------------------
(***************************************************************************)
(* The accountant is sound for every limit, set of orders, conversion term *)
(* and sequence of charges, with or without Renyi costs.                   *)
(***************************************************************************)
EXTENDS PrivacyAccountant, SumLemmas

LEMMA ChargeableTypes ==
    ASSUME NEW cost \in Costs, NEW rdp \in RdpChoices
    PROVE  cost \in Amounts /\ rdp \in RdpCosts \cup {NoRdp}
  BY AccountantAssumption

\* A charge leaves an accountant an accountant.
LEMMA ChargedType ==
    ASSUME NEW a \in Accountants, NEW id \in Nat, NEW cost \in Amounts,
           NEW rdp \in RdpCosts \cup {NoRdp}
    PROVE  Charged(a, id, cost, rdp) \in Accountants
<1>1. Plus(a.spent, cost) \in Amounts
  BY DEF Accountants, Amounts, Plus
<1>2. (IF rdp = NoRdp THEN a.rdp ELSE AddRdp(a.rdp, rdp)) \in RdpCosts
  BY DEF Accountants, AddRdp, RdpCosts
<1>3. [id |-> id, cost |-> cost, tracked |-> rdp # NoRdp] \in Events
  BY DEF Events
<1>4. (a.complete /\ rdp # NoRdp) \in BOOLEAN
  OBVIOUS
<1>. QED
  BY <1>1, <1>2, <1>3, <1>4 DEF Charged, Accountants

\* An admitted charge leaves the accountant within its limit, whichever regime
\* admitted it and whether or not it has a Renyi cost.
LEMMA AdmittedIsSound ==
    ASSUME NEW a \in Accountants, NEW id, NEW cost \in Amounts,
           NEW rdp \in RdpCosts \cup {NoRdp}, Admits(a, cost, rdp)
    PROVE  BudgetSound(Charged(a, id, cost, rdp))
<1>1. CASE rdp = NoRdp
  BY <1>1 DEF Admits, BudgetSound, Charged, BasicFits
<1>2. CASE rdp # NoRdp
  BY <1>2 DEF Admits, BudgetSound, Charged, BasicFits, RdpFits
<1>. QED
  BY <1>1, <1>2

\* preview() and charge() agree on every request.
LEMMA PreviewMirrors ==
    ASSUME NEW a \in Accountants, NEW cost \in Amounts, NEW rdp
    PROVE  Preview(a, cost, rdp).allowed <=> Admits(a, cost, rdp)
<1>. DEFINE projected == Plus(a.spent, cost)
<1>1. /\ a.limit.delta \in Nat /\ projected.delta \in Nat
  BY DEF Accountants, Amounts, Plus
<1>2. CASE projected.delta > a.limit.delta
  BY <1>1, <1>2 DEF Preview, Admits
<1>3. CASE ~(projected.delta > a.limit.delta)
  <2>1. projected.delta <= a.limit.delta
    BY <1>1, <1>3
  <2>. HIDE DEF projected
  <2>2. CASE rdp # NoRdp /\ a.complete
    BY <1>3, <2>1, <2>2 DEF Preview, Admits, projected
  <2>3. CASE ~(rdp # NoRdp /\ a.complete)
    BY <1>3, <2>1, <2>3 DEF Preview, Admits, projected
  <2>. QED
    BY <2>2, <2>3
<1>. QED
  BY <1>2, <1>3

\* What is admitted after a charge was admitted before it.
LEMMA ChargesOnlyRefuse ==
    ASSUME NEW a \in Accountants, NEW id, NEW spent \in Amounts,
           NEW rdpSpent \in RdpCosts \cup {NoRdp},
           NEW cost \in Amounts, NEW rdp \in RdpCosts \cup {NoRdp},
           Admits(Charged(a, id, spent, rdpSpent), cost, rdp)
    PROVE  Admits(a, cost, rdp)
<1>. DEFINE b == Charged(a, id, spent, rdpSpent)
<1>1. /\ b.limit = a.limit /\ b.spent = Plus(a.spent, spent)
      /\ b.complete => a.complete
      /\ b.rdp = IF rdpSpent = NoRdp THEN a.rdp ELSE AddRdp(a.rdp, rdpSpent)
  BY DEF Charged
<1>. HIDE DEF b
<1>2. /\ a.limit \in Amounts /\ a.spent \in Amounts /\ a.rdp \in RdpCosts
      /\ b.rdp \in RdpCosts
  BY <1>1 DEF Accountants, AddRdp, RdpCosts
<1>3. /\ Plus(a.spent, cost).delta <= Plus(b.spent, cost).delta
      /\ Plus(a.spent, cost).eps <= Plus(b.spent, cost).eps
      /\ Plus(a.spent, cost) \in Amounts /\ Plus(b.spent, cost) \in Amounts
  BY <1>1, <1>2 DEF Plus, Amounts
<1>4. Admits(b, cost, rdp)
  BY DEF b
<1>5. Plus(a.spent, cost).delta <= a.limit.delta
  BY <1>1, <1>2, <1>3, <1>4 DEF Admits, Amounts
<1>6. CASE BasicFits(Plus(b.spent, cost), b.limit)
  <2>1. BasicFits(Plus(a.spent, cost), a.limit)
    BY <1>1, <1>2, <1>3, <1>6 DEF BasicFits, Amounts
  <2>. QED
    BY <1>5, <2>1 DEF Admits
<1>7. CASE rdp # NoRdp /\ b.complete /\ RdpFits(AddRdp(b.rdp, rdp), b.limit)
  <2>1. PICK o \in Orders : AddRdp(b.rdp, rdp)[o] + Overhead[o] <= b.limit.eps
    BY <1>7 DEF RdpFits
  <2>2. /\ a.rdp[o] \in Nat /\ b.rdp[o] \in Nat /\ rdp[o] \in Nat /\ Overhead[o] \in Nat
        /\ AddRdp(b.rdp, rdp)[o] = b.rdp[o] + rdp[o]
        /\ AddRdp(a.rdp, rdp)[o] = a.rdp[o] + rdp[o]
    BY <1>2, <1>7, AccountingAssumption DEF AddRdp, RdpCosts
  <2>3. a.rdp[o] <= b.rdp[o]
    BY <1>1, <1>2, <2>2 DEF AddRdp, RdpCosts
  <2>4. AddRdp(a.rdp, rdp)[o] + Overhead[o] <= a.limit.eps
    BY <1>1, <1>2, <2>1, <2>2, <2>3 DEF Amounts
  <2>5. RdpFits(AddRdp(a.rdp, rdp), a.limit)
    BY <2>4 DEF RdpFits
  <2>. QED
    BY <1>1, <1>5, <1>7, <2>5 DEF Admits
<1>. QED
  BY <1>4, <1>6, <1>7 DEF Admits

Inv == TypeOK /\ Sound

LEMMA InvHolds == Spec => []Inv
<1>1. Init => Inv
  BY AccountantAssumption
     DEF Init, Inv, TypeOK, Sound, NewAccountant, Accountants, Amounts, NoSpend,
         RdpCosts, NoRdpSpent, BudgetSound, BasicFits
<1>2. Inv /\ [Next]_vars => Inv'
  <2>. SUFFICES ASSUME Inv, [Next]_vars PROVE Inv'
    OBVIOUS
  <2>1. ASSUME NEW cost \in Costs, NEW rdp \in RdpChoices, Charge(cost, rdp)
        PROVE  Inv'
    <3>1. acc \in Accountants /\ ids \in Nat /\ ids + 1 \in 0..MaxCharges
      BY <2>1, AccountantAssumption DEF Inv, TypeOK, Charge
    <3>2. acc' \in Accountants
      BY <2>1, <3>1, ChargeableTypes, ChargedType DEF Charge
    <3>3. BudgetSound(acc')
      BY <2>1, <3>1, ChargeableTypes, AdmittedIsSound DEF Charge
    <3>. QED
      BY <2>1, <3>1, <3>2, <3>3 DEF Inv, TypeOK, Sound, Charge
  <2>2. CASE UNCHANGED vars
    BY <2>2 DEF vars, Inv, TypeOK, Sound
  <2>. QED
    BY <2>1, <2>2 DEF Next, Refuse
<1>. QED
  BY <1>1, <1>2, PTL DEF Spec

\* Every charge leaves an accountant: its totals are numbers, its curve covers
\* every order, its log holds whole events (charge()).
THEOREM AccountantTyped == Spec => []TypeOK
<1>1. Inv => TypeOK
  BY DEF Inv
<1>. QED
  BY <1>1, InvHolds, PTL

\* Whatever is charged, in whatever order, the accountant stays within its
\* limit in a regime that is still valid (charge()).
THEOREM AccountantSound == Spec => []Sound
<1>1. Inv => Sound
  BY DEF Inv
<1>. QED
  BY <1>1, InvHolds, PTL

\* preview() promises exactly what charge() would do ("Mirrors charge()
\* exactly"), for every request in every reachable state.
THEOREM PreviewPromises == Spec => []PreviewExact
<1>1. Inv => PreviewExact
  BY ChargeableTypes, PreviewMirrors DEF Inv, TypeOK, PreviewExact
<1>. QED
  BY <1>1, InvHolds, PTL

\* No charge makes room for another: what charge() refused, it refuses for
\* good.
THEOREM RefusalsAreFinal == Spec => AdmissionShrinks
<1>1. ASSUME Inv, [Next]_vars
      PROVE  [\A cost \in Costs, rdp \in RdpChoices :
                  Admits(acc', cost, rdp) => Admits(acc, cost, rdp)]_vars
  <2>1. ASSUME NEW spent \in Costs, NEW rdpSpent \in RdpChoices, Charge(spent, rdpSpent),
               NEW cost \in Costs, NEW rdp \in RdpChoices, Admits(acc', cost, rdp)
        PROVE  Admits(acc, cost, rdp)
    BY <1>1, <2>1, ChargeableTypes, ChargesOnlyRefuse DEF Inv, TypeOK, Charge
  <2>. QED
    BY <1>1, <2>1 DEF Next, Refuse
<1>. QED
  BY <1>1, InvHolds, PTL DEF Spec, AdmissionShrinks

-----------------------------------------------------------------------------
(* The totals are the ledger's.                                            *)

\* An event that is new to the log adds its cost to what the log accounts for.
LEMMA LedgerGrows ==
    ASSUME NEW events \in SUBSET Events, IsFiniteSet(events),
           NEW x \in Events, x \notin events
    PROVE  LedgerSpend(events \cup {x}) = Plus(LedgerSpend(events), x.cost)
<1>. DEFINE eps(S)   == [y \in S |-> y.cost.eps]
            delta(S) == [y \in S |-> y.cost.delta]
            all      == events \cup {x}
<1>1. \A y \in all : y.cost.eps \in Nat /\ y.cost.delta \in Nat
  BY DEF Events, Amounts
<1>2. SumFunction(eps(all)) = x.cost.eps + SumFunction(eps(events))
  <2>1. /\ DOMAIN eps(events) = events /\ DOMAIN eps(all) = all
        /\ \A y \in events : eps(all)[y] = eps(events)[y]
        /\ eps(all)[x] = x.cost.eps
        /\ Whole(eps(all), all)
    BY <1>1 DEF Whole
  <2>. HIDE DEF eps
  <2>. QED
    BY <2>1, SumGrows
<1>3. SumFunction(delta(all)) = x.cost.delta + SumFunction(delta(events))
  <2>1. /\ DOMAIN delta(events) = events /\ DOMAIN delta(all) = all
        /\ \A y \in events : delta(all)[y] = delta(events)[y]
        /\ delta(all)[x] = x.cost.delta
        /\ Whole(delta(all), all)
    BY <1>1 DEF Whole
  <2>. HIDE DEF delta
  <2>. QED
    BY <2>1, SumGrows
<1>4. SumFunction(eps(events)) \in Nat /\ SumFunction(delta(events)) \in Nat
  <2>1. /\ DOMAIN eps(events) = events /\ DOMAIN delta(events) = events
        /\ \A y \in events : eps(events)[y] \in Nat /\ delta(events)[y] \in Nat
    BY <1>1
  <2>. HIDE DEF eps, delta
  <2>. QED
    BY <2>1, SumIsNat DEF SumFunction
<1>5. /\ LedgerSpend(all) = [eps |-> SumFunction(eps(all)), delta |-> SumFunction(delta(all))]
      /\ LedgerSpend(events) =
             [eps |-> SumFunction(eps(events)), delta |-> SumFunction(delta(events))]
  BY DEF LedgerSpend
<1>6. x.cost.eps \in Nat /\ x.cost.delta \in Nat
  BY DEF Events, Amounts
<1>. HIDE DEF eps, delta, all
<1>7. /\ SumFunction(eps(all)) = SumFunction(eps(events)) + x.cost.eps
      /\ SumFunction(delta(all)) = SumFunction(delta(events)) + x.cost.delta
  BY <1>2, <1>3, <1>4, <1>6
<1>8. LedgerSpend(all) = Plus(LedgerSpend(events), x.cost)
  BY <1>5, <1>7 DEF Plus
<1>. QED
  BY <1>8 DEF all

\* An empty log accounts for nothing.
LEMMA EmptyLedger == LedgerSpend({}) = NoSpend
<1>1. \A f : DOMAIN f = {} => SumFunction(f) = 0
  BY SumOfNothing DEF SumFunction
<1>. QED
  BY <1>1 DEF LedgerSpend, NoSpend

\* The ids in the log have been drawn, so that every charge is a new event.
LedgerInv ==
    /\ IsFiniteSet(acc.events)
    /\ \A x \in acc.events : x.id <= ids
    /\ LedgerExact

LEMMA ChargeKeepsLedger ==
    ASSUME TypeOK, LedgerInv, NEW cost \in Costs, NEW rdp \in RdpChoices, Charge(cost, rdp)
    PROVE  LedgerInv'
<1>. DEFINE event == [id |-> ids + 1, cost |-> cost, tracked |-> rdp # NoRdp]
<1>1. /\ acc \in Accountants /\ ids \in Nat /\ ids' = ids + 1
      /\ cost \in Amounts
  BY AccountantAssumption DEF TypeOK, Charge
<1>2. /\ event \in Events /\ event.id = ids + 1 /\ event.cost = cost
      /\ event.tracked <=> rdp # NoRdp
  <2>1. ids + 1 \in Nat /\ cost \in Amounts
    BY <1>1
  <2>2. event \in Events
    BY <2>1 DEF Events
  <2>3. event.id = ids + 1 /\ event.cost = cost /\ event.tracked = (rdp # NoRdp)
    OBVIOUS
  <2>. QED
    BY <2>2, <2>3
<1>3. /\ acc'.events = acc.events \cup {event}
      /\ acc'.spent = Plus(acc.spent, cost)
      /\ acc'.complete <=> acc.complete /\ rdp # NoRdp
  BY DEF Charge, Charged
<1>. HIDE DEF event
<1>4. acc.events \in SUBSET Events /\ \A x \in acc.events : x.id \in Nat
  BY <1>1 DEF Accountants, Events
<1>5. event \notin acc.events
  BY <1>1, <1>2, <1>4 DEF LedgerInv
<1>6. IsFiniteSet(acc'.events)
  BY <1>3, FS_AddElement DEF LedgerInv
<1>7. \A x \in acc'.events : x.id <= ids'
  BY <1>1, <1>2, <1>3, <1>4 DEF LedgerInv
<1>8. acc'.spent = LedgerSpend(acc'.events)
  BY <1>2, <1>3, <1>4, <1>5, LedgerGrows DEF LedgerInv, LedgerExact
<1>9. acc'.complete <=> \A x \in acc'.events : x.tracked
  BY <1>2, <1>3 DEF LedgerInv, LedgerExact
<1>. QED
  BY <1>6, <1>7, <1>8, <1>9 DEF LedgerInv, LedgerExact

\* Every admitted charge is in the totals and in the log exactly once, and the
\* Renyi regime is open exactly while each event has a Renyi cost (charge()).
THEOREM TotalsAreTheLedgers == Spec => []LedgerExact
<1>1. Init => LedgerInv
  <2>. SUFFICES ASSUME Init PROVE LedgerInv
    OBVIOUS
  <2>1. acc.events = {} /\ acc.spent = NoSpend /\ acc.complete
    BY DEF Init, NewAccountant
  <2>. QED
    BY <2>1, EmptyLedger, FS_EmptySet DEF LedgerInv, LedgerExact
<1>2. TypeOK /\ LedgerInv /\ [Next]_vars => LedgerInv'
  <2>. SUFFICES ASSUME TypeOK, LedgerInv, [Next]_vars PROVE LedgerInv'
    OBVIOUS
  <2>1. CASE UNCHANGED vars
    BY <2>1 DEF vars, LedgerInv, LedgerExact
  <2>. QED
    BY <2>1, ChargeKeepsLedger DEF Next, Refuse
<1>3. LedgerInv => LedgerExact
  BY DEF LedgerInv
<1>. QED
  BY <1>1, <1>2, <1>3, AccountantTyped, PTL DEF Spec
=============================================================================
