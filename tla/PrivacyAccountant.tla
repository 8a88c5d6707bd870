-------------------------- MODULE PrivacyAccountant --------------------------
(***************************************************************************)
(* One PrivacyAccountant (crypto/differential_privacy.py) under any        *)
(* sequence of charges, with and without Renyi costs.  The platform only   *)
(* makes charges that carry one; the fallback to basic composition that a  *)
(* charge without one causes is the library's own behaviour.               *)
(***************************************************************************)
EXTENDS Accounting

CONSTANTS Limit,        \* the limit of the accountant
          Costs,        \* the amounts charged
          RdpChoices,   \* the Renyi costs charged, NoRdp for none
          MaxCharges    \* bound: charges that are admitted

ASSUME AccountantAssumption ==
    /\ Limit \in Amounts
    /\ Costs \subseteq Amounts
    /\ RdpChoices \subseteq RdpCosts \cup {NoRdp}
    /\ MaxCharges \in Nat

VARIABLES acc,    \* the accountant
          ids     \* event ids drawn
vars == <<acc, ids>>

Init == acc = NewAccountant(Limit) /\ ids = 0

\* charge(): decides, then records
Charge(cost, rdp) ==
    /\ ids < MaxCharges
    /\ Admits(acc, cost, rdp)
    /\ acc' = Charged(acc, ids + 1, cost, rdp)
    /\ ids' = ids + 1

\* charge() raises PrivacyBudgetError, and changes nothing
Refuse(cost, rdp) == ~Admits(acc, cost, rdp) /\ UNCHANGED vars

Next == \E cost \in Costs, rdp \in RdpChoices : Charge(cost, rdp) \/ Refuse(cost, rdp)
Spec == Init /\ [][Next]_vars

-----------------------------------------------------------------------------
TypeOK == acc \in Accountants /\ ids \in 0..MaxCharges

\* The spend is within the limit in a regime that is still valid: once an
\* event had no Renyi cost, by basic composition alone.
Sound == BudgetSound(acc)

\* preview() "mirrors charge() exactly": the two code paths take the same
\* decision on every request, in every reachable state.
PreviewExact ==
    \A cost \in Costs, rdp \in RdpChoices :
        Preview(acc, cost, rdp).allowed <=> Admits(acc, cost, rdp)

\* Budget never comes back: a charge, of whatever kind, makes no other charge
\* admissible that was refused before it.
AdmissionShrinks ==
    [][\A cost \in Costs, rdp \in RdpChoices :
           Admits(acc', cost, rdp) => Admits(acc, cost, rdp)]_vars

\* The totals are the ledger's: every admitted charge is in spent and in the
\* events once, and the Renyi regime is open exactly while each event has a
\* Renyi cost.
LedgerExact ==
    /\ acc.spent = LedgerSpend(acc.events)
    /\ acc.complete <=> \A x \in acc.events : x.tracked
=============================================================================
