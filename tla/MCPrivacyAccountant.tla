------------------------- MODULE MCPrivacyAccountant -------------------------
(***************************************************************************)
(* An accountant of limit (3, 2) with two Renyi orders of which either may *)
(* be the better one: a cheap cost that composes well beyond the basic     *)
(* limit, one that only basic composition admits, and none.                *)
(***************************************************************************)
EXTENDS PrivacyAccountant

MCOrders == {2, 8}
MCOverhead == [a \in MCOrders |-> IF a = 2 THEN 2 ELSE 1]
MCLimit == [eps |-> 3, delta |-> 2]
MCCosts == {[eps |-> e, delta |-> d] : e \in 1..2, d \in 0..1}
MCRdps == {[a \in MCOrders |-> IF a = 2 THEN 0 ELSE 2],
           [a \in MCOrders |-> 1],
           [a \in MCOrders |-> 3]} \cup {NoRdp}
=============================================================================
