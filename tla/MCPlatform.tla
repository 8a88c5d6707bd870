----------------------------- MODULE MCPlatform -----------------------------
(***************************************************************************)
(* Instances of Platform for TLC.  Budgets are small whole numbers: a      *)
(* limit of 3 admits one large release by basic composition and a second   *)
(* one only by the Renyi bound.                                            *)
(***************************************************************************)
EXTENDS PlatformRefines, TLC

MCCohorts == {[sector |-> "s1", domain |-> "retail"]}
MCMetrics == {"histogram", "variance", "correlation", "federated_model_round"}
MCTwoMetrics == {"histogram", "federated_model_round"}
MCTwoVertical == [d \in Domains |-> [metrics |-> MCTwoMetrics, floor |-> 1, cap |-> 2]]
MCOneMetric == {"federated_model_round"}
MCOneVertical == [d \in Domains |-> [metrics |-> MCOneMetric, floor |-> 1, cap |-> 2]]
MCTwoFallback == [metrics |-> MCTwoMetrics, floor |-> 1, cap |-> 9]
MCFallback == [metrics |-> MCMetrics, floor |-> 1, cap |-> 9]
MCVertical == [d \in Domains |-> [metrics |-> MCMetrics, floor |-> 1, cap |-> 2]]
MCHistogramHealthcare == [d \in Domains |-> [metrics |-> {"histogram"}, floor |-> 2, cap |-> 1]]
MCConsents == {{"histogram"}, {"federated_model_round"}}
MCRoundConsent == {{"federated_model_round"}}
MCHistogramConsent == {{"histogram"}}
MCOtherConsents == {{"variance"}, {"correlation"}}
MCSeedLimit == [eps |-> 3, delta |-> 1]
MCTightLimit == [eps |-> 1, delta |-> 1]
MCTwoRounds == [eps |-> 3, delta |-> 2]
MCDefaultLimit == [eps |-> 8, delta |-> 8]
MCOverhead == [a \in Orders |-> 1]
MCRdp == [e \in Epsilons |-> [a \in Orders |-> 1]]
MCSymmetry == Permutations(Procs) \cup Permutations(OrgIds)
=============================================================================
