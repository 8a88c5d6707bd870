SPECIFICATION Spec
CONSTANTS
    NoRdp = NoRdp
    Orders <- MCOrders
    Overhead <- MCOverhead
    Limit <- MCLimit
    Costs <- MCCosts
    RdpChoices <- MCRdps
    MaxCharges = 4
INVARIANTS TypeOK Sound PreviewExact LedgerExact
PROPERTIES AdmissionShrinks
