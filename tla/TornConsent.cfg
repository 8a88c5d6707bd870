SPECIFICATION Spec
CONSTANTS
    Procs = {p1, p2}
    OrgIds = {o1}
    Sectors = {"s1"}
    Domains = {"retail"}
    Cohorts <- MCCohorts
    NoOrg = NoOrg
    NoPolicy = NoPolicy
    NoBudget = NoBudget
    NoServer = NoServer
    NoRdp = NoRdp
    Nothing = Nothing
    AllowedMetrics <- MCMetrics
    MinParticipants = 1
    FallbackPolicy <- MCFallback
    VerticalPolicy <- MCVertical
    ConsentChoices <- MCConsents
    Orders = {2}
    Overhead <- MCOverhead
    Epsilons = {1, 2}
    Deltas = {1}
    Dims = {1}
    LaplaceRdp <- MCRdp
    GaussianRdp <- MCRdp
    SeedLimit <- MCSeedLimit
    DefaultLimit <- MCDefaultLimit
    MaxOps = 4
    MaxFaults = 0
SYMMETRY MCSymmetry
PROPERTIES
    ReleasesHonourConsent
