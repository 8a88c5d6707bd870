SPECIFICATION Spec
CONSTANTS
    Procs = {p1, p2}
    OrgIds = {o1, o2}
    Sectors = {"s1"}
    Domains = {"retail"}
    Cohorts <- MCCohorts
    NoOrg = NoOrg
    NoPolicy = NoPolicy
    NoBudget = NoBudget
    NoServer = NoServer
    NoRdp = NoRdp
    Nothing = Nothing
    AllowedMetrics <- MCTwoMetrics
    MinParticipants = 1
    FallbackPolicy <- MCTwoFallback
    VerticalPolicy <- MCHistogramHealthcare
    ConsentChoices <- MCRoundConsent
    Orders = {2}
    Overhead <- MCOverhead
    Epsilons = {1, 2}
    Deltas = {1, 2}
    Dims = {1}
    LaplaceRdp <- MCRdp
    GaussianRdp <- MCRdp
    SeedLimit <- MCTightLimit
    DefaultLimit <- MCDefaultLimit
    MaxOps = 5
    MaxFaults = 1
SYMMETRY MCSymmetry
INVARIANTS
    TypeOK
    AuditChained
    ReleasesCharged
    SpendCoversReleases
    SpendIsListed
    WithinBudget
    GovernanceReplays
    KnowledgeIsLogged
    ReleasesWereConsented
PROPERTIES
    ActsAsOne
