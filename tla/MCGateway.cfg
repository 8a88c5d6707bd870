SPECIFICATION GatewayFairSpec
CONSTANTS
    p1 = p1
    p2 = p2
    t1 = t1
    t2 = t2
    t3 = t3
    Procs = {p1, p2}
    Threads = {t1, t2, t3}
    Home <- MCHome
    OrgIds = {o1}
    Sectors = {"s1"}
    Domains = {"retail"}
    Cohorts <- MCCohorts
    NoOrg = NoOrg
    NoPolicy = NoPolicy
    NoBudget = NoBudget
    NoServer = NoServer
    NoRdp = NoRdp
    Nothing = Nothing
    AllowedMetrics <- MCTwoMetrics
    MinParticipants = 1
    FallbackPolicy <- MCTwoFallback
    VerticalPolicy <- MCOneVertical
    ConsentChoices <- MCHistogramConsent
    Orders = {2}
    Overhead <- MCOverhead
    Epsilons = {2}
    Deltas = {1}
    Dims = {1}
    LaplaceRdp <- MCRdp
    GaussianRdp <- MCRdp
    SeedLimit <- MCSeedLimit
    DefaultLimit <- MCDefaultLimit
    MaxOps = 3
    MaxFaults = 1
INVARIANTS
    AnswersTrue
    KeysWork
    CardCoversRound
PROPERTIES
    EveryRequestAnswered
