\* Two processes over one data directory, that spend the same credit and halt for
\* each other; both starts used, a killed process is not started again.
SPECIFICATION Spec
CONSTANTS
    Jobs = {j1, j2, j3}
    NoJob = NoJob
    Workers = {w1, w2}
    LastDay = 0
    MicrosPerSecond = 1000
    StartingCreditCents = 1
    GraceJobs = 2
    MinimumMarginPercent = 20
    DailyCostCapCents = 1
    MaximumConsecutiveFailures = 0
    MaximumIdleCycles = 1
    HaltOnNoFunds = TRUE
    ProviderCostCents = 1
    FailureCostCents = 1
    HasFallback = FALSE
    Answers = {"usable", "unusable"}
    Prices = {1}
    OperatorKinds = {}
    Amounts = {}
    MaxPosts = 0
    Orders = {}
    MaxStarts = 2
    Faults = {"crash"}
SYMMETRY Symmetry
INVARIANTS
    ClaimsExclusive
    OverdraftBounded
    DailyCapKept
PROPERTY OneClaimAfterHalt
CHECK_DEADLOCK FALSE
