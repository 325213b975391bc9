\* One process with every fault and every order: what must eventually happen, and how
\* it keeps its halts and its promise to clients.
SPECIFICATION FairSpec
CONSTANTS
    Jobs = {j1, j2}
    NoJob = NoJob
    Workers = {w1}
    LastDay = 0
    MicrosPerSecond = 1000
    StartingCreditCents = 0
    GraceJobs = 1
    MinimumMarginPercent = 20
    DailyCostCapCents = 0
    MaximumConsecutiveFailures = 2
    MaximumIdleCycles = 0
    HaltOnNoFunds = TRUE
    ProviderCostCents = 1
    FailureCostCents = 1
    HasFallback = TRUE
    Answers = {"usable", "unusable"}
    Prices = {1}
    OperatorKinds = {"credit"}
    Amounts = {1}
    MaxPosts = 1
    Orders = {"halt", "clear", "signal"}
    MaxStarts = 1
    Faults = {"crash", "db", "disk", "stdout"}
INVARIANTS
    HaltIsRecorded
    BillsCovered
PROPERTIES
    JobBookKept
    OneClaimAfterHalt
    HaltStops
    StopHeeded
    RunningSettles
    QueuedServed
