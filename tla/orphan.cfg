\* A process is killed while a job is running, and started again.
SPECIFICATION FairSpec
CONSTANTS
    Jobs = {j1}
    NoJob = NoJob
    Workers = {w1}
    LastDay = 0
    MicrosPerSecond = 1000
    StartingCreditCents = 3
    GraceJobs = 1
    MinimumMarginPercent = 20
    DailyCostCapCents = 0
    MaximumConsecutiveFailures = 2
    MaximumIdleCycles = 0
    HaltOnNoFunds = TRUE
    ProviderCostCents = 1
    FailureCostCents = 0
    HasFallback = FALSE
    Answers = {"usable", "refused"}
    Prices = {0, 2}
    OperatorKinds = {}
    Amounts = {}
    MaxPosts = 0
    Orders = {}
    MaxStarts = 2
    Faults = {"crash"}
CHECK_DEADLOCK FALSE
PROPERTY RunningSettlesAfterCrash
