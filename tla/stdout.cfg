\* Standard output is gone when a success is printed.
SPECIFICATION Spec
CONSTANTS
    Jobs = {j1}
    NoJob = NoJob
    Workers = {w1}
    LastDay = 0
    MicrosPerSecond = 1000
    StartingCreditCents = 3
    GraceJobs = 1
    MinimumMarginPercent = 20
    DailyCostCapCents = 0
    MaximumConsecutiveFailures = 2
    MaximumIdleCycles = 1
    HaltOnNoFunds = TRUE
    ProviderCostCents = 1
    FailureCostCents = 1
    HasFallback = FALSE
    Answers = {"usable", "refused"}
    Prices = {0, 2}
    OperatorKinds = {}
    Amounts = {}
    MaxPosts = 0
    Orders = {}
    MaxStarts = 2
    Faults = {"stdout"}
CHECK_DEADLOCK FALSE
INVARIANT BooksMatchJobs
