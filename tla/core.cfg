\* One process, killed and started again, and three jobs: jobs that fail and succeed in
\* every order, halts that the operator clears, and a day that ends.
SPECIFICATION Spec
CONSTANTS
    Jobs = {j1, j2, j3}
    NoJob = NoJob
    Workers = {w1}
    LastDay = 1
    MicrosPerSecond = 1000
    StartingCreditCents = 5
    GraceJobs = 3
    MinimumMarginPercent = 20
    DailyCostCapCents = 4
    MaximumConsecutiveFailures = 2
    MaximumIdleCycles = 0
    HaltOnNoFunds = TRUE
    ProviderCostCents = 3
    FailureCostCents = 1
    HasFallback = FALSE
    Answers = {"usable", "refused"}
    Prices = {1}
    OperatorKinds = {}
    Amounts = {}
    MaxPosts = 0
    Orders = {"clear"}
    MaxStarts = 2
    Faults = {"crash", "db", "disk"}
SYMMETRY JobSymmetry
INVARIANTS
    TypeOK
    HaltIsRecorded
    LossBounded
    BooksMatchJobs
    StreakCounted
    FailuresLimited
    OverdraftBounded
    DailyCapKept
PROPERTIES
    ClaimIsSound
