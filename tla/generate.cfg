\* Two clients of POST /v1/generate.
SPECIFICATION Spec
CONSTANTS
    Jobs = {j1, j2}
    Prices = {0, 3}
    Requests = {r1, r2}
    NoJob = NoJob
    Faults = {"stdout"}
CHECK_DEADLOCK FALSE
INVARIANTS
    TypeOK
    AnswerTrue
PROPERTY EveryRequestAnswered
