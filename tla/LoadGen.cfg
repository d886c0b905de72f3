SPECIFICATION Spec
CONSTANTS
    Rates = {0, 4}
    Budgets = {0, 250000, 2000000}
    MaxWorkers = 2
    SLO = 1
    Duration = 2
    MaxCalls = 2
    MaxTime = 4
CHECK_DEADLOCK FALSE
INVARIANTS NothingOmitted VerdictHonest PercentileExact
PROPERTIES RunEnds
