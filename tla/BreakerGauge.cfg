SPECIFICATION Spec
CONSTANTS
    Settings <- MCSettings
    Requests = {r1, r2}
    Pollers = {}
    MaxTime = 1
INVARIANTS GaugeSettles
CHECK_DEADLOCK FALSE
