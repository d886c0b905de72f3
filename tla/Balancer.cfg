SPECIFICATION PickSpec
CONSTANTS
    backends <- MCBackends
    Attempts = {0, 2, 4}
    MaxPicks = 2
    MaxFlips = 2
CHECK_DEADLOCK FALSE
INVARIANTS ExactWhenCalm OwnerFirst NoSickCandidate
