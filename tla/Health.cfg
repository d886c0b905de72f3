SPECIFICATION Spec
CONSTANTS
    Backends = {b1, b2}
    Stoppers = {c1, c2}
    Rise = 2
    Fall = 3
    MaxProbes = 5
CHECK_DEADLOCK FALSE
INVARIANTS Damped QuietAfterStop
PROPERTIES StopTerminates
