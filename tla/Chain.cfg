SPECIFICATION Spec
CONSTANTS
    Requests = {r1, r2, r3}
    Methods = {a, b, c}
    MaxEntries = 1
    Shared = Shared
SYMMETRY Sym
CHECK_DEADLOCK FALSE
INVARIANTS Isolation Capped ProbesSettled Accounting
