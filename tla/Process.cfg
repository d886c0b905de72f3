SPECIFICATION Spec
CONSTANTS
    DefaultWeight = 100
    MaxBurst = 50
    Unparsed <- MCUnparsed
    NaN <- MCNaN
    RPCs = {r1, r2}
    Inputs <- MCInputs
INVARIANTS NothingLeaks AcceptedIsUsable
PROPERTIES Drains SteadyWhileDraining
