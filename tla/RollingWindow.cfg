SPECIFICATION Spec
CONSTANTS
    Settings <- MCSettings
    MaxTime = 10
    MaxEvents = 4
INVARIANTS WindowExact
PROPERTIES TripJustified
