SPECIFICATION Spec
CONSTANTS
    IDs = {1, 2, 3}
    Weights = {0, 40}
    virtualNodes = 2
    HashSpace = 3
    MaxMembers = 2
INVARIANTS CompleteOrder NearestPoint
PROPERTIES MinimalDisruption
