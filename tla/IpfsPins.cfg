SPECIFICATION FairSpec
CONSTANTS
    N = 2
    Stubborn = {2}
    Batch = 1
    MaxIntents = 2
    MaxRequests = 3
    MaxFaults = 1
INVARIANTS
    TypeOK
    IntentsStand
PROPERTIES
    Converges
