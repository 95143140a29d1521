SPECIFICATION FairSpec
CONSTANTS
    t1 = t1
    t2 = t2
    t3 = t3
    alice = alice
    bob = bob
    k1 = k1
    k2 = k2
    g1 = g1
    g2 = g2
    NoJob = NoJob
    Ids = {t1, t2, t3}
    Owners = {alice, bob}
    Keys = {k1, k2}
    Requests = {g1, g2}
    Asks <- FourAsks
    MaxSaved = 2
    MaxActive = 2
    MaxPerOwner = 1
    MaxAsks = 1
    MaxRevision = 2
    MaxFaults = 2
INVARIANTS
    TypeOK
    AdmissionHolds
    CheckpointsAreCurrent
PROPERTIES
    ImplementsRecords
    EveryTaskIsServed
