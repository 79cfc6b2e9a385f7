CONSTANTS
    Supervisor = sup
    Workers = {w1}
    Events = {e1, e2}
    None = None
    MaxBatch = 1
    MaxRaces = 1
    MaxFaults = 1
SPECIFICATION FairSpec
INVARIANTS
    TypeOK
    EventKept
    StoredOnce
    DropTold
PROPERTIES
    EventUploaded
    DropNoticed
