CONSTANTS
    p1 = p1
    f1 = f1
    f2 = f2
    Phones = {p1}
    Flows = {f1}
    Owner <- OneAtATime
    AccessTtl = 1
    RefreshTtl = 2
    MaxTime = 3
    MaxLate = 0
SPECIFICATION FairSpec
PROPERTY RetriesOnce
