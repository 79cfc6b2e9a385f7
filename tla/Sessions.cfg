CONSTANTS
    p1 = p1
    f1 = f1
    f2 = f2
    Phones = {p1}
    Flows = {f1, f2}
    Owner <- OnePhone
    AccessTtl = 1
    RefreshTtl = 2
    MaxTime = 2
    MaxLate = 1
SPECIFICATION TwoSpec
INVARIANTS
    TypeOK
    SessionKept
    LogoutHolds
PROPERTY EndsUnlessRejected
