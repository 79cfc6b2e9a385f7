CONSTANTS
    p1 = p1
    Updates = {u1, u2}
    Devices = {p1}
    Syncs = {s1, s2}
    On <- OnePhone
    MaxVersion = 2
SPECIFICATION Spec
CHECK_DEADLOCK FALSE
SYMMETRY Symmetry
VIEW ButAudit
INVARIANTS
    TypeOK
    ActiveIsNewest
    UpdateAloneActivates
PROPERTY DevicesFollow
