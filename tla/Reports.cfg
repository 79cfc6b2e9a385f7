CONSTANTS
    f1 = f1
    f2 = f2
    d1 = d1
    d2 = d2
    u1 = u1
    Families = {f1, f2}
    Devices = {d1, d2}
    Users = {u1}
    FamilyOf <- OneOfEach
    Attempts = {a1, a2}
    Take = 1
    None = None
SPECIFICATION KeptSpec
CHECK_DEADLOCK FALSE
INVARIANTS
    TypeOK
    AnsweredIsComplete
    AlertBacked
    OwnRowsOnly
PROPERTY FeedIsKept
