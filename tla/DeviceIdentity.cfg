CONSTANTS
    Phones = {h1}
    Devices = {d1, d2}
    Calls = {k1}
    None = None
    MaxFcm = 2
    MaxLate = 1
SPECIFICATION FairSpec
INVARIANTS
    TypeOK
    OwnToken
    FcmSynced
PROPERTY FcmReported
