CONSTANTS
    p1 = p1
    Devices = {p1}
    Beats = {b1, b2}
    Reconciles = {r1, r2}
    NoDevice = NoDevice
    Grace = 1
SPECIFICATION FairSpec
INVARIANTS
    TypeOK
    StatusIsTold
PROPERTIES
    ScanFindsSilent
    SilenceIsAlerted
