CONSTANTS
    p1 = p1
    Updates = {u1, u2}
    Devices = {p1}
    Syncs = {}
    On <- OnePhone
    MaxVersion = 3
SPECIFICATION NoCrashSpec
CHECK_DEADLOCK FALSE
INVARIANT DoubleUpdateIsBenign
