CONSTANTS
    p1 = p1
    d1 = d1
    d2 = d2
    Commands = {c1}
    Keys = {k1}
    Devices = {p1}
    Dispatchers = {d1, d2}
    DeviceOf <- OnePhone
    Callers = {r1}
    Slots = {s1, s2}
    RunCap = 1
    NoKey = NoKey
    NoDevice = NoDevice
    NoCommand = NoCommand
    NoDispatcher = NoDispatcher
SPECIFICATION FairSpec
PROPERTY EveryCommandEnds
