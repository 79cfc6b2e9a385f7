CONSTANTS
    p1 = p1
    d1 = d1
    d2 = d2
    Commands = {c1, c2}
    Keys = {k1, k2}
    Devices = {p1}
    Dispatchers = {d1, d2}
    DeviceOf <- OnePhone
    Callers = {r1, r2}
    Slots = {s1, s2}
    RunCap = 2
    NoKey = NoKey
    NoDevice = NoDevice
    NoCommand = NoCommand
    NoDispatcher = NoDispatcher
SPECIFICATION Spec
SYMMETRY Symmetry
CONSTRAINT Small
INVARIANTS
    TypeOK
    OneCommandPerKey
    ResultMeansEffect
    DuplicateExplained
    AckedIsWorkedOn
PROPERTIES
    LivesAsPromised
    ExecutedInOrder
