CONSTANTS
    p1 = p1
    Devices = {p1, p2}
    Beats = {b1}
    Reconciles = {r1}
    NoDevice = NoDevice
    Grace = 1
SPECIFICATION OneCallsSpec
PROPERTY SilenceIsAlerted
