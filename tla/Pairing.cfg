CONSTANTS
    Phones = {h1, h2}
    Devices = {d1, d2, d3}
    Pairings = {q1, q2}
    Claims = {c1, c2}
    None = None
SPECIFICATION Spec
SYMMETRY Symmetry
INVARIANTS
    TypeOK
    PairingTruthful
    HeldOnce
PROPERTY FinalStatusKept
