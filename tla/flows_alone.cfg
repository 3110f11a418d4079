CONSTANTS
    Cabins = {c1}
    AnomalyIDs = {a1, a2}
    InspectionIDs = {i1, i2}
    OrderIDs = {w1}
    Inspectors = {p1, p2}
    Certified = {p1}
    Callers = {u1}
    Workers = {}
    AckDeadline = 0
    Levels <- CriticalAndMajor
    MaxTime = 1
    NoRecord = NoRecord
    NoAnomaly = NoAnomaly
    NoOne = NoOne
SPECIFICATION Spec
SYMMETRY Interchangeable
CHECK_DEADLOCK FALSE
INVARIANTS
    TypeOK
    NoStrandedCabin
    FrozenCabinClear
    ClosedLoop
    SignedOff
