CONSTANTS
    Cabins = {c1}
    AnomalyIDs = {a1}
    InspectionIDs = {i1}
    OrderIDs = {}
    Inspectors = {p1, p2}
    Certified = {p1}
    Callers = {u1, u2}
    Workers = {worker}
    AckDeadline = 0
    Levels <- CriticalAndMajor
    MaxTime = 2
    NoRecord = NoRecord
    NoAnomaly = NoAnomaly
    NoOne = NoOne
SPECIFICATION FairSpec
INVARIANTS
    DeadlineDecides
    SignedOff
PROPERTIES
    OverdueEscalated
