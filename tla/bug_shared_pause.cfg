CONSTANTS
    c1 = c1  c2 = c2  c3 = c3
    b1 = b1  b2 = b2
    e1 = e1  e2 = e2
    Cabins = {c1, c2}
    Principals = {duty}
    Nobody = Nobody
    BlackStartIDs = {b1, b2}
    Executions = {e1, e2}
    Reports = {r1, r2}
    Operators = {}
    Observed = e1
    Target <- TargetDistinct
    Plans <- PlanOfTwo
    Ready = {b1, b2}
    InitialStatus = {"operational"}
    CancelPoints = {}
    NoBlackStart = NoBlackStart
    NoExecution = NoExecution
    NoCabin = NoCabin
    Idle = Idle
SPECIFICATION Spec
INVARIANT IsolatedInTime
