CONSTANTS
    c1 = c1  c2 = c2  c3 = c3
    b1 = b1  b2 = b2
    e1 = e1  e2 = e2
    Cabins = {c1, c2}
    Principals = {duty}
    Nobody = Nobody
    BlackStartIDs = {b1}
    Executions = {e1}
    Reports = {}
    Operators = {}
    Observed = e1
    Target <- TargetOne
    Plans <- PlanOfTwo
    Ready = {b1}
    InitialStatus = {"operational"}
    CancelPoints = {"running"}
    NoBlackStart = NoBlackStart
    NoExecution = NoExecution
    NoCabin = NoCabin
    Idle = Idle
SPECIFICATION FairSpec
PROPERTY CancelledExecutionFails
