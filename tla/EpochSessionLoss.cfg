SPECIFICATION Spec
CONSTANTS
    Task = {t1, t2}
    NoTask = NoTask
    LastDay = 3
    Session <- Sessions13
    a1 = a1
    a2 = a2
    Action <- Actions
    Filed <- FiledOn12
    Documented <- Actions
    Kinds = {"daily", "extras"}
    MaxFaults = 2
    FaultDay = 2
    SessionLoss = TRUE
INVARIANTS
    CertifiedCoversPrices
    PointInTimeComplete
SYMMETRY Tasks
