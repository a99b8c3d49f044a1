SPECIFICATION FairSpec
CONSTANTS
    Task = {t1}
    NoTask = NoTask
    LastDay = 4
    Session <- Sessions134
    a1 = a1
    a2 = a2
    Action <- Actions
    Filed <- FiledOn13
    Documented <- Actions
    Kinds = {"daily", "gap", "extras"}
    MaxFaults = 2
    FaultDay = 3
    SessionLoss = FALSE
PROPERTIES
    DailyNeverSkips
    DemoteBeforeVisible
    ImplementsReturnLabel
    Repaired
