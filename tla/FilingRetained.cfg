SPECIFICATION Spec
CONSTANTS
    a = a
    None = None
    NumDays = 2
    Corps = {a}
    Listed = {a}
    Schedules <- MCSchedules
    KrxFiles = {k}
    Slots = 2
    BatchSize = 1
    MaxStops = 1
INVARIANT
    CollectedRetained
