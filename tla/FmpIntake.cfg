SPECIFICATION Spec
CONSTANTS
    s = s
    r = r
    NumDays = 3
    Sec = {s, r}
    NumTickers = 4
    Histories <- MCHistories
    EventDay = 1
    Beside = FALSE
    MaxBackfills = 2
    MaxStops = 1
CHECK_DEADLOCK FALSE
INVARIANTS
    TypeOK
    OneAsset
    PricesOfDay
    PointInTime
    FactOnce
    FillComplete
