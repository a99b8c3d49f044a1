SPECIFICATION FairSpec
CONSTANTS
    m = m
    p = p
    Asset = {m, p}
    Always = {m}
    Dividend = {x}
    Of <- MCOf
    Noticed = {}
    LastDay = 4
    Date <- MCDate
    Gap = 3
    MaxSplits <- MCMaxSplits
    MaxFaults = 1
CHECK_DEADLOCK FALSE
INVARIANTS
    LabelTrue
    AuditTrue
PROPERTIES
    Recertified
    OneLevel
