SPECIFICATION FairSpec
CONSTANTS
    Products = {"viewer", "support"}
    Kinds <- MCKinds
    Starts = {1, 3}
    MaxFilings = 4
    MaxFamilies = 2
    MaxLag = 1
    MaxFaults = 1
CHECK_DEADLOCK FALSE
INVARIANTS
    TypeOK
    Covered
    PublishedVerifies
    WindowClosed
    NeverRevived
PROPERTIES
    CaughtUp
