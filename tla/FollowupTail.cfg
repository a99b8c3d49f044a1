SPECIFICATION FairSpec
CONSTANTS
    NumDays = 3
    Seed = 1
    Window = 3
    MaxGap = 3
    Asset = {1, 2}
    Gone <- MCGone
    Nxt <- MCNxt
    Factor = {"daily", "legacy"}
    Workers = 2
    MaxRevisions = 2
    Revised <- MCRevised
    MaxStops = 1
CHECK_DEADLOCK FALSE
INVARIANTS
    ReferenceCovered
    LatestAsFetched
    FollowupsComplete
PROPERTIES
    CaughtUp
