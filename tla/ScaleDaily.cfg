SPECIFICATION FairSpec
CONSTANTS
    Worlds <- MCWorlds
    Revisions <- MCRevisions
    NoNotice <- MCNoNotice
    ReviewedCombined <- MCReviewedCombined
    MaxChange = 1
    MaxRefetch = 1
    MaxStops = 1
INVARIANTS
    AcceptedTogether
    PublishedOrRestored
    OneEntitlement
    ReceiptBacked
PROPERTIES
    KindStored
    ListRebound
