CONSTANTS
  Task = {t1}
  NoTask = NoTask
  LastDay = 2
  Components = 2
  MaxFilings = 1
  Kinds = {"publish", "inherit", "restore", "warm"}
  MaxFaults = 1
  SessionLoss = TRUE
SPECIFICATION FairSpec
CHECK_DEADLOCK FALSE
INVARIANTS
    NamedStored
PROPERTIES
    ImplementsActionSnapshot
    Published
