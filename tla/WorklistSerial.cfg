CONSTANTS
  b1 = b1
  b2 = b2
  b3 = b3
  k1 = k1
  k2 = k2
  Batch = {b1, b2, b3}
  Key = {k1, k2}
  Scope <- SharedScope
  Value = {v1, v2}
  Pass = Pass
  NoValue = NoValue
  Tools = {"ack", "project"}
  Overlap = FALSE
  MaxRuns = 3
SPECIFICATION WorklistSpec
CHECK_DEADLOCK FALSE
INVARIANTS
    WorklistCurrent
PROPERTIES
    ReviewsStand
