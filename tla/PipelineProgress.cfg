CONSTANTS
  Requests = {r1, r2}
  ActionIds = {a1, a2}
  BatchIds = {b1, b2, b3}
  Compliant = {r1}
  Supply = 1
  HistoryCap = 2
  ReuseIds = TRUE
  MaxFaults = 1
  Batcher = Batcher
  None = None
SPECIFICATION FairSpec
CHECK_DEADLOCK FALSE
PROPERTIES
  HandlersReturn
  EventuallyAnchored
