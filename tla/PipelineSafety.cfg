CONSTANTS
  Requests = {r1, r2, r3}
  ActionIds = {a1, a2, a3}
  BatchIds = {b1, b2}
  Compliant = {r1, r2}
  Supply = 1
  HistoryCap = 2
  ReuseIds = TRUE
  MaxFaults = 2
  Batcher = Batcher
  None = None
SPECIFICATION Spec
CHECK_DEADLOCK FALSE
SYMMETRY Symmetry
INVARIANTS
  IndInv
  AnchoredVerifies
  RecordTellsChain
  AnswerIsKept
  HistoryIsBacked
  AnchoredOnce
PROPERTIES
  AnchoredIsFinal
  KeepsTrail
