CONSTANTS
  Vendors = {v1, v2}
  Strangers = {x}
  Amounts = {1, 2}
  FallbackVendor = v1
  FallbackAmount = 1
  PolicyLimit = 2
  MaxRounds = 3
  MaxToolCalls = 2
  None = None
SPECIFICATION Spec
CHECK_DEADLOCK FALSE
INVARIANTS
  IndInv
  ChoiceIsTraced
PROPERTIES
  Answers
