CONSTANTS
  Decisions = {d1, d2}
  PayPerCall = {d1}
  MaxAttempts = 2
  MaxCrashes = 1
SPECIFICATION Spec
CHECK_DEADLOCK FALSE
INVARIANTS
  IndInv
  ChargesAreEarned
  ResultIsRecordedAndPaid
  DuplicatesAreExplained
