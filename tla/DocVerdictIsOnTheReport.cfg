CONSTANTS
  Agents = {A}
  Fields <- MCFields
  NumFields <- MCNumFields
  Values = {V1, V2}
  Policies <- NumberPolicies
  Decisions <- PositiveDecisions
  MaxWord = 1
  Scale = 2
  Supply = 1
  MaxBoxRefs = 8
  MaxRules = 1
  MaxFaults = 0
  None = None
  Empty = Empty
SPECIFICATION Spec
INVARIANTS
  VerdictIsOnTheReport
