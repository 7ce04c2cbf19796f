CONSTANTS
  Agents = {A}
  Fields <- MCFields
  NumFields <- MCNumFields
  Values = {V1, V2}
  Policies <- PublicPolicies
  Decisions <- CompleteDecisions
  MaxWord = 1
  Scale = 1
  Supply = 1
  MaxBoxRefs = 8
  MaxRules = 2
  MaxFaults = 0
  None = None
  Empty = Empty
SPECIFICATION Spec
INVARIANTS
  MintsOnlyIfAllHold
