CONSTANTS
  Agents = {A, B}
  Fields <- MCFields
  NumFields <- MCNumFields
  Values = {V1, V2}
  Policies <- AllPolicies
  Decisions <- AllDecisions
  MaxWord = 1
  Scale = 2
  Supply = 1
  MaxBoxRefs = 4
  MaxRules = 2
  MaxFaults = 1
  None = None
  Empty = Empty
SPECIFICATION Spec
SYMMETRY Symmetry
INVARIANTS
  IndInv
  TokensTellTheTruth
  ReportsWhatWasMinted
  RefusalsAreExplained
PROPERTIES
  MintsAreDeserved
