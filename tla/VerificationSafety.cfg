CONSTANTS
  t1 = t1
  t2 = t2
  low = low
  high = high
  text = text
  Tenants = {t1, t2}
  Calls = {c1, c2}
  Queries = {q1}
  Fields <- MCFields
  Rules <- MCRules
  Reports <- MCReports
  NotInts = {text}
  Zero = Zero
  Empty = Empty
  BadHex = BadHex
  None = None
SPECIFICATION Spec
CHECK_DEADLOCK FALSE
SYMMETRY Symmetry
INVARIANTS
  IndInv
  OwnerCanRead
  KeyValidIsOwners
  RecheckAgrees
  RecordedIsRecheckable
  LabelsTellTheRule
