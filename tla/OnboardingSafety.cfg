CONSTANTS
  Runs = {o1, o2, s1}
  ApiRuns = {o1, o2}
  Names <- MCNames
  Name <- MCName
  Members <- MCMembers
  None = None
  MaxResets = 1
  MaxCrashes = 1
SPECIFICATION Spec
CHECK_DEADLOCK FALSE
INVARIANTS
  IndInv
  StoredRulesAreOnChain
  DoneIsComplete
  NoOrphanRows
PROPERTIES
  RollbackDeletesOwnOrg
