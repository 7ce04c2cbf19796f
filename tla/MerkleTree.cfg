CONSTANTS
  Records = {r1, r2, r3}
  MaxLeaves = 5
SPECIFICATION Spec
CHECK_DEADLOCK FALSE
SYMMETRY Symmetry
INVARIANTS
  MerkleInv
  ProofsVerifyTheirLeaf
  RootCommits
