CONSTANTS
  Terminals = {s1, s2}
  Apps = {p1}
  Deployer = Deployer
  Anchor = Anchor
  None = None
  TotalAacr = 3
  SEND_AMOUNT = 2
  AACR_TOPUP = 2
  DEPLOYER_AACR_BUFFER = 2
  MIN_POLICY_AACR = 2
  DeployerAlgo = 16
  MIN_DEPLOYER_ALGO = 6
  MIN_HEADROOM = 1
  POLICY_FUND_ALGO = 1
  ANCHOR_FUND_ALGO = 1
  DeployFloor = 6
  DeployFund = 2
  OptInFloor = 2
  OptInFund = 1
  DefaultFund = 1
  Fee = 1
  OptInFee = 1
  POLICY_CHECK_FEE = 1
  AccountMin = 1
  AssetMin = 1
  AppMin = 1
  BoxMin = 1
  MaxMints = 1
  MaxFaults = 2
SPECIFICATION Spec
CHECK_DEADLOCK FALSE
SYMMETRY Symmetry
INVARIANTS
  IndInv
  ReadyIsReady
  RerunIsAccepted
PROPERTIES
  TopUpsKeepFloors
