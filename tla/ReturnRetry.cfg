SPECIFICATION FairSpec
CONSTANTS
  Positions = {p1}
  Flows = {f1, f2}
  Requests = {r1, r2}
  Shared = Shared
  Wallet = Wallet
  None = None
  Small = {}
  FeeBuffer = 1
  GasTopup = 1
  GasCost = 1
CHECK_DEADLOCK FALSE
PROPERTY StagedComesHome
