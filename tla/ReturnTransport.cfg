SPECIFICATION Spec
CONSTANTS
  Positions = {p1, p2}
  Flows = {f1, f2}
  Requests = {r1, r2}
  Shared = Shared
  Wallet = Wallet
  None = None
  Small = {p2}
  FeeBuffer = 1
  GasTopup = 1
  GasCost = 1
CHECK_DEADLOCK FALSE
SYMMETRY Alike
INVARIANTS
  TypeOK
  ClosedIsEmpty
  
