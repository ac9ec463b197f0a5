\* Two requests of a position, three moves of the market or seventeen seconds.
CONSTANTS
  None = None
  t1 = t1
  t2 = t2
  c1 = c1
  c2 = c2
  Account = Account
  Factory = Factory
  Usdg = Usdg
  Owner = Owner
  Staging = Staging
  Wallet = Wallet
  d1 = d1
  d2 = d2
  Tokens = {t1, t2}
  Curves = {c1, c2}
  Deposits = {d1, d2}
  CurveOf <- MCCurveOf
  TokenOf <- MCTokenOf
  PairOf <- MCPairOf
  FactoryOf <- MCFactoryOf
  InitialMarket <- MCMarket
  InitialHeld <- MCHeld
  Skews <- MCSkews
  FeeBps = 100
  CreatorTaxBps = 200
  MaxSlippage = 5000
  MaxCreatorTax = 1000
  Amounts = {200, 480}
  OthersAmount = 150
  Slippages = {0, 100, 5000}
  QuoteTtl = 3
  MaxSkew = 1
  MaxWindow = 3
  MaxDeadline = 3
  MaxSources = 20
  CallLife = 2
  AuthorizationLife = 2
  RecoveryLife = 1
  MaxMoves = 3
  MaxTime = 5
  MaxRequests = 2
SPECIFICATION Spec
CHECK_DEADLOCK FALSE
INVARIANTS
  TradesPass
  ReturnsPass
  QuotedTradeExecutes
  PaidAtQuotedRate
  PolicyFloor
  ReturnsAreAuthorized
