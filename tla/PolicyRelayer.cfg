SPECIFICATION FairSpec
CONSTANTS
  buy = buy
  giveBack = giveBack
  Auths <- MCAuths
  Signed <- MCSigned
  Spends <- MCAuths
  MaxTime = 1
  BalanceAttempts = 3
  SimulationAttempts = 2
CHECK_DEADLOCK FALSE
INVARIANTS
  
  HashIsBroadcast
  NothingFutileIsBroadcast
PROPERTIES
  HandlersEnd
