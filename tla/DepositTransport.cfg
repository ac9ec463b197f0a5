SPECIFICATION FairDeposits
CONSTANTS
  Calls = {c1, c2}
  Transfers = {t1}
  NoTransfer = NoTransfer
  Balance = 1
CHECK_DEADLOCK FALSE
INVARIANTS
  DepositTypeOK
  RestIsSaved
PROPERTIES
  
  MintedBecomesPrivate
