\* Two accounts of the user's and one of somebody else's, three blocks, a
\* provider that may refuse any range.
CONSTANTS
  a1 = a1
  a2 = a2
  f1 = f1
  t1 = t1
  j1 = j1
  NoAccount = NoAccount
  AllAccounts = {a1, a2, f1}
  Own = {a1, a2}
  Tokens = {t1, j1}
  PonsTokens = {t1}
  MinRange = 2
  MaxRange = 3
  Attempts = 2
  MaxBlocks = 3
SPECIFICATION FairScan
CHECK_DEADLOCK FALSE
INVARIANTS
  ScannedOnce
  RecoveryIsExact
PROPERTIES
  ScanSettles
