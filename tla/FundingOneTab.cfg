SPECIFICATION RetrySpec
CONSTANTS
  t1 = t1
  t2 = t2
  a1 = a1
  a2 = a2
  r1 = r1
  r2 = r2
  r3 = r3
  Flows <- OneTab
  Accounts <- MCAccounts
  Requests <- MCRequests
  None = None
  Garbled = Garbled
  Corrupt = Corrupt
INVARIANTS
  BurnsInSight
  PollsItsOwnTransfer
PROPERTIES
  NoBurnOverRecord
  KeepsPromise
  RetryRecovers
CHECK_DEADLOCK FALSE
