SPECIFICATION Spec
CONSTANTS
  buy = buy
  retry = retry
  sell = sell
  badFee = badFee
  noop = noop
  Direct = Direct
  Auths <- MCAuths
  Signed <- MCSigned
  MaxTime = 2
  MaxDirectCalls = 2
  MaxDepth = 3
INVARIANTS
  NoReentry
  WholeBatchOrNothing
  OncePerNonce
PROPERTIES
  ImplementsAuthority
