SPECIFICATION Spec
CONSTANTS
  TokensPerBuy = 2
  MaxBatches = 4
  Launches = FALSE
  Losses = FALSE
  Timeouts = FALSE
  Reloads = TRUE
INVARIANT ClosedHoldsNothing
CHECK_DEADLOCK FALSE
