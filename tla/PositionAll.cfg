SPECIFICATION FairSpec
CONSTANTS
  TokensPerBuy = 2
  MaxBatches = 3
  Launches = TRUE
  Losses = TRUE
  Timeouts = TRUE
  Reloads = TRUE
INVARIANTS
  HashesAreReal
PROPERTIES
  UserClosesEmpty
  PageComesBack
CHECK_DEADLOCK FALSE
