SPECIFICATION FairSpec
CONSTANTS
  Positions = {p1}
  Root = Root
  None = None
  Scanning = TRUE
  Retrying = TRUE
CHECK_DEADLOCK FALSE
INVARIANTS
  OnePrompt
PROPERTIES
  ReturnedIsKept
  FlowsSettle
