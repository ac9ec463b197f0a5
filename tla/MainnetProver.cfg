SPECIFICATION EndpointSpec
CONSTANTS
  Handlers = {h1, h2}
  MaxAttempts = 6
  MaxLosses = 3
  Callers = {k1, k2}
  MaxAge = 6
  Margin = 2
  CacheTtl = 3
  RequestTimeout = 5
  StoreTimeout = 1
  MaxTime = 10
  MaxFailures = 2
CHECK_DEADLOCK FALSE
INVARIANTS
  AttemptsFollowSuccess
  AnswerIsEarned
PROPERTIES
  EndpointAnswers
  AnsweredInTime
