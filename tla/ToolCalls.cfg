CONSTANTS
  Callers = {c1, c2}
  Keys = {k1, k2}
  Cacheable = {k1, k2}
  MaxRetries = 1
  Backoff = 1
  RetryOnTimeout = TRUE
  RetryOnTransient = FALSE
  Timeout = 1
  TTL = 1
  Capacity = 1
  MaxAbandoned = 1
SPECIFICATION Spec
INVARIANTS
  AnswersItsCall
  BoundedStaleness
  CallBound
PROPERTIES
  NeverGoesBack
  CallReturns
