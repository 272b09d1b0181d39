CONSTANTS
  Calls = {a, b, c}
  FailureThreshold = 2
  SuccessThreshold = 2
  ResetTimeout = 2
  RollingWindowSize = 3
  RateNum = 1
  RateDen = 2
  MaxConcurrent = 1
  MaxQueue = 1
  MaxAttempts = 2
  Fatal = {c}
  Limit = 4
  Window = 5
  Absent = Absent
  NoPromise = NoPromise
SPECIFICATION MCSpec
INVARIANTS NothingOverdue PlacesKept BurstBound
PROPERTIES CoolsDown RecoversWhenHealthy CallReturns DenialsJustified
