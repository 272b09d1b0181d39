CONSTANTS
  Rows = {1, 2, 3, 4}
  PageSize = 2
  Pending = Pending
  Calls = {c, d}
  MaxAttempts = 3
  RetryableCodes = {"P2034"}
SPECIFICATION MCSpec
INVARIANTS WalkServesAll AppliedOnce
CHECK_DEADLOCK FALSE
