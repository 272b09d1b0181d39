CONSTANTS
  Rows = {1, 2, 3}
  PageSize = 1
  Pending = Pending
SPECIFICATION Spec
INVARIANTS StableUnderDeletes
CHECK_DEADLOCK FALSE
