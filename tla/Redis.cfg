CONSTANTS
  Clients = {a, b}
  Tokens = {t1, t2, t3}
  NoToken = NoToken
  Ttl = 2
  AcquireTime = 2
  HoldTime = 3
  Callers = {a, b, c}
  Limit = 2
  Window = 3
  Delay = 2
  NoExpiry = NoExpiry
  NoPromise = NoPromise
  Users = {a, b}
  Ttls = {0, 1, 3}
  DefaultTtl = 2
  ComputeTime = 2
  Absent = Absent
  Forever = Forever
  Idle = Idle
  NoTtl = NoTtl
  NoDelete = NoDelete
SPECIFICATION MCSpec
INVARIANTS LeaseKept SingleExecution LimitKept NoStaleAnswer
PROPERTIES LockFrees EveryWindowEnds
