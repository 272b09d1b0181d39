CONSTANTS
  Keys = {k, j, h}
  Callers = {c, d}
  MaxSize = 2
  Ttls = {0, 1}
  ComputeTime = 1
  MaxHits = 2
  Forever = Forever
  Idle = Idle
  Nothing = Nothing
SPECIFICATION Spec
INVARIANTS FreshEnough
PROPERTIES EvictsByPolicy
SYMMETRY Interchangeable
