CONSTANTS
  Keys = {k, j, h}
  Callers = {c}
  MaxSize = 2
  Ttls = {0}
  ComputeTime = 0
  MaxHits = 2
  Forever = Forever
  Idle = Idle
  Nothing = Nothing
SPECIFICATION Spec
PROPERTIES HasDoesNotCount
