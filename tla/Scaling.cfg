CONSTANTS
  Nodes = {a, b, c}
  VirtualNodes = 2
  MaxHash = 5
  Ids = {light, heavy, idle}
  Light = light
  Heavy = heavy
  MaxOpen = 2
  Cycle = 6
  Hosts = {g, h}
  Clients = {c1}
  MaxLives = 2
  HeartbeatTimeout = 1
  CallTimeout = 1
  Idle = Idle
  Checks = {x, y, z}
  CheckTimeout = 2
  Silent = Silent
SPECIFICATION MCFairSpec
INVARIANTS LookupsAgree CountsKept TurnsTaken FindsTheLiving ReportsWorst
PROPERTIES OthersStay NothingWaitsForever
