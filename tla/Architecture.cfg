CONSTANTS
  Writers = {v, w}
  Streams = {s, t}
  Checking = {w}
  MaxEvents = 2
  MaxClock = 1
  MaxRebuilt = 1
  NotLoaded = NotLoaded
  Runs = {r, q}
  MaxSteps = 3
  Handlers = {f, g}
  MaxHandlers = 3
  MaxEmissions = 2
SPECIFICATION MCSpec
INVARIANTS FoldedAsStored EventsInOrder AllOrNothing EveryoneReached
PROPERTIES NoStepForgotten
CHECK_DEADLOCK FALSE
