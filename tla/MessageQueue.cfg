CONSTANTS
  MaxMessages = 2
  Delays = {0, 1}
  Consumers = {c1, c2}
  MaxRetries = 1
  RetryDelay = 3
  VisibilityTimeout = 2
  HandlerTime = 3
  LateTimers = TRUE
  Quick = 1
SPECIFICATION MCSpec
INVARIANTS OnePlace OneHandlerAtATime
PROPERTIES FifoFirstDelivery ImplementsContract EveryMessageSettles
CHECK_DEADLOCK FALSE
