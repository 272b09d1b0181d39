CONSTANTS
  MaxMessages = 1
  Delays = {0}
  Consumers = {c1}
  MaxRetries = 1
  RetryDelay = 1
  VisibilityTimeout = 3
  HandlerTime = 2
  LateTimers = FALSE
SPECIFICATION Spec
PROPERTIES HiddenWhileProcessed
CHECK_DEADLOCK FALSE
