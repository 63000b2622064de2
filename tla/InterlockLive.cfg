CONSTANTS
  COUNT = 1
  CAPACITY = 1
  APPLY_ATTEMPTS = 1
  APPLY_ATTEMPTS_ALLOFF = 2
  INIT_ATTEMPTS = 1
  BusFaults = TRUE
  ARM_SAFETY = TRUE
  DEBOUNCE_REQUIRED = 2
  MAX_STREAK = 2
  MqttRequests <- On0
  WebRequests <- None
SPECIFICATION FairSpec
PROPERTIES LockOpensOrResets ResetOpens OpenLoopLocks
