CONSTANTS
  COUNT = 2
  CAPACITY = 2
  APPLY_ATTEMPTS = 1
  APPLY_ATTEMPTS_ALLOFF = 2
  INIT_ATTEMPTS = 2
  BusFaults = FALSE
  ARM_SAFETY = FALSE
  DEBOUNCE_REQUIRED = 2
  MAX_STREAK = 2
  MqttRequests <- OnOff0
  WebRequests <- On2
SPECIFICATION Spec
INVARIANT CopiesAgree
PROPERTY SetIsExact
