CONSTANTS
  W = 7
  POLL = 1
  MQTT_GRACE = 2
  WIFI_GRACE = 3
  HEARTBEAT_PERIOD = 1
  TCP_TIMEOUT = 2
SPECIFICATION WatchdogSpec
INVARIANTS WatchdogTypeOK SilenceLocks LossLocks
PROPERTIES NoFalseTrip
