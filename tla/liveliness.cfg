SPECIFICATION Spec
CONSTANTS
  PING_INTERVAL = 2
  PING_TIMEOUT = 6
  CONNECTION_SETUP_TIMEOUT = 5
  MaxDelay = 3
  MaxTime = 16
INVARIANTS
  LivelinessTypeOK
  SilenceBounded
  PingedOnTime
  HealthyStaysUp
CHECK_DEADLOCK FALSE
