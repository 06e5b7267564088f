SPECIFICATION Spec
CONSTANTS
  Interval = 15
  Lag = 2
  ClientTimeout = 300
INVARIANTS SilenceBounded
CHECK_DEADLOCK FALSE
