SPECIFICATION Spec
CONSTANTS
  Hour = 2
  Day = 8
INVARIANT QuietHours
CHECK_DEADLOCK FALSE
