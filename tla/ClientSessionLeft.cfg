SPECIFICATION SessionSpec
CONSTANTS
  Device = {d1}
  MaxAttempts = 2
  MaxSockets = 2
  MaxTroubles = 2
INVARIANT LeftStaysLeft
CHECK_DEADLOCK FALSE
