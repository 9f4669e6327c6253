SPECIFICATION MCSpec
CONSTANTS
  MaxSessions = 3
  MaxAttempts = 2
  MaxFaults = 1
  MaxEdits = 1
  MaxCrashes = 1
INVARIANTS
  BroadcastOnce
PROPERTIES
  QuarantineHolds
  ClosedIsAccounted
  DeadlineCloses
CHECK_DEADLOCK FALSE
