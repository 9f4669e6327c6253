SPECIFICATION MCSpec
CONSTANTS
  MaxSessions = 3
  MaxAttempts = 3
  MaxFaults = 1
  MaxEdits = 0
  MaxCrashes = 1
INVARIANTS
  PendingSubmitIsPerformed
CHECK_DEADLOCK FALSE
