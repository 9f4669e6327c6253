SPECIFICATION MCFairSpec
CONSTANTS
  Cycles <- MCCycles
  NoCycle = 0
  CircuitFailureThreshold = 2
  CircuitDuration = 3
  MaxTime = 2
  MaxLate = 1
  MaxFaults = 2
  MaxCrashes = 1
INVARIANTS
  UnsettledIsOnDisk
  NoForgottenRuntime
PROPERTIES
  BeginsClean
  SupervisorEnds
