SPECIFICATION MCSpec
CONSTANTS
  Callers <- MCCallers
  Lane <- MCLane
  NoCaller = NoCaller
  CloseResults = {"released", "unproven", "throws"}
  LateCloseResults = {"released", "unproven"}
  MaxAnnounced = 2
  Cycles = {c1, c2, c3, c4}
  NoCycle = NoCycle
  CircuitFailureThreshold = 2
  CircuitDuration = 3
  MaxTime = 6
INVARIANTS
  AdmissionIsExact
  UnprovenIsQuarantined
PROPERTIES
  P0YieldsToReplies
  AttemptsEnd
  CircuitProtects
