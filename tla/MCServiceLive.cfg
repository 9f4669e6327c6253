SPECIFICATION ScopedSpec
CONSTANTS
  Contacts = {alice}
  Messages <- MCMessages
  Bindings <- MCBindings
  Reasons = {"OWNER_REPLIED", "CONTACT_CHANGED", "NO_REPLY", "SOURCE_BLOCKED", "RECOVERY_CANCELLED"}
  MaxBatch = 2
  NoBatch = NoBatch
  NoKey = NoKey
  Deliverers = {"flush", "tick", "recovery"}
  WithP0 = TRUE
  IdsAgree = TRUE
  MaxPosition = 2
  MaxRevision = 1
  MaxEpoch = 2
  MaxFaults = 0
PROPERTIES
  WorkDrains
\* The process may stay down after its last start.
CHECK_DEADLOCK FALSE
