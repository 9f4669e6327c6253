SPECIFICATION Spec
CONSTANTS
  Contacts = {alice}
  Messages <- MCMessages
  Bindings <- MCBindings
  Reasons = {"OWNER_REPLIED", "CONTACT_CHANGED", "NO_REPLY", "SOURCE_BLOCKED", "RECOVERY_CANCELLED"}
  MaxBatch = 2
  NoBatch = NoBatch
  NoKey = NoKey
  Deliverers = {"flush"}
  WithP0 = TRUE
  IdsAgree = FALSE
  MaxPosition = 1
  MaxRevision = 1
  MaxEpoch = 1
  MaxFaults = 0
INVARIANTS
  OwnerRepliedIsTrue
\* The process may stay down after its last start.
CHECK_DEADLOCK FALSE
