SPECIFICATION Spec
CONSTRAINT InDeliveryScope
CONSTANTS
  Contacts = {alice}
  Messages <- MCMessages
  Bindings <- MCBindings
  Reasons = {"OWNER_REPLIED", "CONTACT_CHANGED", "NO_REPLY", "SOURCE_BLOCKED", "RECOVERY_CANCELLED"}
  MaxBatch = 1
  NoBatch = NoBatch
  NoKey = NoKey
  Deliverers = {"flush", "tick", "recovery"}
  WithP0 = TRUE
  IdsAgree = TRUE
  MaxPosition = 2
  MaxRevision = 2
  MaxEpoch = 2
  MaxFaults = 1
INVARIANTS
  LedgerIsTrue
  NoStrandedBatch
  NothingSlipsIn
  OwnerRepliedIsTrue
\* The process may stay down after its last start.
CHECK_DEADLOCK FALSE
