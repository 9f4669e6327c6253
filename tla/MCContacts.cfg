SPECIFICATION MCSpec
CONSTANTS
  Contacts = {alice, bob}
  Messages <- MCMessages
  Bindings <- MCBindings
  Reasons = {"OWNER_REPLIED", "CONTACT_CHANGED", "NO_REPLY", "SOURCE_BLOCKED", "RECOVERY_CANCELLED"}
  MaxBatch = 2
  NoBatch = NoBatch
  NoKey = NoKey
  Deliverers = {"flush"}
  WithP0 = TRUE
  IdsAgree = TRUE
  MaxPosition = 1
  MaxRevision = 1
  MaxEpoch = 2
  MaxFaults = 0
  c1 = c1
  p1 = p1
  s1 = s1
  Proposed = {c1, c2}
  Legacy = legacy
  NameOf <- MCNameOf
  Samples = {s1, s2}
  Confirmers = {p1, p2}
  Readers = {r1, r2}
  Ttl = 1
  MaxCandidates = 1
  MaxTime = 2
  MaxUpdates = 3
  AskedTriggers = {t1, t2}
  Texts = {x1}
  Echoes = {e1, e2}
  RememberedEchoes = 1
  MaxAsks = 2
  MaxLeases = 2
  BoundTo = {"b1", "b2", "b3"}
  OwnBinding = "b1"
  UserId <- MCUserId
  MaxOthers = 1
CONSTRAINT InScope
INVARIANTS
  BufferedIsAnnounced
  ContactIsEnrolled
  NamesAreUnambiguous
  EngineKeepsFaith
  RequestIsItsOwn
PROPERTIES
  KeepsPromise
\* The process may stay down after its last start, an engine or a request be over.
CHECK_DEADLOCK FALSE
