CONSTANTS
  a = a
  b = b
  l1 = l1
  r1 = r1
  r2 = r2
  r3 = r3
  Commands = {a, b}
  Locks = {l1}
  Absent = Absent
  Legacy = Legacy
  None = None
  MaxTransactions = 2
  MaxFaults = 2
  Releases <- MCReleases
  Manifest <- MCManifest
  Starts <- MCStarts
  one = one
  two = two
  ca = ca
  cb = cb
  Bindings = {one, two}
  Acceptors = {ca, cb}
  Window = 2
  MaxMessages = 2
  MaxFailures = 2
  MaxSwitches = 2
  i1 = i1
  i2 = i2
  u1 = u1
  u2 = u2
  Installers = {i1, i2}
  Upgraders = {u1, u2}
  Nobody = Nobody
  MaxVersion = 3
  MaxMishaps = 2
SPECIFICATION MCSpec
INVARIANTS
  JournalIsSound
  ReceiptIsTrue
  ConsentIsEarned
PROPERTIES
  SwitchesAtOnce
  PointerIsInstalled
CONSTRAINT InScope
CHECK_DEADLOCK FALSE
