SPECIFICATION MCSpec
CONSTANTS
  m = m
  wake = wake
  r = r
  r2 = r2
  own = own
  None = None
  Msgs <- MCMsgs
  Wakes <- MCWakes
  Replies <- MCReplies
  Own = own
  Budgets <- MCBudgets
  Scopes = {"typing", "stops", "resumes", "ahead", "crashes", "cards", "direct", "tools", "hands", "boundary"}
  asks = asks
  answers = answers
  Blank = Blank
  Mixed = Mixed
  Contacts = {alice, bob}
  Words <- MCWords
  ReplyTexts <- MCReplyTexts
  Histories <- MCHistories
  PaneSize = 3
  MaxMoves = 2
  MaxDeliveries = 1
  NoProof = NoProof
  Sayings = {hello, bye}
  Sizes = {1, 3}
  MaxMessages = 3
  MaxWindow = 1
  MaxRevision = 2
  MaxEpoch = 2
  MaxFaults = 1
CONSTRAINT InScope
INVARIANTS
  SentOnce
  NothingSlipsIn
  StopIsHonoured
  RecordIsTrue
  CursorIsTrue
PROPERTIES
  WindowIsTrusted
\* A contact may fall silent, and a runtime or a session be over.
CHECK_DEADLOCK FALSE
