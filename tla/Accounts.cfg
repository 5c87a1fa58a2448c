SPECIFICATION MCSpec
CONSTANTS
  Requests = {"r1", "r2"}
  Threshold = 3
  Window = 2
  Duration = 2
  Rereads = TRUE
  MaxFailed = 4
  MaxId = 3
  RecentCap = 4
  Passwords = {"p1"}
  Logins = {"l1"}
  Changes = {change1, change2}
  MaxHashes = 3
  MaxTokens = 2
  Send = {"s1", "s2"}
  Redeem = {"r1", "r2"}
  Editors = {"a1"}
  Conn = {"c1", "c2"}
  None = "none"
  Employees = {"e1", "e2"}
  Admin = "admin"
  Identities = {"i1", "i2"}
  Callbacks = {"c1", "c2"}
  Fetches = {"f1", "f2"}
  MaxTxn = 2
  Threads = {thread1, thread2}
  Keys = {"k1", "k2"}
  Ttl = 2
  Timeout = 1
  KeyTime = 2
INVARIANTS
  FailuresLock
  OldCredentialsDie
  OneLiveLink UsedOnce
  CompletedOnce LinksSound
  KeysSound
PROPERTY RevokedForGood
CONSTRAINT MCBound
SYMMETRY MCSymmetry
CHECK_DEADLOCK FALSE
