SPECIFICATION Spec
CONSTANTS
  Explored = {"threshold", "frost", "cache", "nonce", "server"}
  Threads = {t1, t2}
  Addresses = {a1, a2}
  TTLs = {0, 2}
  MaxClock = 5
  MaxRotations = 2
  Nonces = {n1, n2}
  MaxReserves = 2
  Requests = {r1, r2}
  Kinds <- MCKinds
  Configs <- MCConfigs
  Parties = {p1, p2, p3}
  Shares <- MCShares
  Quorum = 2
  MaxRounds = 2
  Callers = {1}
  OpenRounds = {2}
  Drives <- MCDrives
  Payload <- MCPayload
  Loners = {2, 3}
  FrostThreshold = 2
  MaxSigners = 3
  MaxLoose = 2
  MaxListed = 3
INVARIANTS RoundIsolation AggregateTrue NoSessionLeak NonceOnce RequestsAccounted
PROPERTIES CacheFresh
CHECK_DEADLOCK FALSE
