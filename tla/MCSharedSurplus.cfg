SPECIFICATION Spec
CONSTANTS
  Explored = {"frost"}
  Threads = {t1, t2}
  Addresses = {a1, a2}
  TTLs = {0, 2}
  MaxClock = 5
  MaxRotations = 2
  Nonces = {n1, n2}
  MaxReserves = 2
  Requests = {r1, r2}
  Kinds <- MCKinds
  Configs <- MCConfigs
  Parties = {p1, p2, p3}
  Shares <- MCShares
  Quorum = 2
  MaxRounds = 0
  Callers = {1}
  OpenRounds = {}
  Drives <- SurplusDrives
  Payload <- MCPayload
  Loners = {}
  FrostThreshold = 2
  MaxSigners = 3
  MaxLoose = 2
  MaxListed = 3
INVARIANT ParticipantsSuffice
CHECK_DEADLOCK FALSE
