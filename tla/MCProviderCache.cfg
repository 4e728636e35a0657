SPECIFICATION Spec
CONSTANTS
  r1 = r1
  r2 = r2
  health = health
  Requests = {r1, r2}
  Deployments = {d1}
  Checks = {health}
  CheckTtl <- MCCheckTtl
  HeadTtl = 1
  ChainTtl = 2
  Messari = 1
  Substreams = 0
  FetchMax = 1
  Lags = {1, 6}
  Sentinel = 99
  LongAgo = 5
SYMMETRY MCSymmetry
INVARIANTS
  FreshMeansRecent
  OutageWearsOff
  ChecksAreRecent
CHECK_DEADLOCK FALSE
