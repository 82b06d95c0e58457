CONSTANTS
  tA = tA tB = tB tC = tC tD = tD tX = tX
  b1 = b1 b2 = b2 p = p q = q
  Backends = {b1, b2}
  Policies = {p, q}
  NoBackend = NoBackend
  NoPolicy = NoPolicy
  BackendOf <- MCBackendOf
  PolicyOf <- MCPolicyOf
  HasSchema <- MCHasSchema
  MaxAttempts <- MCMaxAttempts
  MinCalls = 2
  FailureRate = 50
  Calls = {c1, c2}
  Tools = {tA, tC}
  Burst <- MCBurst
  HasBreaker = {p, q}
  HasThreshold = {}
  BreakerWraps = "attempt"
  Results <- MCResults
  Deadlines = {"short"}
  Leaving = {}
  MaxRefills = 1
SPECIFICATION FairSpec
INVARIANTS TypeOK RateConservation FirewallHolds BreakerIsolation MetricsAgree
PROPERTIES StepsRunOut EveryCallAnswered
