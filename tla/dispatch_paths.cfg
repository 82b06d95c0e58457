CONSTANTS
  tA = tA tB = tB tC = tC tD = tD tX = tX
  b1 = b1 b2 = b2 p = p q = q
  Backends = {b1, b2}
  Policies = {p, q}
  NoBackend = NoBackend
  NoPolicy = NoPolicy
  BackendOf <- MCBackendOf
  PolicyOf <- MCPolicyOf
  HasSchema <- MCHasSchema
  MaxAttempts <- MCMaxAttempts
  MinCalls = 2
  FailureRate = 50
  Calls = {c1}
  Tools = {tA, tB, tC, tD, tX}
  Burst <- MCBurst
  HasBreaker = {p, q}
  HasThreshold = {p}
  BreakerWraps = "call"
  Results <- AllResults
  Deadlines = {"none", "ample"}
  Leaving = {c1}
  MaxRefills = 1
SPECIFICATION Spec
INVARIANTS AttemptDiscipline
PROPERTIES KeepsContract
