CONSTANTS
  tA = tA tB = tB tC = tC b1 = b1 b2 = b2 v1 = v1 v2 = v2
  Backends = {b1, b2}
  Routes <- MCRoutes
  BackendOf <- MCBackendOf
  Target <- MCTarget
  Tools = {tA}
  FirstPage = {tA}
  Lookups = {v1}
  Listings = {l1}
  MaxChanges = 1
SPECIFICATION Spec
INVARIANTS NoSchemaNothingEnforced
CHECK_DEADLOCK FALSE
