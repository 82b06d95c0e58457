CONSTANTS
  tA = tA tB = tB tC = tC b1 = b1 b2 = b2 v1 = v1 v2 = v2
  Backends = {b1, b2}
  Routes <- MCRoutes
  BackendOf <- MCBackendOf
  Target <- MCTarget
  Tools = {tA, tB}
  FirstPage = {tA, tB}
  Lookups = {v1, v2}
  Listings = {l1}
  MaxChanges = 1
SPECIFICATION Spec
INVARIANTS TypeOK ListingTakesEffect ListedIsPrimed FetchIsEnforced
CHECK_DEADLOCK FALSE
