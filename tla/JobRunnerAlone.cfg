SPECIFICATION Spec
CONSTANTS
  a = a
  b = b
  shared = shared
  a2 = a2
  a3 = a3
  b2 = b2
  Workers = {w1}
  Keys = {shared, a2, a3, b2}
  Limit = 2
  MaxEvents = 2
  Jobs = {a, b}
  N = 2
  Needs <- TwoNeeds
  Sigs = {"graph"}
  Plans <- TwoPlans
INVARIANTS
  TypeOK
  CompletedCoherent
PROPERTIES
  RecordsTrue
  ImplementsLedger
  CacheKeepsWhole
  QuotaHolds
