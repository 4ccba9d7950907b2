SPECIFICATION Spec
CONSTANTS
  Workers = {w1, w2, w3}
  Keys = {k1, k2}
  Limit = 2
  MaxEvents = 2
INVARIANTS
  WorkersInv
  LosersSucceed
