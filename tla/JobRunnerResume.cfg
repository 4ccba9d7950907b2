SPECIFICATION LiveSpec
CONSTANTS
  a = a
  b = b
  shared = shared
  a2 = a2
  a3 = a3
  b2 = b2
  Workers = {w1}
  Keys = {shared, a2, a3, b2}
  Limit = 4
  MaxEvents = 3
  Jobs = {a}
  N = 2
  Needs <- TwoNeeds
  Sigs = {"graph"}
  Plans <- SoloPlans
INVARIANTS
  NoRerun
PROPERTIES
  ResumedJobsEnd
