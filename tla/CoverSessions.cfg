SPECIFICATION LiveSpec
CONSTANTS
  Jobs = {c1}
  NOutputs = 1
  Engines = {e1, e2}
  Ids = {1, 2, 3, 4, 5, 6, 7, 8}
  None = None
  Faults = {"raises", "engineDies", "appDies", "noise", "close"}
  MaxEvents = 1
CHECK_DEADLOCK FALSE
INVARIANTS
  TypeOK
  RecoverableHasRequest
  CompletedIsDelivered
PROPERTIES
  AnswersMatch
  ResultShownIsTrue
  CallsEnd
