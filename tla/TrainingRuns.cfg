SPECIFICATION PolledSpec
CHECK_DEADLOCK FALSE
CONSTANTS
  Cut <- MCCut
  Recordings <- MCRecordings
  Pids = {p1, p2, p3}
  Faults = {"buildFails", "popenFails", "workerFails", "workerDies", "powerLoss", "engineDies", "pidReused"}
  MaxEvents = 3
INVARIANTS
  TypeOK
  TrainerFollowsRecord
  TrainsOnPassed
  ReadyMeansVoice
PROPERTIES
  DeadWorkerNoticed
