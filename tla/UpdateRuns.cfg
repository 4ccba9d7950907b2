SPECIFICATION UsedSpec
CONSTANTS
  core = core
  lib = lib
  extra = extra
  Files = {core, lib, extra}
  Core = core
  Locked = {core}
  Last = 1
  Ships <- OneRelease
  Faults = {"stageFails", "copyFails", "receiptFails", "powerLoss", "rollback"}
  MaxEvents = 2
INVARIANTS
  TypeOK
  Undoable
  ReceiptRollsBack
PROPERTIES
  FailureRestores
  StagedIsInstalled
