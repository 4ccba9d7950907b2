SPECIFICATION Spec
CONSTANTS
  core = core
  lib = lib
  extra = extra
  Files = {core, lib, extra}
  Core = core
  Locked = {core}
  Last = 1
  Ships <- OneRelease
  Faults = {}
  MaxEvents = 0
INVARIANTS
  StartsWhole
