SPECIFICATION Spec
CHECK_DEADLOCK FALSE
CONSTANTS
  NIds = 2
  Archives <- MCArchives
  Wishes <- MCWishes
  NonAscii = {"hebrew"}
  MaxCommands = 4
  MaxFaults = 2
INVARIANTS TypeOK VoiceKept ProjectKept
PROPERTIES ReplacedOnRequest
