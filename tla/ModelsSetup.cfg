SPECIFICATION FairSpec
CONSTANTS
  NFiles = 1
  NUrls = 2
  Attempts = 2
  Size = 2
  Bodies <- MCBodies
  Engines = {"e1", "e2"}
  None = None
  Faults = {"drops", "refuses", "diskFull", "locked", "engineDies", "windowDies", "command"}
  MaxEvents = 1
  MaxLength = 5
INVARIANTS TypeOK UsedIsRight
PROPERTIES InstalledInTheEnd
