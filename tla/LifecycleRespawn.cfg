SPECIFICATION FairSpec
CONSTANTS
  Process = {p1, p2, p3}
  NoProcess = NoProcess
  Platforms = {"win32"}
PROPERTIES
  RespawnedOnExit
CHECK_DEADLOCK FALSE
