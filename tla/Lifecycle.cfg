SPECIFICATION FairSpec
CONSTANTS
  Process = {p1, p2, p3}
  NoProcess = NoProcess
  Platforms = {"win32", "linux"}
INVARIANTS
  TypeOK
  OneFrontend
  NoOrphan
  NoUseAfterDestruction
PROPERTIES
  ShutdownEnds
  CrashAnswered
CHECK_DEADLOCK FALSE
