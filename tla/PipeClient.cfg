SPECIFICATION FairSpec
CONSTANTS
  Request = {r1, r2}
INVARIANTS TypeOK NoOrphanPending NoStrandedCommand
PROPERTIES KeepsPromise CommandsEnd LoopEnds Reconnects
CHECK_DEADLOCK FALSE
