SPECIFICATION FairSpec
CONSTANTS
  Client = {c1}
  None = None
  Caller = {}
  Offered = {"other"}
  MaxLines = 1
  MaxUnsolicited = 0
PROPERTY StopReturns
