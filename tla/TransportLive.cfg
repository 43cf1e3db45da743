SPECIFICATION FairSpec
CONSTANTS
  Client = {c1}
  None = None
  Caller = {}
  Offered = {"subscribe"}
  MaxLines = 2
  MaxUnsolicited = 0
INVARIANT AnswersInOrder
PROPERTIES LineAnswered HangupReleased StopEndsConnection
