SPECIFICATION Spec
CONSTANTS
  Client = {c1, c2}
  None = None
  Caller = {}
  Offered = {"other"}
  MaxLines = 1
  MaxUnsolicited = 0
INVARIANT AnswersStayHome
