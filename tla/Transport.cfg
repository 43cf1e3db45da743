SPECIFICATION Spec
CONSTANTS
  Client = {c1, c2}
  None = None
  Caller = {button}
  Offered = {"subscribe"}
  MaxLines = 1
  MaxUnsolicited = 1
SYMMETRY Connections
INVARIANTS TypeOK QueuedAnswersCurrent SubscriptionIsCurrent NoLeakedConnection
