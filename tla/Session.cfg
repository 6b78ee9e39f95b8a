SPECIFICATION FairSpec
CONSTANTS
  Clients = {ctl, rtc}
  Faults = TRUE
  MaxConns = 2
  MaxRequests = 2
INVARIANTS
  AnswerIsMine
PROPERTIES
  ClosedHandlersEnd
  InferEnds
