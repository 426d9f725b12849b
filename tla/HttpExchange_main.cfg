SPECIFICATION Spec
CONSTANTS
  Requests <- SomeRequests
  HeadSize = 2
  ContentSize = 3
  Windows = {1, 2, 4, 5, 6}
  Failures = 1
INVARIANTS
  PeerGetsInOrder
  NothingIsDoubled
  FinishedInv
  CompleteIsHandled
PROPERTIES
  UnhandledEnds
  AnswerIsSent
CHECK_DEADLOCK FALSE
