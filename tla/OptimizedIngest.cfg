SPECIFICATION Spec
CONSTANTS
  Request = {q1, q2}
  Mappable = {q1}
  Worker = {w1}
  FetchLimit = 2
  MaxReceived = 2
  MaxFailures = 1
INVARIANTS TypeOK AcknowledgedIsKept Replayable RecordsBounded OwnFields ClosedIsFlushed
PROPERTIES EventuallyProcessed
CHECK_DEADLOCK FALSE
