SPECIFICATION Spec
CONSTANTS
  Request = {q1}
  Mappable = {q1}
  Handler = {h1}
  StrictMode = FALSE
  FetchLimit = 2
  MaxReceived = 1
  MaxFaults = 1
  MaxCrashes = 1
  MaxGaps = 1
  MaxReprocess = 1
  MaxDocs = 1
  MaxHandOvers = 6
INVARIANTS
  DuplicatesBounded
PROPERTIES
  EventuallyHandedOver
  StoredUnlessFaulty
CHECK_DEADLOCK FALSE
