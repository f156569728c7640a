SPECIFICATION Spec
CONSTANTS
  Request = {q1}
  Mappable = {q1}
  Handler = {h1}
  StrictMode = FALSE
  FetchLimit = 2
  MaxReceived = 1
  MaxFaults = 0
  MaxCrashes = 0
  MaxGaps = 0
  MaxReprocess = 1
  MaxDocs = 1
  MaxHandOvers = 5
PROPERTIES
  ReprocessHonoured
CHECK_DEADLOCK FALSE
