SPECIFICATION Spec
CONSTANTS
  None = None
  Source <- Sources
  Request <- Requests
  Tested <- Tries
  Payload <- Payloads
  MaxChanges = 2
INVARIANTS LiveTransformsApplied
CHECK_DEADLOCK FALSE
