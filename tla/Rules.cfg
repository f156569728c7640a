SPECIFICATION Spec
CONSTANTS
  None = None
  Source <- Sources
  Request <- Requests
  Tested <- Tries
  Payload <- Payloads
  MaxChanges = 2
INVARIANTS TypeOK DetectionIsBest DetectedMaps ReadingsReachRecord MappersAgree FormatAgrees
CHECK_DEADLOCK FALSE
