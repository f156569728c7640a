SPECIFICATION StatsSpec
CONSTANTS
  Request = {q1,q2}
  Mappable = {q1}
  Handler = {h1,h2}
  StrictMode = TRUE
  FetchLimit = 2
  MaxReceived = 2
  MaxFaults = 1
  MaxCrashes = 1
  MaxGaps = 0
  MaxReprocess = 1
  MaxDocs = 2
  MaxHandOvers = 7
SYMMETRY Symmetry
CONSTRAINT StatsBound
INVARIANTS
  TypeOK
  Replayable
  AckedIsBacked
  DuplicatesBounded
  CountersBacked
PROPERTIES
  ProcessedIsBacked
CHECK_DEADLOCK FALSE
