SPECIFICATION Spec
CONSTANTS
  D1 = D1
  D2 = D2
  Unset = Unset
  Caller = {c1, c2}
  Record <- TwoRecords
  Filter <- ByTime
  Backend <- OnlyMongo
  Address = {a1}
  StatsTTL = 1
  QueryTTL = 1
  MaxTime = 2
  MaxInserts = 1
  MaxFaults = 0
INVARIANTS KeyedByFilter
CHECK_DEADLOCK FALSE
