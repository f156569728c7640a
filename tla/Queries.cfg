SPECIFICATION Spec
SYMMETRY Symmetry
CONSTANTS
  D1 = D1
  D2 = D2
  Unset = Unset
  Caller = {c1, c2, c3}
  Record <- TwoRecords
  Filter <- ByDevice
  Backend <- Both
  Address = {a1}
  StatsTTL = 1
  QueryTTL = 1
  MaxTime = 3
  MaxInserts = 1
  MaxFaults = 1
INVARIANTS TypeOK FreshWithinTTL PageIsAskedFor StatsAreCounts
CHECK_DEADLOCK FALSE
