SPECIFICATION Spec
CONSTANTS
  Record = {r1, r2, r3}
  Handler = {h1, h2}
  RawLoop = rawLoop
  AutoFlush = autoFlush
  Main = main
  BatchSize = 2
INVARIANTS
  TypeOK
  ExactlyOnePlace
  BufferBound
  RecordsWrittenBacked
  ClosedIsDrained
PROPERTIES
  ImplementsSink
  CloseReturns
CHECK_DEADLOCK FALSE
