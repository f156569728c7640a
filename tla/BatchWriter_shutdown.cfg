SPECIFICATION Spec
CONSTANTS
  Record = {r1, r2}
  Handler = {h1}
  RawLoop = rawLoop
  AutoFlush = autoFlush
  Main = main
  BatchSize = 2
PROPERTIES
  ExitLosesNothing
CHECK_DEADLOCK FALSE
