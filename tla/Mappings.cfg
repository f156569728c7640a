SPECIFICATION Spec
CONSTANTS
  Source = {inv, other}
  Fallback = inv
  Client = {c1}
  Reader = {p1}
  Boot = boot
  AutoReload = autoReload
  MaxChanges = 3
  MaxFaults = 1
  MaxLosses = 1
INVARIANTS
  TypeOK
  AnswersAreServed
  RulesAreCurrent
PROPERTIES
  ImplementsCache
CHECK_DEADLOCK FALSE
