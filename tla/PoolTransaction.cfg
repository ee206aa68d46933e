SPECIFICATION Spec
CONSTANT
  MaxCalls = 2
INVARIANTS
  ExitIsBestEffort
  TornTickIsWhole
PROPERTIES
  CallsAreAtomic
CHECK_DEADLOCK FALSE
