SPECIFICATION Spec
CONSTANTS
  A = 8
  A_MULTIPLIER = 4
  PRECISION = 1000
  EXP <- NoEXP
  Starts <- CurveStarts
  Amounts = {1, 2, 3, 5, 17}
  MaxSwaps = 6
INVARIANTS
  SolvesTheInvariant
  NoFreeCoins
CHECK_DEADLOCK FALSE
