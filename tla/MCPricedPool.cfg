SPECIFICATION Spec
CONSTANTS
  PRECISION = 10000
  fast_half_life = 3600
  slow_half_life = 7200
  kappa = 12700
  deadband = 3
  min_cap = 12
  max_cap = 48
  CAP_RAMP_SECONDS = 3600
  DECAY <- MCDecay
  adjustment_step_min = 0
  adjustment_step_max = 300
  POOL_DECAY <- MCPoolDecay
  Prices = {4000, 10020, 14000}
  Scales = {10000}
  Timestamps <- MCTimestamps
  WallClock <- MCWallClock
  MaxCalls = 6
INVARIANTS
  PolicySeesPoolScale
  CacheIsTransparent
  PolicyKeepsTheScale
PROPERTIES
  EachSecondCountsOnce
  MovesWithinCap
CHECK_DEADLOCK FALSE
