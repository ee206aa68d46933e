SPECIFICATION MCCheckpointSpec
CONSTANTS
  A = 8
  A_MULTIPLIER = 4
  PRECISION = 1000
  EXP <- MCExp
  FEE_PRECISION = 1000
  NOISE_FEE = 1
  MINIMUM_LIQUIDITY = 10
  precisions <- UnitPrecisions
  initial_price = 1000
  mid_fee = 60
  out_fee = 30
  fee_gamma = 100
  adjustment_step_min = 1
  adjustment_step_max = 100
  ma_time = 100
  reserved_profit_fraction = 500
  admin_fee = 0
  donation_shares_max_ratio = 400
  donation_duration = 100
  donation_protection_period = 20
  donation_protection_lp_threshold = 170
  MIN_ADMIN_FEE_CLAIM_INTERVAL = 50
  Seeds <- SmallSeeds
  Deposits <- SmallDeposits
  Donations <- SmallDonations
  Trades = {20, 100}
  Burns = {50, 190, 200}
  FixedOuts <- SmallFixedOuts
  Minimums = {0}
  Seconds = {60}
  Timestamps <- NoClock
  StartTime = 100
  StartTimes = {0, 130, 220}
  WallClock = 400
  MaxCalls = 5
INVARIANTS
  ShortByOneUnitAtMost
  NothingAheadOfTheClock
PROPERTIES
  CurveIsNeverCrossed
  NeverDrained
  ResumesAsItWas
CHECK_DEADLOCK FALSE
