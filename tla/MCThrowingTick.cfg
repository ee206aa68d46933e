SPECIFICATION MCRawSpec
CONSTANTS
  A = 8
  A_MULTIPLIER = 4
  PRECISION = 1000
  EXP <- MCExp
  FEE_PRECISION = 1000
  NOISE_FEE = 1
  MINIMUM_LIQUIDITY = 10
  precisions <- UnitPrecisions
  initial_price = 1000
  mid_fee = 20
  out_fee = 100
  fee_gamma = 100
  adjustment_step_min = 1
  adjustment_step_max = 100
  ma_time = 100
  reserved_profit_fraction = 500
  admin_fee = 500
  donation_shares_max_ratio = 300
  donation_duration = 100
  donation_protection_period = 20
  donation_protection_lp_threshold = 200
  MIN_ADMIN_FEE_CLAIM_INTERVAL = 50
  Seeds <- LopsidedSeeds
  Deposits <- NoPairs
  Donations <- NoPairs
  Trades = {}
  Burns = {}
  FixedOuts <- NoPairs
  Minimums = {0}
  Seconds = {60}
  Timestamps <- NoClock
  StartTime = 100
  MaxCalls = 4
PROPERTIES
  CheckedBeforeCommit
CHECK_DEADLOCK FALSE
