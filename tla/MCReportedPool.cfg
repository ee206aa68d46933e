SPECIFICATION Spec
CONSTANTS
  PRECISION = 10000
  SLACK = 2
  base_fee = 30
  capture = 8000
  fallback_fee = 150
  relax_time = 300
  fast_half_life = 3600
  slow_half_life = 10800
  trend_gate = 80
  step_cap = 12
  report_max_age = 12
  ADMISSION_S = 12
  FUTURE_WINDOW_S = 6
  DECAY <- MCDecay
  AGEING <- MCAgeing
  adjustment_step_min = 0
  adjustment_step_max = 300
  Lifetimes <- MCLifetimes
  Prices = {9900, 10000}
  Reports = {9920, 10100}
  ReportTimes <- MCReportTimes
  Timestamps <- MCTimestamps
  Levels = {9890, 9930, 9960, 10030, 10060, 10120}
  MaxCalls = 6
INVARIANTS
  FeeAboveContextFloor
  RejectsOnlyLosses
  AgeingNeverCheapens
PROPERTIES
  TargetIsRemembered
  ReportsTakenInOrder
CHECK_DEADLOCK FALSE
