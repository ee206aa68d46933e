SPECIFICATION Spec
CONSTANTS
  PRECISION = 100
  adjustment_step_min = 1
  adjustment_step_max = 10
  Scales = {40, 73, 100, 171, 390}
  Oracles = {35, 100, 101, 160, 400}
  Targets = {0, 60, 110, 300}
PROPERTIES
  PolicyCannotRunAway
