\* Two threads, two pools, every outcome of three actions, three cadences.
CONSTANTS
  Workers = {w1, w2}
  NPools = 2
  NActions = 3
  Cadences = {0, 1, 2}
SPECIFICATION Spec
INVARIANT SlotsAreExclusive
PROPERTY KeepsItsPromise
\* The program ends once the output is written.
CHECK_DEADLOCK FALSE
