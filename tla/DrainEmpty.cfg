\* A cycle that starts and ends between two looks at the engine.
CONSTANTS
  i1 = i1   i2 = i2
  Item = {i1}
  Weight <- MCWeight
  IdleWait = 2
  Delays = {0}
  Timeouts = {4}
  MaxIterations = {2}
  BatchSize = 1
  Cooldowns = {1}
  MaxTime = 4
SPECIFICATION Spec
INVARIANT
  EmptyMeansEmpty
