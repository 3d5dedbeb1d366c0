\* Two items, a batch of one, drains with time for several cycles and with none; calls may hang.
CONSTANTS
  i1 = i1   i2 = i2
  Item = {i1, i2}
  Weight <- MCWeight
  IdleWait = 1
  Delays = {0, 1}
  Timeouts = {0, 2}
  MaxIterations = {2}
  BatchSize = 1
  Cooldowns = {1}
  MaxTime = 2
SPECIFICATION FairSpec
INVARIANTS
  TypeOK
  EmptyWasQuiet
PROPERTIES
  NoSpin
  DrainSettles
