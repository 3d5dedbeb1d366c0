\* One item, one caller, and a network that comes and goes.
CONSTANTS
  i1 = i1   i2 = i2   c1 = c1   c2 = c2
  Item = {i1, i2}
  Weight <- MCWeight
  Caller = {c1, c2}
  NoItem = NoItem
  Budgets = {1, 2}
  BatchSize = 2
  Delays = {0, 1}
  CredentialHold = 1
  MaxTime = 3
  MaxFaults = 2
  MaxAttached = 1
SPECIFICATION MCOutageSpec
INVARIANTS
  OfflineWakeFlushed
