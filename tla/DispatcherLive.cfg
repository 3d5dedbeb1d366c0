\* Liveness: one item, two callers competing for the mutex, one fault.
CONSTANTS
  i1 = i1   i2 = i2   c1 = c1   c2 = c2
  Item = {i1}
  Weight <- MCWeightOne
  Caller = {c1, c2}
  NoCaller = NoCaller
  NoItem = NoItem
  Budgets = {2}
  BatchSize = 1
  Delays = {0}
  CredentialHold = 1
  MaxTime = 0
  MaxFaults = 1
SPECIFICATION FairSpec
PROPERTIES
  FlushReturns
  OrphansRecovered
