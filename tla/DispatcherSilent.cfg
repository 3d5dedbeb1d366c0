\* A cycle that is cancelled while it announces its end.
CONSTANTS
  i1 = i1   i2 = i2   c1 = c1   c2 = c2
  Item = {i1, i2}
  Weight <- MCWeight
  Caller = {c1}
  NoCaller = NoCaller
  NoItem = NoItem
  Budgets = {2}
  BatchSize = 2
  Delays = {1}
  CredentialHold = 1
  MaxTime = 1
  MaxFaults = 1
SPECIFICATION Spec
INVARIANT
  EveryCycleCloses
