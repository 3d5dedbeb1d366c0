\* Two items and two concurrent callers, or one item followed through many cycles.
CONSTANTS
  i1 = i1   i2 = i2   c1 = c1   c2 = c2
  Item = {i1, i2}
  Weight <- MCWeight
  Caller = {c1, c2}
  NoCaller = NoCaller
  NoItem = NoItem
  Budgets = {1, 2, 3}
  BatchSize = 2
  Delays = {0, 1}
  CredentialHold = 2
  MaxTime = 2
  MaxFaults = 2
SPECIFICATION Spec
ACTION_CONSTRAINT InFocus
SYMMETRY CallerSymmetry
INVARIANTS
  TypeOK
  WireExclusive
  InFlightAccounted
  AttemptsAccounted
  BudgetKept
  OneRequestPerRejectedToken
  TrustedNotRestored
PROPERTIES
  CooldownKept
  ImplementsDelivery
