\* Two overlapping calls on a queue that holds one or two rows, and the pure functions
\* over every shape of an input, of a document and of a retry policy.
CONSTANTS
  i1 = i1   i2 = i2   i3 = i3   c1 = c1   c2 = c2
  Slot = {c1, c2}
  Item = {i1, i2, i3}
  Inputs <- MCInputs
  Caps = {0, 1, 2}
  Limits = {0, 1}
  MaxResults = 1
  Keys = {"k1", "k2"}
  DelayValues <- MCDelayValues
  MaxAttempt = 16
  Factors = {75, 100, 124}
  Infinity = 10000
  Ceiling = 20
SPECIFICATION MCSpec
SYMMETRY FacadeSymmetry
INVARIANTS
  TypeOK
  OneNativeObject
  RejectionTells
  HistoryHonest
  ValidationExact
  ReadBack
  DelaysSound
PROPERTY
  CapKept
