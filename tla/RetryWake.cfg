\* The wake layer: coroutines that overtake each other, or a network that comes and goes.
CONSTANTS
  i1 = i1
  Item = {i1}
  Weight <- MCWeight
  Bounds <- MCBounds
SPECIFICATION Spec
INVARIANTS
  TypeOK
  WakeKept
