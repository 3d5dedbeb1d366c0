\* A wake lost to an arm that was overtaken.
CONSTANTS
  i1 = i1
  Item = {i1}
  Weight <- MCWeight
  Bounds <- MCOvertaking
SPECIFICATION Spec
INVARIANT
  NoLostWake
