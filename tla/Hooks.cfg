\* Every hook, with one or two runs of its effect.
CONSTANT
  Instances <- MCInstances
SPECIFICATION Spec
CHECK_DEADLOCK FALSE
CONSTRAINT InitiallyConnected
INVARIANTS
  TypeOK
  
  LoadingSettles
  LeakOnlyInWindow
  NoWildFlush
  BackgroundOnlyInWindow
