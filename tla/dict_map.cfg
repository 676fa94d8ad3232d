SPECIFICATION Spec
CONSTANTS
  Keys = {"k7", "k15", "k0", "k8"}
  HashOf <- Hashes
  Values = {a, b}
  Missing = Missing
  Idle = Idle
  Free = Free
INVARIANTS RobinHood
PROPERTIES ImplementsMap
CHECK_DEADLOCK FALSE
