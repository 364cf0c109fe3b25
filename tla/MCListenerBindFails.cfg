CONSTANTS
  c1 = c1
  c2 = c2
  c3 = c3
  L = L
  Conns <- MCConns
  Allowed <- MCAllowed
  Filtered = TRUE
  ACCEPT_CAPACITY = 1
SPECIFICATION Spec
INVARIANTS
  FailedLeavesNothing
CHECK_DEADLOCK FALSE
