CONSTANTS
  s1 = s1
  s2 = s2
  Sockets <- MCSockets1
  STATE_POLL_INTERVAL = 2
SPECIFICATION Spec
PROPERTIES
  ConnectReturns
  DeadHandshakeReleased
  DeadSocketUnblocks
CHECK_DEADLOCK FALSE
