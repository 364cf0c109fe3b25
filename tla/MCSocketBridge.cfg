CONSTANTS
  s1 = s1
  s2 = s2
  Sockets <- MCSockets2
  STATE_POLL_INTERVAL = 2
SPECIFICATION Spec
SYMMETRY Symmetry
INVARIANTS
  TypeOK
  NoLeak
  HealthyKeepsChannels
  OkMeansConnected
PROPERTIES
  NoRevival
CHECK_DEADLOCK FALSE
