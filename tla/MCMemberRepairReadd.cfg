CONSTANTS
  Endpoints <- MCEndpoints1
  MaxId = 4
  Backup = FALSE
  STRANDED_MEMBER_GRACE = 1
  MASKED_MEMBER_RECHECK = 1
  MAX_STRANDED_REPAIRS = 1
  CONNECT_TIMEOUT = 1
  HANDSHAKE_TTL_SLACK = 1
  LINGER = 1
  Racing = TRUE
  Hangs = {TRUE}
  MaxAdds = 1
SPECIFICATION Spec
INVARIANTS
  OneCarrier
PROPERTIES
  PeerKept
CHECK_DEADLOCK FALSE
