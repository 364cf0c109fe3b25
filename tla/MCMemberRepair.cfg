CONSTANTS
  Endpoints <- MCEndpoints
  MaxId = 3
  Backup = TRUE
  STRANDED_MEMBER_GRACE = 1
  MASKED_MEMBER_RECHECK = 1
  MAX_STRANDED_REPAIRS = 1
  CONNECT_TIMEOUT = 1
  HANDSHAKE_TTL_SLACK = 1
  LINGER = 0
  Racing = TRUE
  Hangs = {FALSE}
  MaxAdds = 0
SPECIFICATION Spec
INVARIANTS
  TypeOK
  NoForgotten
PROPERTIES
  PeerKept
CHECK_DEADLOCK FALSE
