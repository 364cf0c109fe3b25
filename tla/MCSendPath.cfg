SPECIFICATION Spec
CONSTANTS
  MaxPackets = 3
  MaxStalls = 1
  Oversized <- MCOversized
  SEND_CHANNEL_CAPACITY = 1
  SendBuffer = 1
  STATE_POLL_INTERVAL = 2
INVARIANTS TypeOK
PROPERTIES IsFifo NothingStuck WaitEnds
CHECK_DEADLOCK FALSE
