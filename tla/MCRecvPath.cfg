SPECIFICATION Spec
CONSTANTS
  Kinds <- KindOfHandle
  Members <- MCMembers
  MaxPackets <- MCMaxPackets
  MaxJoins = 1
INVARIANTS TypeOK NoHole
PROPERTIES DueGetsRead RecvUnblocks OnlyOutageEndsRecv
CHECK_DEADLOCK FALSE
