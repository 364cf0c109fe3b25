SPECIFICATION Spec
CONSTANTS
  Bonds <- MCBonds
  MAX_GROUP_MEMBER_WEIGHT <- MCMaxWeight
  MaxAdds = 1
  Racing = {TRUE, FALSE}
INVARIANTS TypeOK NoGroupLeak HealthyGroupKeepsChannels
PROPERTIES DeadGroupUnblocks
CHECK_DEADLOCK FALSE
