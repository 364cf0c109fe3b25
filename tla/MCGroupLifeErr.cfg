SPECIFICATION Spec
CONSTANTS
  Bonds <- MCBonds
  MAX_GROUP_MEMBER_WEIGHT <- MCMaxWeight
  MaxAdds = 0
  Racing = {TRUE}
INVARIANTS OnlyRealErrDrops
CHECK_DEADLOCK FALSE
