SPECIFICATION AllSpec
CONSTANTS
  NaN = NaN
  MaxMembers = 4
  Slots = 2
  SignBit = 4096
  Millis = {0, 1, 20, 4095, 4096, 8192, 8212}
  PayloadSizes = {0, 188, 1456, 1500, 4096}
  MaxCalls = 3
  LibMaxBW = 0
INVARIANTS ConfigSurvivesMode DeadlineAboveLibsrt StreamIdMeaning AcceptsOnlyGood
PROPERTIES ListingIsRight
CHECK_DEADLOCK FALSE
