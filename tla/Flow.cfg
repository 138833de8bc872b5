SPECIFICATION FlowSpec
CONSTANTS
  GuardFloor = 200
  SetupTime <- RamSetup
  ClockToOut = 2454
  HoldNeeded = 667
  LinkFallback = 274
  K = 6
  GuardLo = 772
  GuardHi = 1155
  Jobs <- SmallJobs
  MaxLinks = 64
  KeyCount = 2
  MaxLength = 2
INVARIANTS Covered Unskewed NoLooseCycle PadsSuffice LocalMinimum
PROPERTIES SearchEnds
CHECK_DEADLOCK FALSE
