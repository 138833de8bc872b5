SPECIFICATION MCSpec
CONSTANTS N = 5
          MaxTokens = 5
          Size = 6
          K = 3
INVARIANTS EdgeSafe OneToken NeverDead
PROPERTIES HoldWindow ImplementsFifo Delivery HazardFree RingCirculates
CHECK_DEADLOCK FALSE
