SPECIFICATION MCSpec
CONSTANTS MaxRuns = 2
          MaxTrips = 2
          MaxPassed = 2
INVARIANTS OneServicePerAck CleanHandover BoundedOvertaking
PROPERTIES LoopHazardFree NoStarvation ImplementsLoop
CHECK_DEADLOCK FALSE
