SPECIFICATION Spec
CONSTANTS NodeCount = 3
          EdgeCount = 4
INVARIANTS EveryRingLive ReportsExact
CHECK_DEADLOCK FALSE
