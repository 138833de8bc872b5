SPECIFICATION Spec
CONSTANTS KeyCount = 2
          MaxLength = 2
INVARIANTS EveryConstraint
CHECK_DEADLOCK FALSE
