SPECIFICATION Spec
CONSTANTS Site = {1, 2}
          MaxNow = 2
          MaxLoads = 2
          Windows = 2
          Freqs = {2}
          Modulus = 7
INVARIANTS EdgesHonest
CHECK_DEADLOCK FALSE
