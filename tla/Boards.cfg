SPECIFICATION MCSpec
CONSTANTS Site = {s1, s2}
          s1 = s1
          s2 = s2
          MaxNow = 1
          MaxLoads = 2
          Windows = 3
          Freqs = {2}
          Modulus = 8
          Group = {0, 1}
          Slots = 2
          Deaths <- LastRing
          Repeats = 1
          Capacity = 2
          MaxWindow = 2
          MaxBuilds = 2
INVARIANTS MtbfHonest RateExact GcdHonest CountsTrue
SYMMETRY Alike
CHECK_DEADLOCK FALSE
