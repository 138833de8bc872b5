SPECIFICATION FairSpec
CONSTANTS Gang = {b1, b2}
          Addr = {0, 1}
          Word = {0, 1}
          MaxEdges = 2
INVARIANTS OneEdgePerAccess LoadsSeeStores
PROPERTIES PayloadHeld StationsHazardFree ChainCompletes
