SPECIFICATION FairSpec
CONSTANTS MaxFuse = 2
          SelectPad = 1
          LiteralRegions = FALSE
INVARIANTS WidthsSettled RefusedForCause NetlistSound CellsCompute StorageSound
PROPERTIES Answers
CHECK_DEADLOCK FALSE
