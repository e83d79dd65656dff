SPECIFICATION FairSpec
CONSTANTS
  Threads = {t1, t2}
  FrameTicks = 1
  MinIdrTicks = 2
  Late = 3
  MaxNumber = 2
  Depth = 1
  Outputs <- MCOutputs
  Records <- MCRecords
  Controls = {"Invalidate", "Reset"}
INVARIANTS SlotIsItsOwners KeyframesDecodable
PROPERTIES NoBurst RecoveryHeard
CHECK_DEADLOCK FALSE
