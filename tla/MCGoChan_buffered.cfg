CONSTANTS
  g1 = g1
  g2 = g2
  g3 = g3
  Goroutine = {g1, g2, g3}
  main_g = g1
  NoG = NoG
  Zero = Zero
  dataqsiz = 2
  MaxCalls = 2
SPECIFICATION FairSpec
INVARIANTS TypeOK RingConsistent NobodyWaitsInVain NoDroppedWakeup
PROPERTIES ImplementsFifo WaitersAreReadied
CHECK_DEADLOCK FALSE
