CONSTANTS
  a1 = a1
  a2 = a2
  a3 = a3
  Ctx = {a1, a2, a3}
  Bg = Bg
  Trees <- AllTrees
SPECIFICATION FairSpec
INVARIANTS TypeOK CancelReachesChildren CancelReleases
PROPERTIES CallsReturn LateChildIsCanceled
CHECK_DEADLOCK FALSE
