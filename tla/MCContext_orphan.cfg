CONSTANTS
  a1 = a1
  a2 = a2
  a3 = a3
  Ctx = {a1, a2, a3}
  Bg = Bg
  Trees <- Pairs
SPECIFICATION FairSpec
PROPERTY ParentCancelReachesChild
CHECK_DEADLOCK FALSE
