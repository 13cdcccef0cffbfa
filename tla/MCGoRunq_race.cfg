CONSTANTS
  g1 = g1
  g2 = g2
  g3 = g3
  g4 = g4
  Goroutine = {g1, g2, g3, g4}
  NoG = NoG
  t1 = t1
  t2 = t2
  Thief = {t1, t2}
  local_queue_size = 3
  W = 6
  Start = 5
  MaxPuts = 4
SPECIFICATION Spec
SYMMETRY Symmetry
INVARIANTS TypeOK NothingLostOrDoubled NoDesync
PROPERTY OldestLeavesFirst
