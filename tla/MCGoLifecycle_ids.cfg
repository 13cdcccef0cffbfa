CONSTANTS
  g1 = g1
  g2 = g2
  g3 = g3
  Goroutine = {g1, g2, g3}
  NoG = NoG
  main_g = main_g
  p1 = p1
  p2 = p2
  Processor = {p1, p2}
  Main = Main
  batch = 2
  MaxId = 6
SPECIFICATION Spec
SYMMETRY Symmetry
INVARIANTS TypeOK CachesDisjoint UniqueIds FreeMeansDead
CHECK_DEADLOCK FALSE
