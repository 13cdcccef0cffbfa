CONSTANTS
  Goroutine = {g1, g2, g3}
  g1 = g1
  g2 = g2
  g3 = g3
  NoG = NoG
  gomaxprocs = 2
  MaxM = 3
  local_queue_size = 2
  global_queue_check_interval = 2
  SpinTries = 1
SPECIFICATION Spec
SYMMETRY Symmetry
INVARIANTS TypeOK EachGoroutineOnce EachProcessorOnce WorkersHoldPs SpinCount NoStrandedWork
CHECK_DEADLOCK FALSE
