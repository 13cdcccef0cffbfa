CONSTANTS
  g1 = g1
  g2 = g2
  g3 = g3
  Goroutine = {g1, g2, g3}
  NoG = NoG
  gomaxprocs = 1
  MaxM = 2
  local_queue_size = 2
  global_queue_check_interval = 3
  SpinTries = 1
SPECIFICATION FairSpec
PROPERTY GlobalQueueServed
CHECK_DEADLOCK FALSE
