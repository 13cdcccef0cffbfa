CONSTANTS
  g1 = g1
  Goroutine = {g1}
  NoG = NoG
  gomaxprocs = 1
  MaxM = 2
  local_queue_size = 2
  global_queue_check_interval = 2
  SpinTries = 1
SPECIFICATION FairSpec
PROPERTY ShutdownEndsWorkers
CHECK_DEADLOCK FALSE
