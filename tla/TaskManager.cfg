CONSTANTS
  Task = {idle, root, k1, k2, sh, u1, u2}
  Idle = idle
  Root = root
  Kernel1 = k1
  Kernel2 = k2
  Shell = sh
SPECIFICATION FairSpec
INVARIANTS TypeOK OneRunning QueueIsReady IdleParked AssertionsHold
PROPERTIES ZombieIsFinal EveryReadyTaskRuns
CHECK_DEADLOCK FALSE
