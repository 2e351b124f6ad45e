\* Three threads, a blocking mutex and sleeping; 15 ms from time 0 on is beyond
\* 2^63 ms, from time 1 on it wraps around.
SPECIFICATION SyncFairSpec
CONSTANTS
  Idle = idle
  Root = root
  Kernel1 = k1
  Kernel2 = k2
  Shell = sh
  Task = {idle, root, k1, k2, sh, u1, u2}
  MutexBlocking = {mb}
  MutexSpin = {}
  Semaphore = {}
  Condvar = {}
  ResCount = {}
  MaxCount = 0
  SleepMs = {1, 15}
  Half = 8
  MaxTime = 1
  NoMutex = none
PROPERTIES WaitersGetMutex SleepersWake
CHECK_DEADLOCK FALSE
