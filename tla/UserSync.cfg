\* Three threads, a mutex of each kind, a semaphore and a condition variable.
SPECIFICATION SyncSpec
CONSTANTS
  Idle = idle
  Root = root
  Kernel1 = k1
  Kernel2 = k2
  Shell = sh
  Task = {idle, root, k1, k2, sh, u1, u2}
  MutexBlocking = {mb}
  MutexSpin = {ms}
  Semaphore = {s1}
  Condvar = {cv}
  ResCount = {0, 1}
  MaxCount = 1
  SleepMs = {}
  Half = 8
  MaxTime = 0
  NoMutex = none
INVARIANTS SyncTypeOK WaitsOnce MutexSafe SemaphoreSafe
PROPERTIES NoBarging ImplementsTaskManager
CHECK_DEADLOCK FALSE
