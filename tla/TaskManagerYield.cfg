\* The timer may hit a kernel task inside CurrentTask::exit.
SPECIFICATION Spec
CONSTANTS
  Task = {idle, root, k1, k2, sh}
  Idle = idle
  Root = root
  Kernel1 = k1
  Kernel2 = k2
  Shell = sh
INVARIANT YieldAssertion
CHECK_DEADLOCK FALSE
