\* The main thread exits before the thread it created.
SPECIFICATION Spec
CONSTANTS
  Proc = {sh}
  Shell = sh
  RootProc = root
  MaxTid = 1
  Code = {0, 1}
  Sent = {}
  Mask = {}
  Handled = {}
  ActMask = {}
  MaxLeaks = 0
  NoProc = none
  AnyPid = any
INVARIANT MainThreadEndsAll
CHECK_DEADLOCK FALSE
