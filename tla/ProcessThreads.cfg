\* Two processes of up to three threads: exits, faults, kills and exit_group.
SPECIFICATION Spec
CONSTANTS
  Proc = {sh, c1}
  Shell = sh
  RootProc = root
  MaxTid = 2
  Code <- OneCode
  Sent = {9}
  Mask = {}
  Handled = {}
  ActMask = {}
  MaxLeaks = 0
  NoProc = none
  AnyPid = any
INVARIANTS MemoryOutlivesThreads StopReachesAll
PROPERTIES ExitCodeSettled
CHECK_DEADLOCK FALSE
