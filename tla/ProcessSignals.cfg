\* Two processes of one thread: masks, handlers, stopping and killing.
SPECIFICATION FairSpec
CONSTANTS
  Proc = {sh, c1}
  Shell = sh
  RootProc = root
  MaxTid = 0
  Code <- OneCode
  Sent = {9, 10, 19}
  Mask <- OpenMask
  Handled = {10}
  ActMask <- HandlerMasks
  MaxLeaks = 0
  NoProc = none
  AnyPid = any
INVARIANTS ContextKept
PROPERTIES KilledThreadEnds RootReaps
CHECK_DEADLOCK FALSE
