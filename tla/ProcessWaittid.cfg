\* A thread may exit with the code -2.
SPECIFICATION Spec
CONSTANTS
  Proc = {sh}
  Shell = sh
  RootProc = root
  MaxTid = 1
  Code <- TwoCodes
  Sent = {}
  Mask = {}
  Handled = {}
  ActMask = {}
  MaxLeaks = 0
  NoProc = none
  AnyPid = any
PROPERTY WaittidTellsExit
CHECK_DEADLOCK FALSE
