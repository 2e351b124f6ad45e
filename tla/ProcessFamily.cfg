\* Three generations of processes of up to two threads, and exit_group.
SPECIFICATION Spec
CONSTANTS
  Proc = {sh, c1, c2}
  Shell = sh
  RootProc = root
  MaxTid = 1
  Code <- OneCode
  Sent = {}
  Mask = {}
  Handled = {}
  ActMask = {}
  MaxLeaks = 1
  NoProc = none
  AnyPid = any
SYMMETRY Forked
INVARIANTS TypeOK ReapedAlone UpgradeSucceeds FamilyTree
CHECK_DEADLOCK FALSE
