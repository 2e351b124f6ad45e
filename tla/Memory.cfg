\* 64 pages through three levels of tables of four entries.
SPECIFICATION Spec
CONSTANTS
  ENTRY_COUNT = 4
  LEVELS = 3
  ekernel = 4
  MEMORY_END = 34
  USER_STACK_TOP = 64
  USER_STACK_SIZE = 1
  PHYS_VIRT_OFFSET = 0
  Offset = offset
  Proc = {sh, c1}
  First = sh
  None = none
  Programs <- TwoPrograms
  Sections <- KernelSections
  Page = {1, 3, 61}
  Value <- OneValue
  MaxTid = 1
  MaxExec = 1
INVARIANTS FramesAccounted TablesTell TlbCoherent KernelMapped AssertionsHold
 
CHECK_DEADLOCK FALSE
