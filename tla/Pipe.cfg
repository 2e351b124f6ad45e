\* Two processes, one of two threads; a ring of two bytes, chunks of one.
SPECIFICATION FairSpec
CONSTANTS
  sh = sh
  c1 = c1
  Proc = {sh, c1}
  Thread <- Threads
  Owner <- Owners
  Shell = 1
  RING_BUFFER_SIZE = 2
  CHUNK_SIZE = 1
  Buffer <- Buffers
  Want = {1}
  MaxFd = 5
  NoCall = nocall
  NoThread = nothread
INVARIANTS TypeOK StatusTells LoopFits
PROPERTIES ImplementsChannel ReaderReturns
CHECK_DEADLOCK FALSE
