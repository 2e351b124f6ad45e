\* A disk of 24 blocks of two words: 16 data blocks, two data bitmap blocks.
SPECIFICATION Spec
CONSTANTS
  BLOCK_SZ = 2
  BLOCK_BITS = 8
  INODES_PER_BLOCK = 2
  INODE_DIRECT_COUNT = 1
  BLOCK_CACHE_SIZE = 3
  total_blocks_of_disk = 24
  Name = {1, 2}
  Handle = {h1}
  Flags <- SomeFlags
  Buffer <- Buffers
  Count = {5}
  MaxSize = 10
  Closed = closed
  Absent = absent
INVARIANTS BlocksAccounted CacheClean AssertionsHold
PROPERTIES ImplementsFileStore
CHECK_DEADLOCK FALSE
