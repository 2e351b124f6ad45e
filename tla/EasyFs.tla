------------------------------- MODULE EasyFs -------------------------------
(***************************************************************************)
(* The file system: bitmap.rs, efs.rs and vfs.rs of easy-fs, and the open  *)
(* files of os/src/fs/inode.rs on top.                                     *)
(*                                                                         *)
(* A call holds the lock of the file system and runs with interrupts off,  *)
(* so calls do not interleave; they meet in the files and in the cache.    *)
(* The machine may lose power at any block write of a call, or between two *)
(* calls; a panic is the former.  It then loses the cache and all open     *)
(* files.  What a file system that lost power in a call does next is not   *)
(* followed: the code promises nothing of it.                              *)
(***************************************************************************)
EXTENDS Layout, FiniteSets

CONSTANTS total_blocks_of_disk,  \* blocks of the device
          BLOCK_BITS,            \* bits in a bitmap block (4096)
          INODES_PER_BLOCK,      \* inodes in a block (4)
          Name, Handle, Flags, Buffer, Count, Closed, Absent,   \* as in FileStore
          MaxSize                \* bound on the size of a file

ASSUME FsAssumption ==
  /\ BLOCK_SZ \in Nat \ {0} /\ BLOCK_BITS \in Nat \ {0}
  /\ INODE_DIRECT_COUNT \in Nat \ {0} /\ INODES_PER_BLOCK \in Nat \ {0}
  /\ BLOCK_CACHE_SIZE \in Nat \ {0}
  /\ Name \subseteq Nat \ {0}
  /\ Count \subseteq Nat \ {0}
  /\ MaxSize \in Nat

VARIABLES fs,      \* the disk and the cache
          handle,  \* per handle: Closed or its OSInode
          ret,     \* what the last call returned
          up       \* the machine runs

vars == <<fs, handle, ret, up>>

\* A directory entry is a name and an inode number, one word each.
DIRENT_SZ == 2

\* The areas of the disk, as EasyFileSystem::create lays them out.
inode_bitmap_blocks == 1
inode_area_blocks   ==
  (inode_bitmap_blocks * BLOCK_BITS + INODES_PER_BLOCK - 1) \div INODES_PER_BLOCK
inode_total_blocks  == inode_bitmap_blocks + inode_area_blocks
data_total_blocks   == total_blocks_of_disk - 1 - inode_total_blocks
data_bitmap_blocks  == (data_total_blocks + BLOCK_BITS) \div (BLOCK_BITS + 1)

inode_area_start_block == 1 + inode_bitmap_blocks
data_bitmap_start      == 1 + inode_total_blocks
data_area_start_block  == 1 + inode_total_blocks + data_bitmap_blocks

Bitmaps == {1} \union (data_bitmap_start .. data_area_start_block - 1)
Inodes  == inode_area_start_block .. data_bitmap_start - 1

\* EasyFileSystem::create: all zeros, but for the inode of the root directory.
\* Nothing is written to the super block afterwards, and what it says is above.
NewDisk ==
  [b \in 0 .. total_blocks_of_disk - 1 |->
     IF b = 1 THEN {0}
     ELSE IF b \in Bitmaps THEN {}
     ELSE IF b \in Inodes
     THEN [i \in 0 .. INODES_PER_BLOCK - 1 |->
             initialize(IF b = inode_area_start_block /\ i = 0 THEN "Directory" ELSE "File")]
     ELSE ZeroBlock]

\* EasyFileSystem::open reads the super block.
open(disk) == get_block_cache(NewCache(disk), 0, {})

Init ==
  /\ fs = open(NewDisk)
  /\ handle = [h \in Handle |-> Closed]
  /\ ret = <<>>
  /\ up = TRUE

----------------------------------------------------------------------------
(* Bitmaps.  A bitmap block is the set of its bits that are set.           *)

None == -1

\* The first free bit of a bitmap block that was just marked.
FirstFree(c, b, j) ==
  LET free == (0 .. BLOCK_BITS - 1) \ Read(c, b)
  IN  IF c.status # "ok" \/ free = {} THEN [s |-> c, bit |-> None]
      ELSE [s   |-> modify(c, b, Read(c, b) \union {Min(free)}),
            bit |-> j * BLOCK_BITS + Min(free)]

\* The first block that has one.
bitmap_alloc(s, start, blocks, held) ==
  FoldLeft(LAMBDA g, j : IF g.bit # None THEN g
                         ELSE FirstFree(Mark(g.s, start + j, held), start + j, j),
           [s |-> s, bit |-> None], Upto(0, blocks))

ClearBit(c, b, bit) ==
  IF c.status = "ok" /\ bit \notin Read(c, b) THEN panic(c, "assert")
  ELSE modify(c, b, Read(c, b) \ {bit})

bitmap_dealloc(s, start, bit, held) ==
  LET b == start + bit \div BLOCK_BITS
  IN  ClearBit(Mark(s, b, held), b, bit % BLOCK_BITS)

\* The unwrap fails when nothing is free.
Unwrapped(g, base) ==
  [s |-> IF g.bit = None THEN panic(g.s, "full") ELSE g.s, id |-> base + g.bit]

alloc_inode(s, held) == Unwrapped(bitmap_alloc(s, 1, inode_bitmap_blocks, held), 0)
alloc_data(s, held)  ==
  Unwrapped(bitmap_alloc(s, data_bitmap_start, data_bitmap_blocks, held),
            data_area_start_block)

\* Mutant: the block keeps what it holds.
dealloc_data_Dirty(s, b, held) ==
  bitmap_dealloc(s, data_bitmap_start, b - data_area_start_block, held)

dealloc_data(s, b, held) ==
  bitmap_dealloc(modify(get_block_cache(s, b, held), b, ZeroBlock), data_bitmap_start,
                 b - data_area_start_block, held)

----------------------------------------------------------------------------
(* Inodes.                                                                 *)

InodeBlock(id) == inode_area_start_block + id \div INODES_PER_BLOCK
InodeSlot(id)  == id % INODES_PER_BLOCK

\* read_disk_inode, as far as the closure's argument; the closure's own calls
\* run with the inode's block held.
Loaded(c, id) ==
  [s |-> c, inode |-> Read(c, InodeBlock(id))[InodeSlot(id)], held |-> {InodeBlock(id)}]
DiskInode(s, id) == Loaded(get_block_cache(s, InodeBlock(id), {}), id)

\* modify_disk_inode, when the closure is through.
SetInode(s, id, inode) ==
  PutEntry(get_block_cache(s, InodeBlock(id), {}), InodeBlock(id), InodeSlot(id), inode)

\* Inode::increase_size: the blocks are allocated first.
WithBlock(g, a) == [s |-> a.s, ids |-> Append(g.ids, a.id)]

Enlarged(new, inode, new_size, held) ==
  IF new.s.status # "ok" THEN [s |-> new.s, inode |-> inode]
  ELSE increase_size(new.s, inode, new_size, new.ids, held)

grow(s, inode, new_size, held) ==
  IF new_size < inode.size \/ s.status # "ok" THEN [s |-> s, inode |-> inode]
  ELSE Enlarged(FoldLeft(LAMBDA g, i : WithBlock(g, alloc_data(g.s, held)),
                         [s |-> s, ids |-> <<>>],
                         Upto(0, total_blocks(new_size) - total_blocks(inode.size))),
                inode, new_size, held)

\* One entry e of the directory, as find_inode_id looks at it.
Matched(e, name) ==
  [s  |-> IF Len(e.buf) # DIRENT_SZ THEN panic(e.s, "assert") ELSE e.s,
   id |-> IF e.buf[1] = name THEN e.buf[2] ELSE None]

find_inode_id(s, inode, name, held) ==
  FoldLeft(LAMBDA g, i : IF g.id # None \/ g.s.status # "ok" THEN g
                         ELSE Matched(read_at(g.s, inode, DIRENT_SZ * i, DIRENT_SZ, held), name),
           [s |-> s, id |-> None], Upto(0, inode.size \div DIRENT_SZ))

\* Inode 0 is the root directory.
FindIn(root, name) == find_inode_id(root.s, root.inode, name, root.held)
find(s, name) == FindIn(DiskInode(s, 0), name)

\* Inode::create, for a name that is not there: the new inode, then the entry
\* in the directory, which has n of them before and is big afterwards.
NewInode(new) ==
  [new EXCEPT !.s = IF @.status # "ok" THEN @
                    ELSE SetInode(DiskInode(@, new.id).s, new.id, initialize("File"))]

SetEntryOf(big, n, name, id, held) ==
  IF big.s.status # "ok" THEN [s |-> big.s, id |-> None]
  ELSE [s  |-> block_cache_sync_all(SetInode(
                 write_at(big.s, big.inode, n * DIRENT_SZ, <<name, id>>, held), 0, big.inode)),
        id |-> id]

AddEntry(root, name, id) ==
  LET n == root.inode.size \div DIRENT_SZ
  IN  SetEntryOf(grow(root.s, root.inode, (n + 1) * DIRENT_SZ, root.held), n, name, id, root.held)

Linked(new, name) ==
  IF new.s.status # "ok" THEN [s |-> new.s, id |-> None]
  ELSE AddEntry(DiskInode(new.s, 0), name, new.id)

create(s, name) == Linked(NewInode(alloc_inode(s, {})), name)

WithName(g, e) == [s |-> e.s, names |-> Append(g.names, e.buf[1])]
NamesIn(root) ==
  FoldLeft(LAMBDA g, i : WithName(g, read_at(g.s, root.inode, DIRENT_SZ * i, DIRENT_SZ, root.held)),
           [s |-> root.s, names |-> <<>>], Upto(0, root.inode.size \div DIRENT_SZ))
ls(s) == NamesIn(DiskInode(s, 0))

ReadInode(d, offset, n) == read_at(d.s, d.inode, offset, n, d.held)
inode_read_at(s, id, offset, n) == ReadInode(DiskInode(s, id), offset, n)

\* Inode::write_at as far as the closure goes.
PutIn(big, id, offset, buf, held) ==
  IF big.s.status # "ok" THEN big.s
  ELSE SetInode(write_at(big.s, big.inode, offset, buf, held), id, big.inode)
WriteInode(d, id, offset, buf) ==
  PutIn(grow(d.s, d.inode, offset + Len(buf), d.held), id, offset, buf, d.held)

\* Mutant: the cache is not written back.
inode_write_at_NoSync(s, id, offset, buf) == WriteInode(DiskInode(s, id), id, offset, buf)

inode_write_at(s, id, offset, buf) ==
  block_cache_sync_all(WriteInode(DiskInode(s, id), id, offset, buf))

\* Inode::clear, with the inode d and c, what clear_size made of it.
Freed(d, c, id) ==
  IF Len(c.ids) # total_blocks(d.inode.size) THEN panic(c.s, "assert")
  ELSE SetInode(FoldLeft(LAMBDA st, i : IF st.status = "ok" THEN dealloc_data(st, c.ids[i], d.held)
                                        ELSE st,
                         c.s, Upto(1, Len(c.ids) + 1)), id, c.inode)
ClearIn(d, id) == Freed(d, clear_size(d.s, d.inode, d.held), id)
clear(s, id) == block_cache_sync_all(ClearIn(DiskInode(s, id), id))

----------------------------------------------------------------------------
(* Calls.                                                                  *)

\* OpenFlags::read_write: may the file be read, may it be written.
read_write(flags) == <<"WRONLY" \notin flags, flags # {}>>

\* name (history): what the file was opened by.
OSInode(name, flags, id) ==
  [name |-> name, inode |-> id, offset |-> 0,
   readable |-> read_write(flags)[1], writable |-> read_write(flags)[2]]

\* The result of open_file: the inode, or None.
Found(f, name, flags) ==
  IF f.s.status # "ok" THEN f
  ELSE IF f.id = None THEN (IF "CREATE" \in flags THEN create(f.s, name) ELSE f)
  ELSE IF flags \intersect {"CREATE", "TRUNC"} = {} THEN f
  ELSE [f EXCEPT !.s = clear(@, f.id)]
open_file(s, name, flags) == Found(find(s, name), name, flags)

\* The writes of a call that reached the disk before the machine stopped.
Disk(log, k) ==
  FoldLeft(LAMBDA d, w : [d EXCEPT ![w.block] = w.data], fs.disk, SubSeq(log, 1, k))

\* A call ends in cache state s, with its result and handles; or it panics, or
\* the power fails when some of its writes are done.
Outcome(s, hs, out) ==
  \/ /\ s.status = "ok"
     /\ fs' = [s EXCEPT !.log = <<>>]
     /\ handle' = hs /\ ret' = out /\ UNCHANGED up
  \/ /\ \/ s.status # "ok" /\ fs' = [NewCache(s.disk) EXCEPT !.status = s.status]
        \/ \E k \in DOMAIN s.log : fs' = NewCache(Disk(s.log, k))
     /\ handle' = [h \in Handle |-> Closed] /\ ret' = <<>>
     /\ up' = FALSE

OpenEnds(h, name, flags, o) ==
  IF o.s.status = "ok" /\ o.id = None THEN Outcome(o.s, handle, <<>>)
  ELSE Outcome(o.s, [handle EXCEPT ![h] = OSInode(name, flags, o.id)], <<1>>)

sys_open(h, name, flags) ==
  /\ up /\ handle[h] = Closed
  /\ OpenEnds(h, name, flags, open_file(fs, name, flags))

sys_close(h) ==
  /\ up /\ handle[h] # Closed
  /\ handle' = [handle EXCEPT ![h] = Closed]
  /\ ret' = <<>>
  /\ UNCHANGED <<fs, up>>

ReadEnds(h, r) == Outcome(r.s, [handle EXCEPT ![h].offset = @ + Len(r.buf)], r.buf)

sys_read(h, n) ==
  /\ up /\ handle[h] # Closed /\ handle[h].readable
  /\ ReadEnds(h, inode_read_at(fs, handle[h].inode, handle[h].offset, n))

\* A write of at most CHUNK_SIZE bytes; a longer one is several of these.
sys_write(h, buf) ==
  /\ up /\ handle[h] # Closed /\ handle[h].writable
  /\ handle[h].offset + Len(buf) <= MaxSize
  /\ Outcome(inode_write_at(fs, handle[h].inode, handle[h].offset, buf),
             [handle EXCEPT ![h].offset = @ + Len(buf)], <<Len(buf)>>)

\* OSInode::read_all, a block at a time, as sys_exec uses it.
WithPart(g, r) == [s |-> r.s, buf |-> g.buf \o r.buf]
read_all(s, id) ==
  FoldLeft(LAMBDA g, j : WithPart(g, inode_read_at(g.s, id, Len(g.buf), BLOCK_SZ)),
           [s |-> s, buf |-> <<>>],
           Upto(0, data_blocks(DiskInode(s, id).inode.size) + 1))

ExecReads(r) == Outcome(r.s, handle, r.buf)
ExecOpened(f) == IF f.id = None THEN Outcome(f.s, handle, <<>>) ELSE ExecReads(read_all(f.s, f.id))

sys_exec(name) == up /\ ExecOpened(open_file(fs, name, {}))

\* The power fails between two calls, or the machine is turned off; it lists
\* its files when it starts.
Restarted(r) ==
  /\ fs' = r.s
  /\ handle' = [h \in Handle |-> Closed]
  /\ ret' = r.names
  /\ UNCHANGED up

restart == up /\ Restarted(ls(open(fs.disk)))

Next ==
  \/ \E h \in Handle :
       \/ \E name \in Name, flags \in Flags : sys_open(h, name, flags)
       \/ sys_close(h)
       \/ \E n \in Count : sys_read(h, n)
       \/ \E buf \in Buffer : sys_write(h, buf)
  \/ \E name \in Name : sys_exec(name)
  \/ restart

Spec == Init /\ [][Next]_vars

----------------------------------------------------------------------------
(* Properties.                                                             *)

\* What is on disk d, cache or no cache.  The blocks of a file in order, its
\* data blocks and those that lead to them; the words of a file; the entries of
\* the root directory.
OnDisk(d, id) == d[InodeBlock(id)][InodeSlot(id)]

DataBlock(d, inode, i) ==
  LET C == INODE_INDIRECT1_COUNT
      j == i - INDIRECT1_BOUND
  IN  IF i < INODE_DIRECT_COUNT THEN inode.direct[i]
      ELSE IF i < INDIRECT1_BOUND THEN d[inode.indirect1][i - INODE_DIRECT_COUNT]
      ELSE d[d[inode.indirect2][j \div C]][j % C]

BlocksIn(d, inode) ==
  LET n    == data_blocks(inode.size)
      subs == IF n <= INDIRECT1_BOUND THEN 0 ELSE data_blocks(n - INDIRECT1_BOUND)
  IN  [i \in 1 .. n |-> DataBlock(d, inode, i - 1)]
      \o (IF n > INODE_DIRECT_COUNT THEN <<inode.indirect1>> ELSE <<>>)
      \o (IF n > INDIRECT1_BOUND THEN <<inode.indirect2>> ELSE <<>>)
      \o [a \in 1 .. subs |-> d[inode.indirect2][a - 1]]

Words(d, inode) ==
  [i \in 1 .. inode.size |->
     d[DataBlock(d, inode, (i - 1) \div BLOCK_SZ)][(i - 1) % BLOCK_SZ]]

Dirents(d) ==
  LET w == Words(d, OnDisk(d, 0))
  IN  {[name |-> w[DIRENT_SZ * i + 1], id |-> w[DIRENT_SZ * i + 2]] :
         i \in 0 .. Len(w) \div DIRENT_SZ - 1}

Used(d) == {0} \union {e.id : e \in Dirents(d)}

\* What a machine started from this disk finds under name n.
File(d, n) ==
  LET ents == {e \in Dirents(d) : e.name = n}
  IN  IF ents = {} THEN Absent ELSE Words(d, OnDisk(d, (CHOOSE e \in ents : TRUE).id))

Opened(h) ==
  IF handle[h] = Closed THEN Closed
  ELSE [name |-> handle[h].name, offset |-> handle[h].offset,
        readable |-> handle[h].readable, writable |-> handle[h].writable]

Store == INSTANCE FileStore WITH
           files  <- [n \in Name |-> File(fs.disk, n)],
           handle <- [h \in Handle |-> Opened(h)]

\* Through bitmaps, indirect blocks, the directory and the cache, the calls
\* read and write sequences of words; what a call has done is on the disk when
\* it returns; and a call cut short by a power failure at any of its block
\* writes leaves all other files as they were.
ImplementsFileStore == Store!Spec

\* The blocks that the inodes on disk d lead to, all in one sequence.
Reached(d) ==
  FoldSet(LAMBDA id, seq : seq \o BlocksIn(d, OnDisk(d, id)), <<>>, Used(d))

Allocated(d, start, blocks) ==
  UNION {{j * BLOCK_BITS + bit : bit \in d[start + j]} : j \in 0 .. blocks - 1}

\* Between two calls the data bitmap tells exactly the blocks that some inode
\* leads to, no block belongs to two files or twice to one, a free block is
\* all zeros, and every inode in the bitmap but the root's has one entry.
BlocksAccounted ==
  up =>
    LET d    == fs.disk
        r    == Reached(d)
        used == {b + data_area_start_block :
                   b \in Allocated(d, data_bitmap_start, data_bitmap_blocks)}
    IN  /\ {r[i] : i \in DOMAIN r} = used
        /\ Cardinality(used) = Len(r)
        /\ \A b \in data_area_start_block .. total_blocks_of_disk - 1 :
              b \notin used => d[b] = ZeroBlock
        /\ Allocated(d, 1, inode_bitmap_blocks) = Used(d)
        /\ OnDisk(d, 0).size = DIRENT_SZ * Cardinality(Used(d) \ {0})

\* Between two calls the cache agrees with the disk and owes it nothing.
CacheClean ==
  /\ fs.modified = {} /\ Len(fs.queue) <= BLOCK_CACHE_SIZE
  /\ \A b \in DOMAIN fs.cache : fs.cache[b] = fs.disk[b]
  /\ {fs.queue[i] : i \in DOMAIN fs.queue} = DOMAIN fs.cache

\* The assertions, and the unwraps that do not stand for a full disk, hold:
\* a call never needs more cache entries at once than there are, and the
\* numbers of blocks that are counted and moved agree.
AssertionsHold == fs.status \in {"ok", "full"}
=============================================================================
