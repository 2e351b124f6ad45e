------------------------------- MODULE Layout -------------------------------
(***************************************************************************)
(* The blocks of a file: DiskInode of easy-fs/src/layout.rs, over the      *)
(* block cache.  A block of the data area is a function from offsets to    *)
(* words; a word is a datum, a block id or part of a directory entry.      *)
(* An operator that changes things returns [s, ...]: the cache and what    *)
(* else it computes.                                                       *)
(***************************************************************************)
EXTENDS BlockCache

CONSTANTS BLOCK_SZ,              \* words in a block; ids take one word
          INODE_DIRECT_COUNT     \* direct blocks of an inode (28)

INODE_INDIRECT1_COUNT == BLOCK_SZ
INODE_INDIRECT2_COUNT == INODE_INDIRECT1_COUNT * INODE_INDIRECT1_COUNT
INDIRECT1_BOUND       == INODE_DIRECT_COUNT + INODE_INDIRECT1_COUNT

ZeroBlock == [i \in 0 .. BLOCK_SZ - 1 |-> 0]

Least(a, b) == IF a < b THEN a ELSE b
Most(a, b)  == IF a < b THEN b ELSE a

\* The numbers a, ..., b - 1 of a loop.
Upto(a, b) == IF a \in Int /\ b \in Int THEN [i \in 1 .. b - a |-> a + i - 1] ELSE <<>>

initialize(type) ==
  [size |-> 0, direct |-> [i \in 0 .. INODE_DIRECT_COUNT - 1 |-> 0],
   indirect1 |-> 0, indirect2 |-> 0, type |-> type]

data_blocks(size) == (size + BLOCK_SZ - 1) \div BLOCK_SZ

total_blocks(size) ==
  LET n == data_blocks(size)
  IN  n + (IF n > INODE_DIRECT_COUNT THEN 1 ELSE 0)
        + (IF n > INDIRECT1_BOUND
           THEN 1 + (n - INDIRECT1_BOUND + INODE_INDIRECT1_COUNT - 1) \div INODE_INDIRECT1_COUNT
           ELSE 0)

\* Look into an indirect block.
Looked(g, b, i) == [s |-> g, id |-> IF g.status = "ok" THEN Read(g, b)[i] ELSE 0]
Entry(s, b, i, held) == Looked(get_block_cache(s, b, held), b, i)

\* From what indirect2 says of the indirect block to the i-th entry in there.
Below(mid, i, held) == Entry(mid.s, mid.id, i, held)

get_block_id(s, inode, i, held) ==
  LET last == i - INDIRECT1_BOUND
  IN  IF i < INODE_DIRECT_COUNT THEN [s |-> s, id |-> inode.direct[i]]
      ELSE IF i < INDIRECT1_BOUND THEN Entry(s, inode.indirect1, i - INODE_DIRECT_COUNT, held)
      ELSE Below(Entry(s, inode.indirect2, last \div INODE_INDIRECT1_COUNT, held),
                 last % INODE_INDIRECT1_COUNT, held)

----------------------------------------------------------------------------
(* Growing.  g = [s, inode, new]: `new` are the blocks not used yet; taking *)
(* one when none is left would be a failed unwrap.                         *)

Taken(g) == [g EXCEPT !.s = IF g.new = <<>> THEN panic(@, "unwrap") ELSE @,
                      !.new = IF @ = <<>> THEN @ ELSE Tail(@)]
Next1(g) == IF g.new = <<>> THEN 0 ELSE Head(g.new)

\* Write id into entry i of indirect block b.
PutEntry(s, b, i, id) == modify(s, b, [Read(s, b) EXCEPT ![i] = id])
SetEntry(s, b, i, id, held) == PutEntry(get_block_cache(s, b, held), b, i, id)

\* A closure that may change block b, before it does.
Marked(s, b) == modify(s, b, Read(s, b))
Mark(s, b, held) == Marked(get_block_cache(s, b, held), b)

FillDirect(g, i) == [Taken(g) EXCEPT !.inode.direct[i] = Next1(g)]

FillIndirect1(g, i, held) ==
  [Taken(g) EXCEPT !.s = SetEntry(@, g.inode.indirect1, i, Next1(g), held)]

\* i-th block below indirect2, which is held; its own indirect block comes
\* first when it is the first in there.
NewSub(g, a, held) ==
  [Taken(g) EXCEPT !.s = SetEntry(@, g.inode.indirect2, a, Next1(g), held)]

FillSub(g, mid, b, held) ==
  [Taken([g EXCEPT !.s = mid.s]) EXCEPT !.s = SetEntry(@, mid.id, b, Next1(g), held)]

InSub(g, a, b, held) == FillSub(g, Entry(g.s, g.inode.indirect2, a, held), b, held)

FillIndirect2(g, i, held) ==
  LET a == i \div INODE_INDIRECT1_COUNT
      b == i % INODE_INDIRECT1_COUNT
      h == held \union {g.inode.indirect2}
  IN  InSub(IF b = 0 THEN NewSub(g, a, h) ELSE g, a, b, h)

\* From cur blocks to total: the direct ones, those below indirect1, which is
\* taken when it is needed first, and those below indirect2.
GrowDirect(g, cur, total) ==
  FoldLeft(FillDirect, g, Upto(cur, Least(total, INODE_DIRECT_COUNT)))

NewIndirect1(g, cur) ==
  IF cur <= INODE_DIRECT_COUNT THEN [Taken(g) EXCEPT !.inode.indirect1 = Next1(g)] ELSE g

GrowIndirect1(g, cur, total, held) ==
  LET D == INODE_DIRECT_COUNT
  IN  FoldLeft(LAMBDA x, i : FillIndirect1(x, i, held),
               [g EXCEPT !.s = Mark(@, g.inode.indirect1, held)],
               Upto(Most(cur, D) - D, Least(total - D, INODE_INDIRECT1_COUNT)))

NewIndirect2(g, cur) ==
  IF cur <= INDIRECT1_BOUND THEN [Taken(g) EXCEPT !.inode.indirect2 = Next1(g)] ELSE g

GrowIndirect2(g, cur, total, held) ==
  FoldLeft(LAMBDA x, i : FillIndirect2(x, i, held),
           [g EXCEPT !.s = Mark(@, g.inode.indirect2, held)],
           Upto(Most(cur, INDIRECT1_BOUND) - INDIRECT1_BOUND, total - INDIRECT1_BOUND))

increase_size(s, inode, new_size, new_blocks, held) ==
  LET cur   == data_blocks(inode.size)
      total == data_blocks(new_size)
      g1 == GrowDirect([s |-> s, inode |-> [inode EXCEPT !.size = new_size],
                        new |-> new_blocks], cur, total)
      g2 == GrowIndirect1(NewIndirect1(g1, cur), cur, total, held)
  IN  IF total <= INODE_DIRECT_COUNT THEN g1
      ELSE IF total <= INDIRECT1_BOUND THEN g2
      ELSE GrowIndirect2(NewIndirect2(g2, cur), cur, total, held)

----------------------------------------------------------------------------
(* Shrinking to nothing.  Returns the inode and the blocks to be freed.    *)

\* The first n entries of indirect block b.
Listed(g, b, n) ==
  [s |-> g, ids |-> IF g.status # "ok" THEN <<>> ELSE [i \in 1 .. n |-> Read(g, b)[i - 1]]]
Entries(s, b, n, held) == Listed(Mark(s, b, held), b, n)

\* indirect2 with n data blocks below it: the full indirect blocks, then the
\* last one; top are the indirect blocks.
Freeing(g, b, e) == [s |-> e.s, ids |-> Append(g.ids, b) \o e.ids]

ClearSubs(top, in2, n, held) ==
  LET C == INODE_INDIRECT1_COUNT
  IN  FoldLeft(LAMBDA g, a : Freeing(g, top.ids[a],
                   Entries(g.s, top.ids[a], Least(C, n - (a - 1) * C), held \union {in2})),
               [s |-> top.s, ids |-> <<in2>>], Upto(1, Len(top.ids) + 1))

clear_indirect2(s, in2, n, held) ==
  ClearSubs(Entries(s, in2, (n + INODE_INDIRECT1_COUNT - 1) \div INODE_INDIRECT1_COUNT, held),
            in2, n, held)

clear_size(s, inode, held) ==
  LET n      == data_blocks(inode.size)
      D      == INODE_DIRECT_COUNT
      C      == INODE_INDIRECT1_COUNT
      direct == [i \in 1 .. Least(n, D) |-> inode.direct[i - 1]]
      small  == [inode EXCEPT !.size = 0,
                   !.direct = [i \in DOMAIN @ |-> IF i < n THEN 0 ELSE @[i]]]
      in1    == Entries(s, inode.indirect1, Least(n - D, C), held)
      ids1   == Append(direct, inode.indirect1) \o in1.ids
      in2    == clear_indirect2(in1.s, inode.indirect2, n - D - C, held)
  IN  IF n <= D THEN [s |-> s, inode |-> small, ids |-> direct]
      ELSE IF n <= D + C
      THEN [s |-> in1.s, inode |-> [small EXCEPT !.indirect1 = 0], ids |-> ids1]
      ELSE [s |-> IF n - D - C > INODE_INDIRECT2_COUNT THEN panic(in2.s, "assert") ELSE in2.s,
            inode |-> [small EXCEPT !.indirect1 = 0, !.indirect2 = 0], ids |-> ids1 \o in2.ids]

----------------------------------------------------------------------------
(* Reading and writing.                                                    *)

\* The blocks that the words start .. end - 1 are in, one after the other.
BlocksOf(start, end) == Upto(start \div BLOCK_SZ, (end - 1) \div BLOCK_SZ + 1)

\* One block of a read: its words lo .. hi - 1 of the file go to the buffer.
Copied(buf, c, b, lo, hi) ==
  [s |-> c, buf |-> IF c.status # "ok" THEN buf
                    ELSE buf \o [i \in 1 .. hi - lo |-> Read(c, b)[(lo + i - 1) % BLOCK_SZ]]]
ReadBlock(g, at, lo, hi, held) ==
  Copied(g.buf, get_block_cache(at.s, at.id, held), at.id, lo, hi)

read_at(s, inode, offset, len, held) ==
  LET end == Least(offset + len, inode.size)
  IN  IF offset >= end THEN [s |-> s, buf |-> <<>>]
      ELSE FoldLeft(LAMBDA g, j : ReadBlock(g, get_block_id(g.s, inode, j, held),
                        Most(offset, j * BLOCK_SZ), Least((j + 1) * BLOCK_SZ, end), held),
                    [s |-> s, buf |-> <<>>], BlocksOf(offset, end))

\* One block of a write, the one that starts at word base of the file.
WriteIn(s, b, base, buf, offset, end) ==
  modify(s, b, [i \in DOMAIN Read(s, b) |->
                  IF base + i >= offset /\ base + i < end
                  THEN buf[base + i - offset + 1] ELSE Read(s, b)[i]])
WriteBlock(at, base, buf, offset, end, held) ==
  WriteIn(get_block_cache(at.s, at.id, held), at.id, base, buf, offset, end)

\* The size has been raised before, and there is something to write.
write_at(s, inode, offset, buf, held) ==
  LET end == Least(offset + Len(buf), inode.size)
  IN  FoldLeft(LAMBDA g, j : WriteBlock(get_block_id(g, inode, j, held), j * BLOCK_SZ,
                                        buf, offset, end, held),
               s, BlocksOf(offset, end))
=============================================================================
