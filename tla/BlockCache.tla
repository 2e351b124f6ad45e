----------------------------- MODULE BlockCache -----------------------------
(***************************************************************************)
(* The block cache: easy-fs/src/block_cache.rs, over a device that reads   *)
(* and writes whole blocks.                                                *)
(*                                                                         *)
(* The operators take and return the cache and the disk below it, so that  *)
(* a file system operation is a chain of them.  `held` are the blocks whose *)
(* entry somebody refers to besides the queue while the operator runs: the *)
(* closures of the file system nest.  `log` (history) records the writes   *)
(* of the operation in progress in the order in which the disk sees them.  *)
(***************************************************************************)
EXTENDS Loops

CONSTANT BLOCK_CACHE_SIZE   \* entries in the queue (16)

\* queue: block ids, oldest first; cache: what the entries hold; modified: the
\* dirty ones.  status: "ok", or which panic ended the operation.
NewCache(disk) ==
  [disk |-> disk, queue |-> <<>>, cache |-> <<>>, modified |-> {}, log |-> <<>>,
   status |-> "ok"]

panic(s, which) == IF s.status = "ok" THEN [s EXCEPT !.status = which] ELSE s

\* The device's write_block.
write_block(s, b) ==
  [s EXCEPT !.disk[b] = s.cache[b], !.log = Append(@, [block |-> b, data |-> s.cache[b]])]

\* Mutant: the entry is taken for clean and not written.
sync_Lost(s, b) == [s EXCEPT !.modified = @ \ {b}]

\* BlockCache::sync.
sync(s, b) ==
  IF b \in s.modified THEN write_block([s EXCEPT !.modified = @ \ {b}], b) ELSE s

Without(f, b) == [x \in DOMAIN f \ {b} |-> f[x]]

\* Dropping an entry writes it back.
drain(s, i) ==
  LET b == s.queue[i]
  IN  [sync(s, b) EXCEPT !.queue = remove(@, i), !.cache = Without(@, b)]

\* BlockCache::new: the block is read from the device.
load(s, b) ==
  [s EXCEPT !.queue = Append(@, b),
            !.cache = [x \in DOMAIN @ \union {b} |-> IF x = b THEN s.disk[b] ELSE @[x]]]

\* Mutant: only the oldest entry may go.
Unused_Oldest(s, held) == {i \in DOMAIN s.queue : i = 1 /\ s.queue[i] \notin held}

\* The entries that nobody but the queue refers to.
Unused(s, held) == {i \in DOMAIN s.queue : s.queue[i] \notin held}

get_block_cache(s, b, held) ==
  IF s.status # "ok" \/ b \in DOMAIN s.cache THEN s
  ELSE IF b \notin DOMAIN s.disk THEN panic(s, "device")
  ELSE IF Len(s.queue) < BLOCK_CACHE_SIZE THEN load(s, b)
  ELSE IF Unused(s, held) = {} THEN panic(s, "RunOut")
  ELSE load(drain(s, Min(Unused(s, held))), b)

\* What a closure reads of a block that it was just given.
Read(s, b) == s.cache[b]

\* get_mut marks the entry whether or not the closure changes anything.
modify(s, b, data) ==
  IF s.status = "ok" THEN [s EXCEPT !.cache[b] = data, !.modified = @ \union {b}] ELSE s

\* The entries in the order of the queue.
block_cache_sync_all(s) ==
  IF s.status = "ok" THEN FoldLeft(sync, s, s.queue) ELSE s
=============================================================================
