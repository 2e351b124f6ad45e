---------------------------- MODULE EasyFsProofs ----------------------------
(***************************************************************************)
(* Theorems about the block cache as the file system uses it: between two  *)
(* calls it agrees with the disk, and no call runs out of its entries.     *)
(***************************************************************************)
EXTENDS EasyFs, WellFoundedInduction, TLAPS

\* No call runs out of cache entries, which the code answers with a panic.
CacheSuffices == fs.status # "RunOut"

\* The queue q holds the blocks B of the cache, each of them once.
Queued(q, B) ==
  /\ q \in Seq(B) /\ Len(q) <= BLOCK_CACHE_SIZE
  /\ \A i, j \in DOMAIN q : q[i] = q[j] => i = j
  /\ \A b \in B : \E i \in DOMAIN q : q[i] = b

\* What is not marked is on the disk.
Backed(cache, disk, modified) ==
  /\ DOMAIN cache \subseteq DOMAIN disk
  /\ modified \subseteq DOMAIN cache
  /\ \A b \in DOMAIN cache \ modified : cache[b] = disk[b]

Fields == {"disk", "queue", "cache", "modified", "log", "status"}

\* What every operator keeps.
Coherent(s) ==
  /\ DOMAIN s = Fields
  /\ Queued(s.queue, DOMAIN s.cache)
  /\ Backed(s.cache, s.disk, s.modified)
  /\ BLOCK_CACHE_SIZE >= 3 => s.status # "RunOut"

\* Nothing is marked either: what a call that only reads keeps.
Clean(s) == Coherent(s) /\ s.modified = {}

\* The inductive invariant.
IInv == Clean(fs)

\* At most two entries are referred to at a time.
Few(held) == \E x, y : held \subseteq {x, y}
One(held) == \E x : held \subseteq {x}

----------------------------------------------------------------------------
(* Induction over the rounds of a loop.                                    *)

\* A non-empty set of naturals has a least element.
LEMMA LeastElement ==
  ASSUME NEW T, T \subseteq Nat, T # {}
  PROVE  \E x \in T : \A y \in T : ~(y < x)
<1>1. \E x \in T : \A y \in T : ~ (<<y, x>> \in OpToRel(<, Nat))
  BY NatLessThanWellFounded, WFMin, Zenon
<1>2. QED BY <1>1, Zenon DEF OpToRel

\* A set that holds 0 and the successors of its elements holds every natural.
LEMMA SetInduction ==
  ASSUME NEW S, 0 \in S, \A n \in Nat : n \in S => n + 1 \in S
  PROVE  Nat \subseteq S
<1>1. SUFFICES ASSUME Nat \ S # {} PROVE FALSE BY Zenon
<1>2. PICK x \in Nat \ S : \A y \in Nat \ S : ~(y < x) BY <1>1, LeastElement, Zenon
<1>3. x # 0 BY <1>2, Zenon
<1>4. x - 1 \in Nat /\ x - 1 < x BY <1>2, <1>3
<1>5. x - 1 \in S BY <1>2, <1>4, Zenon
<1>6. (x - 1) + 1 \in S BY <1>4, <1>5, Zenon
<1>7. QED BY <1>2, <1>6

\* A set of numbers up to n that holds n has the maximum n.
LEMMA MaxOf ==
  ASSUME NEW n \in Nat, NEW s \in SUBSET (1 .. n), n \in s
  PROVE  Max(s) = n
<1>1. \A x \in s : x \in Int /\ n >= x OBVIOUS
<1>2. \E x \in s : \A y \in s : x >= y BY <1>1, Zenon
<1>3. Max(s) \in s /\ \A y \in s : Max(s) >= y BY <1>2, Zenon DEF Max
<1>4. Max(s) \in Int /\ Max(s) >= n /\ n >= Max(s) BY <1>1, <1>3, Zenon
<1>5. QED BY <1>4

\* One round of a loop: c names the loop and what it is about, x is what the
\* rounds before have made, i the number of this round.
Round(c, x, i) ==
  CASE c[1] = "sync"      -> sync(x, i)
    [] c[1] = "direct"    -> FillDirect(x, i)
    [] c[1] = "indirect1" -> FillIndirect1(x, i, c[2])
    [] c[1] = "indirect2" -> FillIndirect2(x, i, c[2])
    [] c[1] = "subs"      ->
         Freeing(x, c[2].ids[i],
                 Entries(x.s, c[2].ids[i],
                         Least(INODE_INDIRECT1_COUNT, c[4] - (i - 1) * INODE_INDIRECT1_COUNT),
                         c[5] \union {c[3]}))
    [] c[1] = "read"      ->
         ReadBlock(x, get_block_id(x.s, c[2], i, c[5]),
                   Most(c[3], i * BLOCK_SZ), Least((i + 1) * BLOCK_SZ, c[4]), c[5])
    [] c[1] = "write"     ->
         WriteBlock(get_block_id(x, c[2], i, c[6]), i * BLOCK_SZ, c[3], c[4], c[5], c[6])
    [] c[1] = "bitmap"    ->
         IF x.bit # None THEN x ELSE FirstFree(Mark(x.s, c[2] + i, c[3]), c[2] + i, i)
    [] c[1] = "grow"      -> WithBlock(x, alloc_data(x.s, c[2]))
    [] c[1] = "find"      ->
         IF x.id # None \/ x.s.status # "ok" THEN x
         ELSE Matched(read_at(x.s, c[2], DIRENT_SZ * i, DIRENT_SZ, c[4]), c[3])
    [] c[1] = "names"     ->
         WithName(x, read_at(x.s, c[2].inode, DIRENT_SZ * i, DIRENT_SZ, c[2].held))
    [] c[1] = "free"      ->
         IF x.status = "ok" THEN dealloc_data(x, c[2].ids[i], c[3].held) ELSE x
    [] c[1] = "all"       -> WithPart(x, inode_read_at(x.s, c[2], Len(x.buf), BLOCK_SZ))

\* A file that grows.
Grown(g) == {"s", "inode", "new"} \subseteq DOMAIN g /\ Coherent(g.s)

\* The cache s after the first n entries of its queue are written back.
Synced(s, n, x) ==
  /\ Coherent(x) /\ x.queue = s.queue /\ x.status = s.status
  /\ \A k \in 1 .. n : s.queue[k] \notin x.modified

\* What a search has found, and a clean cache.
Answer(x) == "s" \in DOMAIN x /\ Clean(x.s)

\* What holds after n rounds of loop c.
Holds(c, n, x) ==
  CASE c[1] = "sync"                               -> Synced(c[2], n, x)
    [] c[1] \in {"direct", "indirect1", "indirect2"} -> Grown(x)
    [] c[1] \in {"subs", "bitmap", "grow"}         -> Coherent(x.s)
    [] c[1] = "find"                               -> Answer(x)
    [] c[1] \in {"read", "names", "all"}           -> Clean(x.s)
    [] c[1] \in {"write", "free"}                  -> Coherent(x)

\* The function that a loop over seq computes, on the numbers of the rounds.
IsLoop(c, base, seq, f) ==
  f = [s \in SUBSET DOMAIN seq |->
         IF s = {} THEN base ELSE Round(c, f[s \ {Max(s)}], seq[Max(s)])]

\* There is such a function.
LEMMA LoopExists ==
  ASSUME NEW c, NEW base, NEW seq, NEW N \in Nat, DOMAIN seq = 1 .. N
  PROVE  \E f : IsLoop(c, base, seq, f)
<1> DEFINE Fun(T, f) == f = [s \in SUBSET T |-> IF s = {} THEN base ELSE Round(c, f[s \ {Max(s)}], seq[Max(s)])]
           E == {n \in Nat : \E f : Fun(1 .. n, f)}
<1>1. 0 \in E
  <2>1. 1 .. 0 = {} /\ SUBSET (1 .. 0) = {{}} OBVIOUS
  <2>2. Fun(1 .. 0, [s \in {{}} |-> base]) BY <2>1, Zenon
  <2>3. QED BY <2>2, Zenon
<1>2. ASSUME NEW n \in Nat, n \in E PROVE n + 1 \in E
  <2>1. PICK f : Fun(1 .. n, f) BY <1>2, Zenon
  <2> DEFINE g == [s \in SUBSET (1 .. n + 1) |->
                     IF n + 1 \in s THEN Round(c, f[s \ {n + 1}], seq[n + 1]) ELSE f[s]]
  <2>2. ASSUME NEW s \in SUBSET (1 .. n + 1)
        PROVE  g[s] = IF s = {} THEN base ELSE Round(c, g[s \ {Max(s)}], seq[Max(s)])
    <3>1. CASE n + 1 \in s
      <4>1. Max(s) = n + 1 BY <3>1, MaxOf
      <4>2. s \ {n + 1} \in SUBSET (1 .. n + 1) /\ n + 1 \notin s \ {n + 1} BY Zenon
      <4>3. g[s \ {n + 1}] = f[s \ {n + 1}] BY <4>2, Zenon
      <4>4. QED BY <3>1, <4>1, <4>3, Zenon
    <3>2. CASE n + 1 \notin s
      <4>1. s \in SUBSET (1 .. n) BY <3>2
      <4>2. g[s] = f[s] BY <3>2, Zenon
      <4>3. CASE s = {} BY <4>1, <4>2, <4>3, <2>1, Zenon
      <4>4. CASE s # {}
        <5>1. f[s] = Round(c, f[s \ {Max(s)}], seq[Max(s)]) BY <2>1, <4>1, <4>4, Zenon
        <5>2. s \ {Max(s)} \in SUBSET (1 .. n + 1) /\ n + 1 \notin s \ {Max(s)} BY <3>2, Zenon
        <5>3. g[s \ {Max(s)}] = f[s \ {Max(s)}] BY <5>2, Zenon
        <5>4. QED BY <4>2, <4>4, <5>1, <5>3, Zenon
      <4>5. QED BY <4>3, <4>4, Zenon
    <3>3. QED BY <3>1, <3>2, Zenon
  <2>3. Fun(1 .. n + 1, g)
    <3>1. g = [s \in SUBSET (1 .. n + 1) |-> g[s]] BY Zenon
    <3> HIDE DEF g
    <3>2. QED BY <2>2, <3>1, Zenon
  <2>4. \E h : Fun(1 .. n + 1, h)
    <3> HIDE DEF g
    <3>1. QED BY <2>3, Zenon
  <2>5. n + 1 \in Nat OBVIOUS
  <2> HIDE DEF Fun
  <2>6. QED BY <2>4, <2>5, Zenon
<1>3. N \in E
  <2> HIDE DEF E
  <2>1. \A n \in Nat : n \in E => n + 1 \in E BY <1>2, Zenon
  <2>2. Nat \subseteq E BY <1>1, <2>1, SetInduction, Zenon
  <2>3. QED BY <2>2, Zenon
<1>4. QED BY <1>3, Zenon DEF IsLoop

\* What holds before a loop and is kept by each of its rounds holds after it.
LEMMA LoopKeeps ==
  ASSUME NEW c, NEW base, NEW seq, NEW N \in Nat, DOMAIN seq = 1 .. N,
         NEW f, IsLoop(c, base, seq, f), Holds(c, 0, base),
         \A x : \A k \in Nat : k + 1 <= N /\ Holds(c, k, x) => Holds(c, k + 1, Round(c, x, seq[k + 1]))
  PROVE  Holds(c, N, f[DOMAIN seq])
<1> DEFINE K == {n \in Nat : n <= N => Holds(c, n, f[1 .. n])}
<1>0. f = [s \in SUBSET (1 .. N) |->
             IF s = {} THEN base ELSE Round(c, f[s \ {Max(s)}], seq[Max(s)])]
  BY Zenon DEF IsLoop
<1>1. 0 \in K
  <2>1. 1 .. 0 = {} OBVIOUS
  <2>2. {} \in SUBSET (1 .. N) BY Zenon
  <2>3. f[{}] = base BY <1>0, <2>2, Zenon
  <2>4. QED BY <2>1, <2>3, Zenon
<1>2. ASSUME NEW n \in Nat, n \in K PROVE n + 1 \in K
  <2>1. SUFFICES ASSUME n + 1 <= N PROVE Holds(c, n + 1, f[1 .. n + 1]) OBVIOUS
  <2>2. Holds(c, n, f[1 .. n]) BY <1>2, <2>1
  <2>3. Max(1 .. n + 1) = n + 1 BY MaxOf
  <2>4. (1 .. n + 1) \ {n + 1} = 1 .. n OBVIOUS
  <2>5. 1 .. n + 1 \in SUBSET (1 .. N) /\ 1 .. n + 1 # {}
    <3>1. 1 \in 1 .. n + 1 OBVIOUS
    <3>2. \A i \in 1 .. n + 1 : i \in 1 .. N BY <2>1
    <3>3. QED BY <3>1, <3>2, Zenon
  <2>6. f[1 .. n + 1] = Round(c, f[1 .. n], seq[n + 1]) BY <1>0, <2>3, <2>4, <2>5, Zenon
  <2>7. QED BY <2>2, <2>6, <2>1, Zenon
<1>3. N \in K
  <2> HIDE DEF K
  <2>1. \A n \in Nat : n \in K => n + 1 \in K BY <1>2, Zenon
  <2>2. Nat \subseteq K BY <1>1, <2>1, SetInduction, Zenon
  <2>3. QED BY <2>2, Zenon
<1>4. QED BY <1>3

----------------------------------------------------------------------------
(* The block cache.                                                        *)

\* A panic leaves the cache as it is.
LEMMA PanicFields ==
  ASSUME NEW s, NEW w, DOMAIN s = Fields
  PROVE  /\ DOMAIN panic(s, w) = Fields
         /\ panic(s, w).queue = s.queue /\ panic(s, w).cache = s.cache
         /\ panic(s, w).disk = s.disk /\ panic(s, w).modified = s.modified
         /\ panic(s, w).status = IF s.status = "ok" THEN w ELSE s.status
BY Zenon DEF panic, Fields

\* sync writes the block of a marked entry.
LEMMA SyncFields ==
  ASSUME NEW s, NEW b, DOMAIN s = Fields
  PROVE  /\ DOMAIN sync(s, b) = Fields
         /\ sync(s, b).queue = s.queue /\ sync(s, b).cache = s.cache
         /\ b \in s.modified => sync(s, b).disk = [s.disk EXCEPT ![b] = s.cache[b]]
         /\ b \notin s.modified => sync(s, b).disk = s.disk
         /\ sync(s, b).modified = s.modified \ {b} /\ sync(s, b).status = s.status
<1>1. CASE b \in s.modified
  BY <1>1, Zenon DEF sync, write_block, Fields
<1>2. CASE b \notin s.modified
  <2>1. s.modified \ {b} = s.modified BY <1>2, Zenon
  <2>2. QED BY <1>2, <2>1, Zenon DEF sync, Fields
<1>3. QED BY <1>1, <1>2, Zenon

\* What a panic other than the one on a full cache makes of a coherent cache.
LEMMA PanicCoherent ==
  ASSUME NEW s, NEW w, Coherent(s), w # "RunOut"
  PROVE  /\ Coherent(panic(s, w)) /\ panic(s, w).modified = s.modified
         /\ panic(s, w).status = "ok" => w = "ok" \/ s.status = "ok"
BY PanicFields, Zenon DEF Coherent

\* sync makes one entry agree with the disk and leaves the others alone.
LEMMA SyncCoherent ==
  ASSUME NEW s, NEW b, Coherent(s)
  PROVE  Coherent(sync(s, b))
<1> DEFINE r == sync(s, b)
<1>2. /\ DOMAIN r = Fields /\ r.queue = s.queue /\ r.cache = s.cache
      /\ b \in s.modified => r.disk = [s.disk EXCEPT ![b] = s.cache[b]]
      /\ b \notin s.modified => r.disk = s.disk
      /\ r.modified = s.modified \ {b} /\ r.status = s.status
  BY SyncFields, Zenon DEF Coherent
<1> HIDE DEF r
<1>3. DOMAIN r.disk = DOMAIN s.disk BY <1>2, Zenon
<1>4. Backed(r.cache, r.disk, r.modified)
  <2>1. Backed(s.cache, s.disk, s.modified) BY Zenon DEF Coherent
  <2>2. ASSUME NEW a \in DOMAIN r.cache \ r.modified PROVE r.cache[a] = r.disk[a]
    BY <1>2, <2>1, <2>2, Zenon DEF Backed
  <2>3. QED BY <1>2, <1>3, <2>1, <2>2, Zenon DEF Backed
<1>6. Coherent(r) BY <1>2, <1>4, Zenon DEF Coherent
<1>7. QED BY <1>6, Zenon DEF r

\* A block comes in at the end of the queue.
LEMMA AppendQueued ==
  ASSUME NEW q, NEW B, NEW b, Queued(q, B), b \notin B, Len(q) < BLOCK_CACHE_SIZE
  PROVE  Queued(Append(q, b), B \union {b})
<1> DEFINE r == Append(q, b)
           C == B \union {b}
<1>1. q \in Seq(B) BY Zenon DEF Queued
<1>2. q \in Seq(C) /\ b \in C BY <1>1
<1>3. /\ r \in Seq(C) /\ Len(r) = Len(q) + 1 /\ Len(q) \in Nat
      /\ DOMAIN r = 1 .. Len(q) + 1 /\ DOMAIN q = 1 .. Len(q)
      /\ \A i \in 1 .. Len(q) : r[i] = q[i] /\ q[i] \in B
      /\ r[Len(q) + 1] = b
  BY <1>1, <1>2
<1> HIDE DEF r
<1>4. ASSUME NEW i \in 1 .. Len(q) + 1, NEW j \in 1 .. Len(q) + 1, r[i] = r[j]
      PROVE  i = j
  <2>1. \A k \in 1 .. Len(q) + 1 : k \in 1 .. Len(q) \/ k = Len(q) + 1 BY <1>3
  <2>2. \A k, l \in 1 .. Len(q) : q[k] = q[l] => k = l BY <1>3, Zenon DEF Queued
  <2>3. QED BY <1>3, <1>4, <2>1, <2>2, Zenon
<1>5. ASSUME NEW a \in C PROVE \E i \in DOMAIN r : r[i] = a
  <2>1. CASE a = b
    <3>1. Len(q) + 1 \in DOMAIN r BY <1>3
    <3>2. QED BY <1>3, <2>1, <3>1, Zenon
  <2>2. CASE a # b
    <3>1. PICK i \in DOMAIN q : q[i] = a BY <2>2, Zenon DEF Queued
    <3>2. i \in DOMAIN r /\ r[i] = q[i] BY <1>3
    <3>3. QED BY <3>1, <3>2, Zenon
  <2>3. QED BY <2>1, <2>2, Zenon
<1>6. Len(r) <= BLOCK_CACHE_SIZE BY <1>3, FsAssumption
<1>7. Queued(r, C) BY <1>3, <1>4, <1>5, <1>6, Zenon DEF Queued
<1>8. QED BY <1>7, Zenon DEF r

\* BlockCache::new on a block that is not in the cache, when there is room.
LEMMA LoadCoherent ==
  ASSUME NEW s, NEW b \in DOMAIN s.disk, Coherent(s), b \notin DOMAIN s.cache,
         Len(s.queue) < BLOCK_CACHE_SIZE
  PROVE  /\ Coherent(load(s, b)) /\ b \in DOMAIN load(s, b).cache
         /\ load(s, b).modified = s.modified /\ load(s, b).status = s.status
<1> DEFINE r == load(s, b)
<1>1. DOMAIN s = Fields BY Zenon DEF Coherent
<1>2. /\ DOMAIN r = Fields /\ r.queue = Append(s.queue, b)
      /\ r.cache = [x \in DOMAIN s.cache \union {b} |-> IF x = b THEN s.disk[b] ELSE s.cache[x]]
      /\ r.disk = s.disk /\ r.modified = s.modified /\ r.status = s.status
  <2>1. DOMAIN r = Fields /\ r.queue = Append(s.queue, b) BY <1>1, Zenon DEF load, Fields
  <2>2. r.cache = [x \in DOMAIN s.cache \union {b} |-> IF x = b THEN s.disk[b] ELSE s.cache[x]]
    BY <1>1, Zenon DEF load, Fields
  <2>3. r.disk = s.disk /\ r.modified = s.modified /\ r.status = s.status
    BY <1>1, Zenon DEF load, Fields
  <2>4. QED BY <2>1, <2>2, <2>3, Zenon
<1> HIDE DEF r
<1>3. DOMAIN r.cache = DOMAIN s.cache \union {b} BY <1>2, Zenon
<1>4. Queued(r.queue, DOMAIN r.cache)
  <2>1. Queued(Append(s.queue, b), DOMAIN s.cache \union {b}) BY AppendQueued, Zenon DEF Coherent
  <2>2. QED BY <1>2, <1>3, <2>1, Zenon
<1>5. Backed(r.cache, r.disk, r.modified)
  <2>1. Backed(s.cache, s.disk, s.modified) BY Zenon DEF Coherent
  <2>2. ASSUME NEW a \in DOMAIN r.cache \ r.modified PROVE r.cache[a] = r.disk[a]
    BY <1>2, <1>3, <2>1, <2>2, Zenon DEF Backed
  <2>3. QED BY <1>2, <1>3, <2>1, <2>2, Zenon DEF Backed
<1>6. Coherent(r) BY <1>2, <1>4, <1>5, Zenon DEF Coherent
<1>7. QED BY <1>2, <1>3, <1>6, Zenon DEF r

\* Vec::remove: what stands after the element moves up.
LEMMA RemoveIs ==
  ASSUME NEW B, NEW q \in Seq(B), NEW n \in 1 .. Len(q)
  PROVE  /\ remove(q, n) \in Seq(B) /\ Len(remove(q, n)) = Len(q) - 1
         /\ \A k \in 1 .. Len(q) - 1 : remove(q, n)[k] = IF k < n THEN q[k] ELSE q[k + 1]
<1> DEFINE a == SubSeq(q, 1, n - 1)
           b == SubSeq(q, n + 1, Len(q))
<1>1. Len(q) \in Nat /\ \A k \in 1 .. Len(q) : q[k] \in B OBVIOUS
<1>2. a \in Seq(B) /\ Len(a) = n - 1 /\ \A k \in 1 .. n - 1 : a[k] = q[k] BY <1>1
<1>3. b \in Seq(B) /\ Len(b) = Len(q) - n /\ \A k \in 1 .. Len(q) - n : b[k] = q[n + k] BY <1>1
<1> HIDE DEF a, b
<1>4. /\ a \o b \in Seq(B) /\ Len(a \o b) = Len(a) + Len(b)
      /\ \A k \in 1 .. Len(a) + Len(b) : (a \o b)[k] = IF k <= Len(a) THEN a[k] ELSE b[k - Len(a)]
  <2>1. a \in Seq(B) /\ b \in Seq(B) BY <1>2, <1>3, Zenon
  <2>2. QED BY <2>1
<1>5. ASSUME NEW k \in 1 .. Len(q) - 1
      PROVE  (a \o b)[k] = IF k < n THEN q[k] ELSE q[k + 1]
  <2>1. CASE k < n BY <1>2, <1>3, <1>4, <2>1
  <2>2. CASE ~(k < n)
    <3>1. k - (n - 1) \in 1 .. Len(q) - n /\ n + (k - (n - 1)) = k + 1 BY <1>1, <2>2
    <3>2. (a \o b)[k] = b[k - (n - 1)] BY <1>1, <1>2, <1>3, <1>4, <2>2
    <3>3. QED BY <1>3, <2>2, <3>1, <3>2, Zenon
  <2>3. QED BY <2>1, <2>2, Zenon
<1>6. Len(a \o b) = Len(q) - 1 BY <1>1, <1>2, <1>3, <1>4
<1>7. remove(q, n) = a \o b BY Zenon DEF remove, a, b
<1>8. QED BY <1>4, <1>5, <1>6, <1>7, Zenon

\* A block goes out of the queue.
LEMMA RemoveQueued ==
  ASSUME NEW q, NEW B, NEW n \in DOMAIN q, Queued(q, B)
  PROVE  Queued(remove(q, n), B \ {q[n]}) /\ Len(remove(q, n)) = Len(q) - 1
<1> DEFINE r == remove(q, n)
           old(k) == IF k < n THEN k ELSE k + 1
<1>1. q \in Seq(B) /\ Len(q) \in Nat /\ DOMAIN q = 1 .. Len(q) BY DEF Queued
<1>2. /\ r \in Seq(B) /\ Len(r) = Len(q) - 1 /\ DOMAIN r = 1 .. Len(q) - 1
      /\ \A k \in 1 .. Len(q) - 1 : r[k] = IF k < n THEN q[k] ELSE q[k + 1]
  <2>1. /\ r \in Seq(B) /\ Len(r) = Len(q) - 1
        /\ \A k \in 1 .. Len(q) - 1 : r[k] = IF k < n THEN q[k] ELSE q[k + 1]
    BY <1>1, RemoveIs, Zenon
  <2> HIDE DEF r
  <2>2. DOMAIN r = 1 .. Len(r) BY <2>1
  <2>3. QED BY <2>1, <2>2, Zenon
<1> HIDE DEF r
<1>3. \A k \in 1 .. Len(q) - 1 : r[k] = q[old(k)] /\ old(k) \in DOMAIN q /\ old(k) # n BY <1>1, <1>2
<1>4. \A k, l \in 1 .. Len(q) - 1 : old(k) = old(l) => k = l BY <1>1
<1> HIDE DEF old
<1>5. \A k, l \in DOMAIN q : q[k] = q[l] => k = l BY Zenon DEF Queued
<1>6. \A k, l \in DOMAIN r : r[k] = r[l] => k = l BY <1>2, <1>3, <1>4, <1>5
<1>7. r \in Seq(B \ {q[n]})
  <2>1. \A k \in 1 .. Len(r) : r[k] \in B \ {q[n]} BY <1>1, <1>2, <1>3, <1>5
  <2>2. QED BY <1>2, <2>1
<1>8. ASSUME NEW a \in B \ {q[n]} PROVE \E k \in DOMAIN r : r[k] = a
  <2>1. PICK k \in DOMAIN q : q[k] = a BY Zenon DEF Queued
  <2>2. CASE k < n BY <1>1, <1>2, <2>1, <2>2
  <2>3. CASE ~(k < n)
    <3>1. k - 1 \in 1 .. Len(q) - 1 /\ ~(k - 1 < n) /\ (k - 1) + 1 = k BY <1>1, <2>1, <2>3
    <3>2. r[k - 1] = q[k] BY <1>2, <3>1, Zenon
    <3>3. QED BY <1>2, <2>1, <3>1, <3>2, Zenon
  <2>4. QED BY <2>2, <2>3, Zenon
<1>9. Len(r) <= BLOCK_CACHE_SIZE BY <1>1, <1>2, FsAssumption DEF Queued
<1>10. Queued(r, B \ {q[n]}) BY <1>6, <1>7, <1>8, <1>9, Zenon DEF Queued
<1>11. QED BY <1>2, <1>10, Zenon DEF r

\* drain writes one entry back and drops it.
LEMMA DrainCoherent ==
  ASSUME NEW s, Coherent(s), NEW n \in DOMAIN s.queue
  PROVE  /\ Coherent(drain(s, n)) /\ DOMAIN drain(s, n).disk = DOMAIN s.disk
         /\ DOMAIN drain(s, n).cache \subseteq DOMAIN s.cache
         /\ Len(drain(s, n).queue) = Len(s.queue) - 1
         /\ drain(s, n).modified \subseteq s.modified /\ drain(s, n).status = s.status
<1> DEFINE b == s.queue[n]
           m == sync(s, b)
           r == drain(s, n)
<1>1. /\ DOMAIN m = Fields /\ m.queue = s.queue /\ m.cache = s.cache
      /\ m.modified = s.modified \ {b} /\ m.status = s.status
      /\ Coherent(m) /\ DOMAIN m.disk = DOMAIN s.disk
  <2>1. /\ DOMAIN m = Fields /\ m.queue = s.queue /\ m.cache = s.cache
        /\ b \in s.modified => m.disk = [s.disk EXCEPT ![b] = s.cache[b]]
        /\ b \notin s.modified => m.disk = s.disk
        /\ m.modified = s.modified \ {b} /\ m.status = s.status
    BY SyncFields, Zenon DEF Coherent
  <2>2. Coherent(m) BY SyncCoherent, Zenon
  <2> HIDE DEF m
  <2>3. DOMAIN m.disk = DOMAIN s.disk BY <2>1, Zenon
  <2>4. QED BY <2>1, <2>2, <2>3, Zenon
<1>2. r = [m EXCEPT !.queue = remove(@, n), !.cache = Without(@, b)] BY Zenon DEF drain
<1> HIDE DEF m, r
<1>3. /\ DOMAIN r = Fields /\ r.queue = remove(s.queue, n) /\ r.cache = Without(s.cache, b)
      /\ r.disk = m.disk /\ r.modified = s.modified \ {b} /\ r.status = s.status
  <2>1. /\ DOMAIN r = Fields /\ r.queue = remove(m.queue, n) /\ r.cache = Without(m.cache, b)
        /\ r.disk = m.disk /\ r.modified = m.modified /\ r.status = m.status
    BY <1>1, <1>2, Zenon DEF Fields
  <2>2. QED BY <1>1, <2>1, Zenon
<1>4. DOMAIN r.cache = DOMAIN s.cache \ {b} /\ \A x \in DOMAIN r.cache : r.cache[x] = s.cache[x]
  BY <1>3, Zenon DEF Without
<1>5. Queued(r.queue, DOMAIN r.cache) /\ Len(r.queue) = Len(s.queue) - 1
  <2>1. /\ Queued(remove(s.queue, n), DOMAIN s.cache \ {b})
        /\ Len(remove(s.queue, n)) = Len(s.queue) - 1
    BY RemoveQueued, Zenon DEF Coherent
  <2>2. QED BY <1>3, <1>4, <2>1, Zenon
<1>6. Backed(r.cache, r.disk, r.modified)
  <2>1. Backed(s.cache, m.disk, s.modified \ {b}) BY <1>1, Zenon DEF Coherent
  <2>2. QED BY <1>3, <1>4, <2>1, Zenon DEF Backed
<1>7. Coherent(r) BY <1>3, <1>5, <1>6, Zenon DEF Coherent
<1>8. QED BY <1>1, <1>3, <1>4, <1>5, <1>7, Zenon DEF r

\* get_block_cache: the block is there afterwards unless the call has failed,
\* nothing is marked that was not, and few references never fill the cache.
LEMMA GetCoherent ==
  ASSUME NEW s, NEW b, NEW held, Coherent(s), Few(held)
  PROVE  LET r == get_block_cache(s, b, held)
         IN  /\ Coherent(r)
             /\ r.status = "ok" => b \in DOMAIN r.cache /\ s.status = "ok"
             /\ r.modified \subseteq s.modified
<1> DEFINE r == get_block_cache(s, b, held)
           w == Min(Unused(s, held))
<1>1. CASE s.status # "ok" \/ b \in DOMAIN s.cache
  BY <1>1, Zenon DEF get_block_cache
<1>2. CASE ~(s.status # "ok" \/ b \in DOMAIN s.cache) /\ b \notin DOMAIN s.disk
  <2>1. r = panic(s, "device") BY <1>2, Zenon DEF get_block_cache
  <2>2. Coherent(r) /\ r.modified = s.modified BY <2>1, PanicCoherent
  <2>3. r.status = "device" BY <1>2, <2>1, PanicFields DEF Coherent
  <2>4. QED BY <2>2, <2>3, Zenon
<1> DEFINE goes == ~(s.status # "ok" \/ b \in DOMAIN s.cache) /\ b \in DOMAIN s.disk
<1>3. CASE goes /\ Len(s.queue) < BLOCK_CACHE_SIZE
  <2>1. r = load(s, b) BY <1>3, Zenon DEF get_block_cache
  <2>2. QED BY <1>3, <2>1, LoadCoherent, Zenon
<1>4. CASE goes /\ ~(Len(s.queue) < BLOCK_CACHE_SIZE) /\ Unused(s, held) = {}
  <2>1. r = panic(s, "RunOut") BY <1>4, Zenon DEF get_block_cache
  <2>2. /\ DOMAIN r = Fields /\ r.queue = s.queue /\ r.cache = s.cache /\ r.disk = s.disk
        /\ r.modified = s.modified /\ r.status = "RunOut"
    BY <1>4, <2>1, PanicFields DEF Coherent
  <2>3. ~(BLOCK_CACHE_SIZE >= 3)
    <3>1. SUFFICES ASSUME BLOCK_CACHE_SIZE >= 3 PROVE FALSE BY Zenon
    <3>2. PICK x, y : held \subseteq {x, y} BY Zenon DEF Few
    <3>3. Queued(s.queue, DOMAIN s.cache) BY Zenon DEF Coherent
    <3>4. {1, 2, 3} \subseteq DOMAIN s.queue BY <1>4, <3>1, <3>3, FsAssumption DEF Queued
    <3>5. \A i \in DOMAIN s.queue : s.queue[i] \in {x, y} BY <1>4, <3>2, Zenon DEF Unused
    <3>6. \A i, j \in DOMAIN s.queue : s.queue[i] = s.queue[j] => i = j BY <3>3, Zenon DEF Queued
    <3>7. QED BY <3>4, <3>5, <3>6
  <2>4. QED BY <2>2, <2>3, Zenon DEF Coherent
<1>5. CASE goes /\ ~(Len(s.queue) < BLOCK_CACHE_SIZE) /\ Unused(s, held) # {}
  <2>1. r = load(drain(s, w), b) BY <1>5, Zenon DEF get_block_cache
  <2>2. w \in DOMAIN s.queue
    <3>1. DOMAIN s.queue \subseteq Nat BY DEF Coherent, Queued
    <3>2. Unused(s, held) \subseteq DOMAIN s.queue BY Zenon DEF Unused
    <3>3. PICK x \in Unused(s, held) : \A y \in Unused(s, held) : ~(y < x)
      BY <1>5, <3>1, <3>2, LeastElement, Zenon
    <3>4. \A y \in Unused(s, held) : x <= y BY <3>1, <3>2, <3>3
    <3>5. w \in Unused(s, held) BY <3>4, Zenon DEF Min
    <3>6. QED BY <3>2, <3>5, Zenon
  <2> DEFINE d == drain(s, w)
  <2>3. /\ Coherent(d) /\ DOMAIN d.disk = DOMAIN s.disk /\ DOMAIN d.cache \subseteq DOMAIN s.cache
        /\ Len(d.queue) = Len(s.queue) - 1
        /\ d.modified \subseteq s.modified /\ d.status = s.status
    BY <2>2, DrainCoherent, Zenon
  <2> HIDE DEF d, w
  <2>4. b \in DOMAIN d.disk /\ b \notin DOMAIN d.cache BY <1>5, <2>3, Zenon
  <2>5. Len(d.queue) < BLOCK_CACHE_SIZE
    <3>1. Len(s.queue) \in Nat /\ Len(s.queue) <= BLOCK_CACHE_SIZE BY DEF Coherent, Queued
    <3>2. QED BY <2>3, <3>1, FsAssumption
  <2>6. r = load(d, b) BY <2>1, Zenon DEF d
  <2> HIDE DEF r
  <2>7. Coherent(r) /\ b \in DOMAIN r.cache /\ r.modified = d.modified /\ r.status = d.status
    BY <2>3, <2>4, <2>5, <2>6, LoadCoherent, Zenon
  <2>8. QED BY <1>5, <2>3, <2>7, Zenon DEF r
<1>6. QED BY <1>1, <1>2, <1>3, <1>4, <1>5, Zenon

\* A closure marks the entry that it was just given.
LEMMA ModifyCoherent ==
  ASSUME NEW s, NEW b, NEW data, Coherent(s), s.status = "ok" => b \in DOMAIN s.cache
  PROVE  LET r == modify(s, b, data)
         IN  Coherent(r) /\ r.status = s.status /\ DOMAIN r.cache = DOMAIN s.cache
<1> DEFINE r == modify(s, b, data)
<1>1. CASE s.status # "ok" BY <1>1, Zenon DEF modify
<1>2. CASE s.status = "ok"
  <2>1. /\ DOMAIN r = Fields /\ r.queue = s.queue /\ r.cache = [s.cache EXCEPT ![b] = data]
        /\ r.disk = s.disk /\ r.modified = s.modified \union {b} /\ r.status = s.status
    BY <1>2, Zenon DEF modify, Coherent, Fields
  <2> HIDE DEF r
  <2>2. DOMAIN r.cache = DOMAIN s.cache BY <2>1, Zenon
  <2>3. Backed(r.cache, r.disk, r.modified) BY <1>2, <2>1, <2>2, Zenon DEF Backed, Coherent
  <2>4. QED BY <2>1, <2>2, <2>3, Zenon DEF Coherent, r
<1>3. QED BY <1>1, <1>2, Zenon

\* A loop runs over the numbers 1 to N.
LEMMA UptoDomain ==
  ASSUME NEW a, NEW b
  PROVE  \E N \in Nat : DOMAIN Upto(a, b) = 1 .. N
<1>1. CASE a \in Int /\ b \in Int
  <2>1. DOMAIN Upto(a, b) = 1 .. b - a BY <1>1, Zenon DEF Upto
  <2>2. CASE b - a \in Nat BY <2>1, <2>2, Zenon
  <2>3. CASE b - a \notin Nat
    <3>1. 1 .. b - a = 1 .. 0 BY <1>1, <2>3
    <3>2. QED BY <2>1, <3>1, Zenon
  <2>4. QED BY <2>2, <2>3, Zenon
<1>2. CASE ~(a \in Int /\ b \in Int)
  <2>1. DOMAIN Upto(a, b) = 1 .. 0 BY <1>2 DEF Upto
  <2>2. QED BY <2>1, Zenon
<1>3. QED BY <1>1, <1>2, Zenon

----------------------------------------------------------------------------
(* Growing a file.                                                         *)

\* A block is taken off the list.
LEMMA TakenGrown ==
  ASSUME NEW g, Grown(g)
  PROVE  Grown(Taken(g))
<1> DEFINE r == Taken(g)
<1>1. /\ {"s", "inode", "new"} \subseteq DOMAIN r
      /\ r.s = IF g.new = <<>> THEN panic(g.s, "unwrap") ELSE g.s
  BY Zenon DEF Taken, Grown
<1>2. Coherent(panic(g.s, "unwrap")) BY PanicCoherent, Zenon DEF Grown
<1>3. QED BY <1>1, <1>2, Zenon DEF Grown

\* A closure reads an entry of an indirect block.
LEMMA EntryCoherent ==
  ASSUME NEW s, NEW b, NEW i, NEW held, Coherent(s), Few(held)
  PROVE  Coherent(Entry(s, b, i, held).s) /\ Entry(s, b, i, held).s.modified \subseteq s.modified
<1>1. Entry(s, b, i, held).s = get_block_cache(s, b, held) BY Zenon DEF Entry, Looked
<1>2. QED BY <1>1, GetCoherent

\* A closure writes an entry of an indirect block.
LEMMA SetEntryCoherent ==
  ASSUME NEW s, NEW b, NEW i, NEW id, NEW held, Coherent(s), Few(held)
  PROVE  Coherent(SetEntry(s, b, i, id, held))
<1> DEFINE r == get_block_cache(s, b, held)
<1>1. Coherent(r) /\ (r.status = "ok" => b \in DOMAIN r.cache) BY GetCoherent, Zenon
<1>2. SetEntry(s, b, i, id, held) = modify(r, b, [Read(r, b) EXCEPT ![i] = id])
  BY Zenon DEF SetEntry, PutEntry
<1> HIDE DEF r
<1>3. QED BY <1>1, <1>2, ModifyCoherent

\* A closure that may change a block marks it.
LEMMA MarkCoherent ==
  ASSUME NEW s, NEW b, NEW held, Coherent(s), Few(held)
  PROVE  LET r == Mark(s, b, held)
         IN  Coherent(r) /\ (r.status = "ok" => b \in DOMAIN r.cache)
<1> DEFINE r == get_block_cache(s, b, held)
<1>1. Coherent(r) /\ (r.status = "ok" => b \in DOMAIN r.cache) BY GetCoherent, Zenon
<1>2. Mark(s, b, held) = modify(r, b, Read(r, b)) BY Zenon DEF Mark, Marked
<1> HIDE DEF r
<1>3. QED BY <1>1, <1>2, ModifyCoherent

\* One or no reference is few, and so is one more.
LEMMA OneFew ==
  ASSUME NEW held, One(held), NEW b
  PROVE  Few(held) /\ Few(held \union {b})
<1>1. PICK x : held \subseteq {x} BY Zenon DEF One
<1>2. held \subseteq {x, b} /\ held \union {b} \subseteq {x, b} BY <1>1, Zenon
<1>3. QED BY <1>2, Zenon DEF Few

\* A growing file whose cache state changes.
LEMMA GrownWith ==
  ASSUME NEW g, Grown(g), NEW s, Coherent(s)
  PROVE  Grown([g EXCEPT !.s = s])
BY Zenon DEF Grown

\* The direct blocks.
LEMMA GrowDirectGrown ==
  ASSUME NEW g, NEW cur, NEW total, Grown(g)
  PROVE  Grown(GrowDirect(g, cur, total))
<1> DEFINE c    == <<"direct">>
           base == g
           seq  == Upto(cur, Least(total, INODE_DIRECT_COUNT))
           body(x, i) == FillDirect(x, i)
           iter == CHOOSE f : f = [e \in SUBSET DOMAIN seq |->
                     IF e = {} THEN base ELSE body(f[e \ {Max(e)}], seq[Max(e)])]
<1>1. PICK N \in Nat : DOMAIN seq = 1 .. N BY UptoDomain, Zenon
<1>2. GrowDirect(g, cur, total) = iter[DOMAIN seq] BY Zenon DEF GrowDirect, FoldLeft, MapThenFoldSet
<1>3. \A x, i : Round(c, x, i) = body(x, i) BY Zenon DEF Round
<1>4. ASSUME NEW x, NEW i, Grown(x) PROVE Grown(body(x, i))
  BY <1>4, TakenGrown, Zenon DEF FillDirect, Grown
<1>5. \A k, x : Holds(c, k, x) <=> Grown(x) BY Zenon DEF Holds
<1>6. Grown(base) BY Zenon
<1> HIDE DEF c, seq, base, body
<1>7. IsLoop(c, base, seq, iter)
  <2>1. PICK f : IsLoop(c, base, seq, f) BY <1>1, LoopExists, Zenon
  <2>2. f = [e \in SUBSET DOMAIN seq |->
               IF e = {} THEN base ELSE body(f[e \ {Max(e)}], seq[Max(e)])]
    BY <1>3, <2>1, Zenon DEF IsLoop
  <2>3. iter = [e \in SUBSET DOMAIN seq |->
                  IF e = {} THEN base ELSE body(iter[e \ {Max(e)}], seq[Max(e)])]
    BY <2>2, Zenon
  <2> HIDE DEF iter
  <2>4. QED BY <1>3, <2>3, Zenon DEF IsLoop
<1> HIDE DEF iter
<1>8. Grown(iter[DOMAIN seq])
  <2>1. \A x : \A k \in Nat : k + 1 <= N /\ Holds(c, k, x) => Holds(c, k + 1, Round(c, x, seq[k + 1]))
    BY <1>3, <1>4, <1>5, Zenon
  <2>2. Holds(c, 0, base) BY <1>5, <1>6, Zenon
  <2>3. Holds(c, N, iter[DOMAIN seq]) BY <1>1, <1>7, <2>1, <2>2, LoopKeeps, Zenon
  <2>4. QED BY <1>5, <2>3, Zenon
<1>9. QED BY <1>2, <1>8, Zenon

\* A block below indirect1.
LEMMA FillIndirect1Grown ==
  ASSUME NEW g, NEW i, NEW held, Grown(g), One(held)
  PROVE  Grown(FillIndirect1(g, i, held))
<1> DEFINE t == Taken(g)
<1>1. Grown(t) BY TakenGrown, Zenon
<1> DEFINE s == SetEntry(t.s, g.inode.indirect1, i, Next1(g), held)
<1>2. FillIndirect1(g, i, held) = [t EXCEPT !.s = s] BY Zenon DEF FillIndirect1
<1> HIDE DEF t
<1>3. Coherent(s) BY <1>1, OneFew, SetEntryCoherent, Zenon DEF Grown
<1> HIDE DEF s
<1>4. QED BY <1>1, <1>2, <1>3, GrownWith, Zenon

\* The blocks below indirect1.
LEMMA GrowIndirect1Grown ==
  ASSUME NEW g, NEW cur, NEW total, NEW held, Grown(g), One(held)
  PROVE  Grown(GrowIndirect1(g, cur, total, held))
<1> DEFINE c    == <<"indirect1", held>>
           base == [g EXCEPT !.s = Mark(@, g.inode.indirect1, held)]
           seq  == Upto(Most(cur, INODE_DIRECT_COUNT) - INODE_DIRECT_COUNT,
                        Least(total - INODE_DIRECT_COUNT, INODE_INDIRECT1_COUNT))
           body(x, i) == FillIndirect1(x, i, held)
           iter == CHOOSE f : f = [e \in SUBSET DOMAIN seq |->
                     IF e = {} THEN base ELSE body(f[e \ {Max(e)}], seq[Max(e)])]
<1>1. PICK N \in Nat : DOMAIN seq = 1 .. N BY UptoDomain, Zenon
<1>2. GrowIndirect1(g, cur, total, held) = iter[DOMAIN seq] BY Zenon DEF GrowIndirect1, FoldLeft, MapThenFoldSet
<1>3. \A x, i : Round(c, x, i) = body(x, i) BY Zenon DEF Round
<1>4. ASSUME NEW x, NEW i, Grown(x) PROVE Grown(body(x, i))
  BY <1>4, FillIndirect1Grown, Zenon
<1>5. \A k, x : Holds(c, k, x) <=> Grown(x) BY Zenon DEF Holds
<1>6. Grown(base) 
  <2>1. Coherent(Mark(g.s, g.inode.indirect1, held)) BY OneFew, MarkCoherent, Zenon DEF Grown
  <2>2. QED BY <2>1, GrownWith, Zenon
<1> HIDE DEF c, seq, base, body
<1>7. IsLoop(c, base, seq, iter)
  <2>1. PICK f : IsLoop(c, base, seq, f) BY <1>1, LoopExists, Zenon
  <2>2. f = [e \in SUBSET DOMAIN seq |->
               IF e = {} THEN base ELSE body(f[e \ {Max(e)}], seq[Max(e)])]
    BY <1>3, <2>1, Zenon DEF IsLoop
  <2>3. iter = [e \in SUBSET DOMAIN seq |->
                  IF e = {} THEN base ELSE body(iter[e \ {Max(e)}], seq[Max(e)])]
    BY <2>2, Zenon
  <2> HIDE DEF iter
  <2>4. QED BY <1>3, <2>3, Zenon DEF IsLoop
<1> HIDE DEF iter
<1>8. Grown(iter[DOMAIN seq])
  <2>1. \A x : \A k \in Nat : k + 1 <= N /\ Holds(c, k, x) => Holds(c, k + 1, Round(c, x, seq[k + 1]))
    BY <1>3, <1>4, <1>5, Zenon
  <2>2. Holds(c, 0, base) BY <1>5, <1>6, Zenon
  <2>3. Holds(c, N, iter[DOMAIN seq]) BY <1>1, <1>7, <2>1, <2>2, LoopKeeps, Zenon
  <2>4. QED BY <1>5, <2>3, Zenon
<1>9. QED BY <1>2, <1>8, Zenon

\* A block below indirect2, with its indirect block when it is the first.
LEMMA FillIndirect2Grown ==
  ASSUME NEW g, NEW i, NEW held, Grown(g), One(held)
  PROVE  Grown(FillIndirect2(g, i, held))
<1> DEFINE a == i \div INODE_INDIRECT1_COUNT
           b == i % INODE_INDIRECT1_COUNT
           h == held \union {g.inode.indirect2}
           n == IF b = 0 THEN NewSub(g, a, h) ELSE g
           e == Entry(n.s, n.inode.indirect2, a, h)
           m == [n EXCEPT !.s = e.s]
           t == Taken(m)
           s == SetEntry(t.s, e.id, b, Next1(n), h)
<1>1. FillIndirect2(g, i, held) = [t EXCEPT !.s = s] BY Zenon DEF FillIndirect2, InSub, FillSub
<1>2. Few(h) BY OneFew, Zenon
<1> HIDE DEF h, a, b
<1>3. Grown(n)
  <2> DEFINE u == Taken(g)
             v == SetEntry(u.s, g.inode.indirect2, a, Next1(g), h)
  <2>1. Grown(u) BY TakenGrown, Zenon
  <2>2. NewSub(g, a, h) = [u EXCEPT !.s = v] BY Zenon DEF NewSub
  <2> HIDE DEF u
  <2>3. Coherent(v) BY <1>2, <2>1, SetEntryCoherent, Zenon DEF Grown
  <2> HIDE DEF v
  <2>4. Grown(NewSub(g, a, h)) BY <2>1, <2>2, <2>3, GrownWith, Zenon
  <2>5. QED BY <2>4, Zenon
<1> HIDE DEF n
<1>4. Coherent(e.s) BY <1>2, <1>3, EntryCoherent, Zenon DEF Grown
<1> HIDE DEF e
<1>5. Grown(m) BY <1>3, <1>4, GrownWith, Zenon
<1> HIDE DEF m
<1>6. Grown(t) BY <1>5, TakenGrown, Zenon
<1> HIDE DEF t
<1>7. Coherent(s) BY <1>2, <1>6, SetEntryCoherent, Zenon DEF Grown
<1> HIDE DEF s
<1>8. QED BY <1>1, <1>6, <1>7, GrownWith, Zenon

\* The blocks below indirect2.
LEMMA GrowIndirect2Grown ==
  ASSUME NEW g, NEW cur, NEW total, NEW held, Grown(g), One(held)
  PROVE  Grown(GrowIndirect2(g, cur, total, held))
<1> DEFINE c    == <<"indirect2", held>>
           base == [g EXCEPT !.s = Mark(@, g.inode.indirect2, held)]
           seq  == Upto(Most(cur, INDIRECT1_BOUND) - INDIRECT1_BOUND, total - INDIRECT1_BOUND)
           body(x, i) == FillIndirect2(x, i, held)
           iter == CHOOSE f : f = [e \in SUBSET DOMAIN seq |->
                     IF e = {} THEN base ELSE body(f[e \ {Max(e)}], seq[Max(e)])]
<1>1. PICK N \in Nat : DOMAIN seq = 1 .. N BY UptoDomain, Zenon
<1>2. GrowIndirect2(g, cur, total, held) = iter[DOMAIN seq] BY Zenon DEF GrowIndirect2, FoldLeft, MapThenFoldSet
<1>3. \A x, i : Round(c, x, i) = body(x, i) BY Zenon DEF Round
<1>4. ASSUME NEW x, NEW i, Grown(x) PROVE Grown(body(x, i))
  BY <1>4, FillIndirect2Grown, Zenon
<1>5. \A k, x : Holds(c, k, x) <=> Grown(x) BY Zenon DEF Holds
<1>6. Grown(base) 
  <2>1. Coherent(Mark(g.s, g.inode.indirect2, held)) BY OneFew, MarkCoherent, Zenon DEF Grown
  <2>2. QED BY <2>1, GrownWith, Zenon
<1> HIDE DEF c, seq, base, body
<1>7. IsLoop(c, base, seq, iter)
  <2>1. PICK f : IsLoop(c, base, seq, f) BY <1>1, LoopExists, Zenon
  <2>2. f = [e \in SUBSET DOMAIN seq |->
               IF e = {} THEN base ELSE body(f[e \ {Max(e)}], seq[Max(e)])]
    BY <1>3, <2>1, Zenon DEF IsLoop
  <2>3. iter = [e \in SUBSET DOMAIN seq |->
                  IF e = {} THEN base ELSE body(iter[e \ {Max(e)}], seq[Max(e)])]
    BY <2>2, Zenon
  <2> HIDE DEF iter
  <2>4. QED BY <1>3, <2>3, Zenon DEF IsLoop
<1> HIDE DEF iter
<1>8. Grown(iter[DOMAIN seq])
  <2>1. \A x : \A k \in Nat : k + 1 <= N /\ Holds(c, k, x) => Holds(c, k + 1, Round(c, x, seq[k + 1]))
    BY <1>3, <1>4, <1>5, Zenon
  <2>2. Holds(c, 0, base) BY <1>5, <1>6, Zenon
  <2>3. Holds(c, N, iter[DOMAIN seq]) BY <1>1, <1>7, <2>1, <2>2, LoopKeeps, Zenon
  <2>4. QED BY <1>5, <2>3, Zenon
<1>9. QED BY <1>2, <1>8, Zenon

\* DiskInode::increase_size.
LEMMA IncreaseCoherent ==
  ASSUME NEW s, NEW inode, NEW new_size, NEW new_blocks, NEW held, Coherent(s), One(held)
  PROVE  Coherent(increase_size(s, inode, new_size, new_blocks, held).s)
<1> DEFINE cur   == data_blocks(inode.size)
           total == data_blocks(new_size)
           g0 == [s |-> s, inode |-> [inode EXCEPT !.size = new_size], new |-> new_blocks]
           g1 == GrowDirect(g0, cur, total)
           n1 == NewIndirect1(g1, cur)
           g2 == GrowIndirect1(n1, cur, total, held)
           n2 == NewIndirect2(g2, cur)
           g3 == GrowIndirect2(n2, cur, total, held)
<1>1. increase_size(s, inode, new_size, new_blocks, held) \in {g1, g2, g3}
  <2> HIDE DEF g0, cur, total
  <2>1. QED BY Zenon DEF increase_size, g0, cur, total
<1>2. Grown(g0) BY Zenon DEF Grown
<1> HIDE DEF cur, total, g0
<1>3. Grown(g1) BY <1>2, GrowDirectGrown, Zenon
<1> HIDE DEF g1
<1>4. Grown(n1) BY <1>3, TakenGrown, Zenon DEF NewIndirect1, Grown
<1> HIDE DEF n1
<1>5. Grown(g2) BY <1>4, GrowIndirect1Grown, Zenon
<1> HIDE DEF g2
<1>6. Grown(n2) BY <1>5, TakenGrown, Zenon DEF NewIndirect2, Grown
<1> HIDE DEF n2
<1>7. Grown(g3) BY <1>6, GrowIndirect2Grown, Zenon
<1> HIDE DEF g3
<1>8. QED BY <1>1, <1>3, <1>5, <1>7, Zenon DEF Grown

----------------------------------------------------------------------------
(* Shrinking, reading and writing a file.                                  *)

\* A closure lists the entries of an indirect block, which it marks.
LEMMA EntriesCoherent ==
  ASSUME NEW s, NEW b, NEW n, NEW held, Coherent(s), Few(held)
  PROVE  Coherent(Entries(s, b, n, held).s)
<1>1. Entries(s, b, n, held).s = Mark(s, b, held) BY Zenon DEF Entries, Listed
<1>2. QED BY <1>1, MarkCoherent, Zenon

\* The indirect blocks below indirect2.
LEMMA ClearSubsCoherent ==
  ASSUME NEW top, NEW in2, NEW n, NEW held, Coherent(top.s), One(held)
  PROVE  Coherent(ClearSubs(top, in2, n, held).s)
<1> DEFINE c    == <<"subs", top, in2, n, held>>
           base == [s |-> top.s, ids |-> <<in2>>]
           seq  == Upto(1, Len(top.ids) + 1)
           body(x, i) == Freeing(x, top.ids[i],
                       Entries(x.s, top.ids[i],
                               Least(INODE_INDIRECT1_COUNT, n - (i - 1) * INODE_INDIRECT1_COUNT),
                               held \union {in2}))
           iter == CHOOSE f : f = [e \in SUBSET DOMAIN seq |->
                     IF e = {} THEN base ELSE body(f[e \ {Max(e)}], seq[Max(e)])]
<1>1. PICK N \in Nat : DOMAIN seq = 1 .. N BY UptoDomain, Zenon
<1>2. ClearSubs(top, in2, n, held) = iter[DOMAIN seq] BY Zenon DEF ClearSubs, FoldLeft, MapThenFoldSet
<1>3. \A x, i : Round(c, x, i) = body(x, i) BY DEF Round
<1>4. ASSUME NEW x, NEW i, Coherent(x.s) PROVE Coherent(body(x, i).s)
  BY <1>4, OneFew, EntriesCoherent, Zenon DEF Freeing
<1>5. \A k, x : Holds(c, k, x) <=> Coherent(x.s) BY Zenon DEF Holds
<1>6. Coherent(base.s) BY Zenon
<1> HIDE DEF c, seq, base, body
<1>7. IsLoop(c, base, seq, iter)
  <2>1. PICK f : IsLoop(c, base, seq, f) BY <1>1, LoopExists, Zenon
  <2>2. f = [e \in SUBSET DOMAIN seq |->
               IF e = {} THEN base ELSE body(f[e \ {Max(e)}], seq[Max(e)])]
    BY <1>3, <2>1, Zenon DEF IsLoop
  <2>3. iter = [e \in SUBSET DOMAIN seq |->
                  IF e = {} THEN base ELSE body(iter[e \ {Max(e)}], seq[Max(e)])]
    BY <2>2, Zenon
  <2> HIDE DEF iter
  <2>4. QED BY <1>3, <2>3, Zenon DEF IsLoop
<1> HIDE DEF iter
<1>8. Coherent(iter[DOMAIN seq].s)
  <2>1. \A x : \A k \in Nat : k + 1 <= N /\ Holds(c, k, x) => Holds(c, k + 1, Round(c, x, seq[k + 1]))
    BY <1>3, <1>4, <1>5, Zenon
  <2>2. Holds(c, 0, base) BY <1>5, <1>6, Zenon
  <2>3. Holds(c, N, iter[DOMAIN seq]) BY <1>1, <1>7, <2>1, <2>2, LoopKeeps, Zenon
  <2>4. QED BY <1>5, <2>3, Zenon
<1>9. QED BY <1>2, <1>8, Zenon

\* DiskInode::clear_size.
LEMMA ClearSizeCoherent ==
  ASSUME NEW s, NEW inode, NEW held, Coherent(s), One(held)
  PROVE  Coherent(clear_size(s, inode, held).s)
<1> DEFINE n   == data_blocks(inode.size)
           in1 == Entries(s, inode.indirect1, Least(n - INODE_DIRECT_COUNT, INODE_INDIRECT1_COUNT), held)
           m   == n - INODE_DIRECT_COUNT - INODE_INDIRECT1_COUNT
           top == Entries(in1.s, inode.indirect2,
                          (m + INODE_INDIRECT1_COUNT - 1) \div INODE_INDIRECT1_COUNT, held)
           in2 == ClearSubs(top, inode.indirect2, m, held)
<1>1. clear_size(s, inode, held).s \in {s, in1.s, panic(in2.s, "assert"), in2.s}
  BY Zenon DEF clear_size, clear_indirect2
<1> HIDE DEF n, m
<1>2. Coherent(in1.s) BY OneFew, EntriesCoherent, Zenon
<1> HIDE DEF in1
<1>3. Coherent(top.s) BY <1>2, OneFew, EntriesCoherent, Zenon
<1> HIDE DEF top
<1>4. Coherent(in2.s) BY <1>3, ClearSubsCoherent, Zenon
<1> HIDE DEF in2
<1>5. Coherent(panic(in2.s, "assert")) BY <1>4, PanicCoherent, Zenon
<1>6. QED BY <1>1, <1>2, <1>4, <1>5, Zenon

\* DiskInode::get_block_id reads at most two indirect blocks.
LEMMA GetBlockIdCoherent ==
  ASSUME NEW s, NEW inode, NEW i, NEW held, Coherent(s), One(held)
  PROVE  LET r == get_block_id(s, inode, i, held)
         IN  Coherent(r.s) /\ r.s.modified \subseteq s.modified
<1> DEFINE last == i - INDIRECT1_BOUND
           one == Entry(s, inode.indirect1, i - INODE_DIRECT_COUNT, held)
           mid == Entry(s, inode.indirect2, last \div INODE_INDIRECT1_COUNT, held)
           two == Entry(mid.s, mid.id, last % INODE_INDIRECT1_COUNT, held)
<1>1. get_block_id(s, inode, i, held).s \in {s, one.s, two.s} BY Zenon DEF get_block_id, Below
<1> HIDE DEF last
<1>2. Coherent(one.s) /\ one.s.modified \subseteq s.modified BY OneFew, EntryCoherent, Zenon
<1>3. Coherent(mid.s) /\ mid.s.modified \subseteq s.modified BY OneFew, EntryCoherent, Zenon
<1> HIDE DEF one, mid
<1>4. Coherent(two.s) /\ two.s.modified \subseteq mid.s.modified BY <1>3, OneFew, EntryCoherent, Zenon
<1> HIDE DEF two
<1>5. QED BY <1>1, <1>2, <1>3, <1>4, Zenon

\* A read copies from one block.
LEMMA ReadBlockClean ==
  ASSUME NEW g, NEW inode, NEW j, NEW lo, NEW hi, NEW held, Clean(g.s), One(held)
  PROVE  Clean(ReadBlock(g, get_block_id(g.s, inode, j, held), lo, hi, held).s)
<1> DEFINE at == get_block_id(g.s, inode, j, held)
           r  == get_block_cache(at.s, at.id, held)
<1>1. ReadBlock(g, at, lo, hi, held).s = r BY Zenon DEF ReadBlock, Copied
<1>2. Coherent(at.s) /\ at.s.modified \subseteq g.s.modified BY GetBlockIdCoherent, Zenon DEF Clean
<1> HIDE DEF at
<1>3. Coherent(r) /\ r.modified \subseteq at.s.modified BY <1>2, OneFew, GetCoherent, Zenon
<1> HIDE DEF r
<1>4. Clean(r) BY <1>2, <1>3, Zenon DEF Clean
<1>5. QED BY <1>1, <1>4, Zenon DEF at

\* A write changes one block.
LEMMA WriteBlockCoherent ==
  ASSUME NEW s, NEW inode, NEW j, NEW base, NEW buf, NEW offset, NEW end, NEW held,
         Coherent(s), One(held)
  PROVE  Coherent(WriteBlock(get_block_id(s, inode, j, held), base, buf, offset, end, held))
<1> DEFINE at == get_block_id(s, inode, j, held)
           r  == get_block_cache(at.s, at.id, held)
           data == [i \in DOMAIN Read(r, at.id) |->
                      IF base + i >= offset /\ base + i < end
                      THEN buf[base + i - offset + 1] ELSE Read(r, at.id)[i]]
<1>1. WriteBlock(at, base, buf, offset, end, held) = modify(r, at.id, data)
  BY Zenon DEF WriteBlock, WriteIn
<1> HIDE DEF data
<1>2. Coherent(at.s) BY GetBlockIdCoherent, Zenon
<1> HIDE DEF at
<1>3. Coherent(r) /\ (r.status = "ok" => at.id \in DOMAIN r.cache) BY <1>2, OneFew, GetCoherent, Zenon
<1> HIDE DEF r
<1>4. Coherent(modify(r, at.id, data)) BY <1>3, ModifyCoherent, Zenon
<1>5. QED BY <1>1, <1>4, Zenon DEF at

\* A read that has something to read.
LEMMA ReadLoopClean ==
  ASSUME NEW s, NEW inode, NEW offset, NEW len, NEW held, Clean(s), One(held),
         ~(offset >= Least(offset + len, inode.size))
  PROVE  Clean(read_at(s, inode, offset, len, held).s)
<1> DEFINE end  == Least(offset + len, inode.size)
           c    == <<"read", inode, offset, end, held>>
           base == [s |-> s, buf |-> <<>>]
           seq  == BlocksOf(offset, end)
           body(x, i) == ReadBlock(x, get_block_id(x.s, inode, i, held),
                       Most(offset, i * BLOCK_SZ), Least((i + 1) * BLOCK_SZ, end), held)
           iter == CHOOSE f : f = [e \in SUBSET DOMAIN seq |->
                     IF e = {} THEN base ELSE body(f[e \ {Max(e)}], seq[Max(e)])]
<1>1. PICK N \in Nat : DOMAIN seq = 1 .. N BY UptoDomain, Zenon DEF BlocksOf
<1>2. read_at(s, inode, offset, len, held) = iter[DOMAIN seq] BY Zenon DEF read_at, FoldLeft, MapThenFoldSet
<1>3. \A x, i : Round(c, x, i) = body(x, i) BY DEF Round
<1>4. ASSUME NEW x, NEW i, Clean(x.s) PROVE Clean(body(x, i).s)
  BY <1>4, ReadBlockClean, Zenon
<1>5. \A k, x : Holds(c, k, x) <=> Clean(x.s) BY Zenon DEF Holds
<1>6. Clean(base.s) BY Zenon
<1> HIDE DEF c, seq, base, body
<1>7. IsLoop(c, base, seq, iter)
  <2>1. PICK f : IsLoop(c, base, seq, f) BY <1>1, LoopExists, Zenon
  <2>2. f = [e \in SUBSET DOMAIN seq |->
               IF e = {} THEN base ELSE body(f[e \ {Max(e)}], seq[Max(e)])]
    BY <1>3, <2>1, Zenon DEF IsLoop
  <2>3. iter = [e \in SUBSET DOMAIN seq |->
                  IF e = {} THEN base ELSE body(iter[e \ {Max(e)}], seq[Max(e)])]
    BY <2>2, Zenon
  <2> HIDE DEF iter
  <2>4. QED BY <1>3, <2>3, Zenon DEF IsLoop
<1> HIDE DEF iter
<1>8. Clean(iter[DOMAIN seq].s)
  <2>1. \A x : \A k \in Nat : k + 1 <= N /\ Holds(c, k, x) => Holds(c, k + 1, Round(c, x, seq[k + 1]))
    BY <1>3, <1>4, <1>5, Zenon
  <2>2. Holds(c, 0, base) BY <1>5, <1>6, Zenon
  <2>3. Holds(c, N, iter[DOMAIN seq]) BY <1>1, <1>7, <2>1, <2>2, LoopKeeps, Zenon
  <2>4. QED BY <1>5, <2>3, Zenon
<1>9. QED BY <1>2, <1>8, Zenon

\* DiskInode::read_at.
LEMMA ReadAtClean ==
  ASSUME NEW s, NEW inode, NEW offset, NEW len, NEW held, Clean(s), One(held)
  PROVE  Clean(read_at(s, inode, offset, len, held).s)
<1>1. CASE offset >= Least(offset + len, inode.size) BY <1>1, Zenon DEF read_at
<1>2. CASE ~(offset >= Least(offset + len, inode.size)) BY <1>2, ReadLoopClean, Zenon
<1>3. QED BY <1>1, <1>2, Zenon

\* DiskInode::write_at.
LEMMA WriteAtCoherent ==
  ASSUME NEW s, NEW inode, NEW offset, NEW buf, NEW held, Coherent(s), One(held)
  PROVE  Coherent(write_at(s, inode, offset, buf, held))
<1> DEFINE end  == Least(offset + Len(buf), inode.size)
           c    == <<"write", inode, buf, offset, end, held>>
           base == s
           seq  == BlocksOf(offset, end)
           body(x, i) == WriteBlock(get_block_id(x, inode, i, held), i * BLOCK_SZ, buf, offset, end, held)
           iter == CHOOSE f : f = [e \in SUBSET DOMAIN seq |->
                     IF e = {} THEN base ELSE body(f[e \ {Max(e)}], seq[Max(e)])]
<1>1. PICK N \in Nat : DOMAIN seq = 1 .. N BY UptoDomain, Zenon DEF BlocksOf
<1>2. write_at(s, inode, offset, buf, held) = iter[DOMAIN seq] BY Zenon DEF write_at, FoldLeft, MapThenFoldSet
<1>3. \A x, i : Round(c, x, i) = body(x, i) BY DEF Round
<1>4. ASSUME NEW x, NEW i, Coherent(x) PROVE Coherent(body(x, i))
  BY <1>4, WriteBlockCoherent, Zenon
<1>5. \A k, x : Holds(c, k, x) <=> Coherent(x) BY Zenon DEF Holds
<1>6. Coherent(base) BY Zenon
<1> HIDE DEF c, seq, base, body
<1>7. IsLoop(c, base, seq, iter)
  <2>1. PICK f : IsLoop(c, base, seq, f) BY <1>1, LoopExists, Zenon
  <2>2. f = [e \in SUBSET DOMAIN seq |->
               IF e = {} THEN base ELSE body(f[e \ {Max(e)}], seq[Max(e)])]
    BY <1>3, <2>1, Zenon DEF IsLoop
  <2>3. iter = [e \in SUBSET DOMAIN seq |->
                  IF e = {} THEN base ELSE body(iter[e \ {Max(e)}], seq[Max(e)])]
    BY <2>2, Zenon
  <2> HIDE DEF iter
  <2>4. QED BY <1>3, <2>3, Zenon DEF IsLoop
<1> HIDE DEF iter
<1>8. Coherent(iter[DOMAIN seq])
  <2>1. \A x : \A k \in Nat : k + 1 <= N /\ Holds(c, k, x) => Holds(c, k + 1, Round(c, x, seq[k + 1]))
    BY <1>3, <1>4, <1>5, Zenon
  <2>2. Holds(c, 0, base) BY <1>5, <1>6, Zenon
  <2>3. Holds(c, N, iter[DOMAIN seq]) BY <1>1, <1>7, <2>1, <2>2, LoopKeeps, Zenon
  <2>4. QED BY <1>5, <2>3, Zenon
<1>9. QED BY <1>2, <1>8, Zenon

----------------------------------------------------------------------------
(* Writing the cache back.                                                 *)

\* One more entry of the queue is written back.
LEMMA SyncSynced ==
  ASSUME NEW s, NEW n \in Nat, NEW x, Synced(s, n, x)
  PROVE  Synced(s, n + 1, sync(x, s.queue[n + 1]))
<1> DEFINE b == s.queue[n + 1]
           r == sync(x, b)
<1>1. Coherent(x) BY Zenon DEF Synced
<1>2. r.queue = x.queue /\ r.modified = x.modified \ {b} /\ r.status = x.status
  BY <1>1, SyncFields, Zenon DEF Coherent
<1>3. Coherent(r) BY <1>1, SyncCoherent, Zenon
<1> HIDE DEF r
<1>4. \A k \in 1 .. n + 1 : s.queue[k] \notin r.modified
  <2>1. \A k \in 1 .. n + 1 : k \in 1 .. n \/ k = n + 1 OBVIOUS
  <2>2. \A k \in 1 .. n : s.queue[k] \notin x.modified BY Zenon DEF Synced
  <2>3. QED BY <1>2, <2>1, <2>2, Zenon
<1>5. Synced(s, n + 1, r) BY <1>2, <1>3, <1>4, Zenon DEF Synced
<1>6. QED BY <1>5, Zenon DEF r

\* block_cache_sync_all, for a call that has not failed.
LEMMA SyncAllSynced ==
  ASSUME NEW s, Coherent(s), s.status = "ok"
  PROVE  Synced(s, Len(s.queue), block_cache_sync_all(s))
<1> DEFINE c    == <<"sync", s>>
           seq  == s.queue
           iter == CHOOSE f : f = [e \in SUBSET DOMAIN seq |->
                     IF e = {} THEN s ELSE sync(f[e \ {Max(e)}], seq[Max(e)])]
           N    == Len(s.queue)
<1>1. N \in Nat /\ DOMAIN seq = 1 .. N BY DEF Coherent, Queued
<1>2. block_cache_sync_all(s) = iter[DOMAIN seq]
  BY Zenon DEF block_cache_sync_all, FoldLeft, MapThenFoldSet
<1>3. \A x, i : Round(c, x, i) = sync(x, i) BY Zenon DEF Round
<1>4. \A k, x : Holds(c, k, x) <=> Synced(s, k, x) BY Zenon DEF Holds
<1>5. Synced(s, 0, s) BY DEF Synced
<1> HIDE DEF c, N
<1>6. IsLoop(c, s, seq, iter)
  <2> HIDE DEF seq
  <2>1. PICK f : IsLoop(c, s, seq, f) BY <1>1, LoopExists, Zenon
  <2>2. f = [e \in SUBSET DOMAIN seq |->
               IF e = {} THEN s ELSE sync(f[e \ {Max(e)}], seq[Max(e)])]
    BY <1>3, <2>1, Zenon DEF IsLoop
  <2>3. iter = [e \in SUBSET DOMAIN seq |->
                  IF e = {} THEN s ELSE sync(iter[e \ {Max(e)}], seq[Max(e)])]
    BY <2>2, Zenon
  <2> HIDE DEF iter
  <2>4. \A e \in SUBSET DOMAIN seq :
          (IF e = {} THEN s ELSE sync(iter[e \ {Max(e)}], seq[Max(e)]))
            = IF e = {} THEN s ELSE Round(c, iter[e \ {Max(e)}], seq[Max(e)])
    BY <1>3, Zenon
  <2>5. QED BY <2>3, <2>4, Zenon DEF IsLoop
<1> HIDE DEF iter
<1>7. Synced(s, N, iter[DOMAIN seq])
  <2>1. \A x : \A k \in Nat : k + 1 <= N /\ Holds(c, k, x) => Holds(c, k + 1, Round(c, x, seq[k + 1]))
    BY <1>3, <1>4, SyncSynced, Zenon
  <2>2. Holds(c, 0, s) BY <1>4, <1>5, Zenon
  <2> HIDE DEF seq
  <2>3. Holds(c, N, iter[DOMAIN seq]) BY <1>1, <1>6, <2>1, <2>2, LoopKeeps, Zenon
  <2>4. QED BY <1>4, <2>3, Zenon
<1>8. QED BY <1>2, <1>7, Zenon DEF N

\* block_cache_sync_all leaves nothing marked, unless the call has failed.
LEMMA SyncAllClean ==
  ASSUME NEW s, Coherent(s)
  PROVE  LET r == block_cache_sync_all(s)
         IN  Coherent(r) /\ (r.status = "ok" => r.modified = {})
<1> DEFINE r == block_cache_sync_all(s)
<1>1. CASE s.status # "ok" BY <1>1, Zenon DEF block_cache_sync_all
<1>2. CASE s.status = "ok"
  <2>1. /\ Coherent(r) /\ r.queue = s.queue
        /\ \A k \in 1 .. Len(s.queue) : s.queue[k] \notin r.modified
    BY <1>2, SyncAllSynced, Zenon DEF Synced
  <2> HIDE DEF r
  <2>2. Queued(r.queue, DOMAIN r.cache) /\ r.modified \subseteq DOMAIN r.cache
    BY <2>1, Zenon DEF Coherent, Backed
  <2>3. DOMAIN r.queue = 1 .. Len(r.queue) BY <2>2 DEF Queued
  <2>4. r.modified = {} BY <2>1, <2>2, <2>3 DEF Queued
  <2>5. QED BY <2>1, <2>4, Zenon DEF r
<1>3. QED BY <1>1, <1>2, Zenon

----------------------------------------------------------------------------
(* Bitmaps.                                                                *)

\* No reference is held while the file system itself looks into a bitmap.
LEMMA HeldOne == One({}) /\ \A b : One({b})
<1>1. {} \subseteq {1} BY Zenon
<1>2. QED BY <1>1, Zenon DEF One

\* One bitmap block is searched.
LEMMA FirstFreeCoherent ==
  ASSUME NEW s, NEW b, NEW j, NEW held, Coherent(s), Few(held)
  PROVE  Coherent(FirstFree(Mark(s, b, held), b, j).s)
<1> DEFINE m == Mark(s, b, held)
           free == (0 .. BLOCK_BITS - 1) \ Read(m, b)
           r == modify(m, b, Read(m, b) \union {Min(free)})
<1>1. FirstFree(m, b, j).s \in {m, r} BY Zenon DEF FirstFree
<1>2. Coherent(m) /\ (m.status = "ok" => b \in DOMAIN m.cache) BY MarkCoherent, Zenon
<1> HIDE DEF m, free
<1>3. Coherent(r) BY <1>2, ModifyCoherent, Zenon
<1> HIDE DEF r
<1>4. QED BY <1>1, <1>2, <1>3, Zenon DEF m

\* Bitmap::alloc.
LEMMA BitmapAllocCoherent ==
  ASSUME NEW s, NEW start, NEW blocks, NEW held, Coherent(s), Few(held)
  PROVE  Coherent(bitmap_alloc(s, start, blocks, held).s)
<1> DEFINE c    == <<"bitmap", start, held>>
           base == [s |-> s, bit |-> None]
           seq  == Upto(0, blocks)
           body(x, i) == IF x.bit # None THEN x
                         ELSE FirstFree(Mark(x.s, start + i, held), start + i, i)
           iter == CHOOSE f : f = [e \in SUBSET DOMAIN seq |->
                     IF e = {} THEN base ELSE body(f[e \ {Max(e)}], seq[Max(e)])]
<1>1. PICK N \in Nat : DOMAIN seq = 1 .. N BY UptoDomain, Zenon
<1>2. bitmap_alloc(s, start, blocks, held) = iter[DOMAIN seq] BY Zenon DEF bitmap_alloc, FoldLeft, MapThenFoldSet
<1>3. \A x, i : Round(c, x, i) = body(x, i) BY DEF Round
<1>4. ASSUME NEW x, NEW i, Coherent(x.s) PROVE Coherent(body(x, i).s)
  BY <1>4, FirstFreeCoherent, Zenon
<1>5. \A k, x : Holds(c, k, x) <=> Coherent(x.s) BY Zenon DEF Holds
<1>6. Coherent(base.s) BY Zenon
<1> HIDE DEF c, seq, base, body
<1>7. IsLoop(c, base, seq, iter)
  <2>1. PICK f : IsLoop(c, base, seq, f) BY <1>1, LoopExists, Zenon
  <2>2. f = [e \in SUBSET DOMAIN seq |->
               IF e = {} THEN base ELSE body(f[e \ {Max(e)}], seq[Max(e)])]
    BY <1>3, <2>1, Zenon DEF IsLoop
  <2>3. iter = [e \in SUBSET DOMAIN seq |->
                  IF e = {} THEN base ELSE body(iter[e \ {Max(e)}], seq[Max(e)])]
    BY <2>2, Zenon
  <2> HIDE DEF iter
  <2>4. QED BY <1>3, <2>3, Zenon DEF IsLoop
<1> HIDE DEF iter
<1>8. Coherent(iter[DOMAIN seq].s)
  <2>1. \A x : \A k \in Nat : k + 1 <= N /\ Holds(c, k, x) => Holds(c, k + 1, Round(c, x, seq[k + 1]))
    BY <1>3, <1>4, <1>5, Zenon
  <2>2. Holds(c, 0, base) BY <1>5, <1>6, Zenon
  <2>3. Holds(c, N, iter[DOMAIN seq]) BY <1>1, <1>7, <2>1, <2>2, LoopKeeps, Zenon
  <2>4. QED BY <1>5, <2>3, Zenon
<1>9. QED BY <1>2, <1>8, Zenon

\* Bitmap::dealloc.
LEMMA BitmapDeallocCoherent ==
  ASSUME NEW s, NEW start, NEW bit, NEW held, Coherent(s), Few(held)
  PROVE  Coherent(bitmap_dealloc(s, start, bit, held))
<1> DEFINE b == start + bit \div BLOCK_BITS
           k == bit % BLOCK_BITS
           m == Mark(s, b, held)
<1>1. bitmap_dealloc(s, start, bit, held) = ClearBit(m, b, k) BY Zenon DEF bitmap_dealloc
<1> HIDE DEF b, k
<1>2. Coherent(m) /\ (m.status = "ok" => b \in DOMAIN m.cache) BY MarkCoherent, Zenon
<1> HIDE DEF m
<1>3. Coherent(panic(m, "assert")) BY <1>2, PanicCoherent, Zenon
<1>4. Coherent(modify(m, b, Read(m, b) \ {k})) BY <1>2, ModifyCoherent, Zenon
<1>5. QED BY <1>1, <1>3, <1>4, Zenon DEF ClearBit

\* EasyFileSystem::alloc_inode and alloc_data.
LEMMA AllocCoherent ==
  ASSUME NEW s, NEW held, Coherent(s), Few(held)
  PROVE  Coherent(alloc_inode(s, held).s) /\ Coherent(alloc_data(s, held).s)
<1>1. ASSUME NEW g, NEW base, Coherent(g.s) PROVE Coherent(Unwrapped(g, base).s)
  <2>1. Coherent(panic(g.s, "full")) BY <1>1, PanicCoherent, Zenon
  <2>2. QED BY <1>1, <2>1, Zenon DEF Unwrapped
<1>2. QED BY <1>1, BitmapAllocCoherent, Zenon DEF alloc_inode, alloc_data

\* EasyFileSystem::dealloc_data.
LEMMA DeallocCoherent ==
  ASSUME NEW s, NEW b, NEW held, Coherent(s), Few(held)
  PROVE  Coherent(dealloc_data(s, b, held))
<1> DEFINE r == get_block_cache(s, b, held)
           m == modify(r, b, ZeroBlock)
<1>1. dealloc_data(s, b, held)
        = bitmap_dealloc(m, data_bitmap_start, b - data_area_start_block, held)
  BY Zenon DEF dealloc_data
<1>2. Coherent(r) /\ (r.status = "ok" => b \in DOMAIN r.cache) BY GetCoherent, Zenon
<1> HIDE DEF r
<1>3. Coherent(m) BY <1>2, ModifyCoherent, Zenon
<1> HIDE DEF m
<1>4. QED BY <1>1, <1>3, BitmapDeallocCoherent, Zenon

----------------------------------------------------------------------------
(* Inodes.                                                                 *)

\* Inode::read_disk_inode.
LEMMA DiskInodeCoherent ==
  ASSUME NEW s, NEW id, Coherent(s)
  PROVE  LET d == DiskInode(s, id)
         IN  Coherent(d.s) /\ d.s.modified \subseteq s.modified /\ One(d.held)
<1>1. Few({}) BY HeldOne, OneFew, Zenon
<1>2. /\ DiskInode(s, id).s = get_block_cache(s, InodeBlock(id), {})
      /\ DiskInode(s, id).held = {InodeBlock(id)}
  BY Zenon DEF DiskInode, Loaded
<1> DEFINE r == get_block_cache(s, InodeBlock(id), {})
<1>3. Coherent(r) /\ r.modified \subseteq s.modified BY <1>1, GetCoherent, Zenon
<1>4. One({InodeBlock(id)}) BY HeldOne, Zenon
<1> HIDE DEF r
<1>5. QED BY <1>2, <1>3, <1>4, Zenon DEF r

\* Inode::modify_disk_inode writes the inode.
LEMMA SetInodeCoherent ==
  ASSUME NEW s, NEW id, NEW inode, Coherent(s)
  PROVE  Coherent(SetInode(s, id, inode))
<1>1. Few({}) BY HeldOne, OneFew, Zenon
<1>2. SetInode(s, id, inode) = SetEntry(s, InodeBlock(id), InodeSlot(id), inode, {})
  BY Zenon DEF SetInode, SetEntry
<1>3. QED BY <1>1, <1>2, SetEntryCoherent, Zenon

\* The blocks for a file that grows.
LEMMA NewBlocksCoherent ==
  ASSUME NEW s, NEW inode, NEW new_size, NEW held, Coherent(s), One(held),
         ~(new_size < inode.size \/ s.status # "ok")
  PROVE  Coherent(grow(s, inode, new_size, held).s)
<1> DEFINE c    == <<"grow", held>>
           base == [s |-> s, ids |-> <<>>]
           seq  == Upto(0, total_blocks(new_size) - total_blocks(inode.size))
           body(x, i) == WithBlock(x, alloc_data(x.s, held))
           iter == CHOOSE f : f = [e \in SUBSET DOMAIN seq |->
                     IF e = {} THEN base ELSE body(f[e \ {Max(e)}], seq[Max(e)])]
<1>1. PICK N \in Nat : DOMAIN seq = 1 .. N BY UptoDomain, Zenon
<1>2. grow(s, inode, new_size, held) = Enlarged(iter[DOMAIN seq], inode, new_size, held)
  BY Zenon DEF grow, FoldLeft, MapThenFoldSet
<1>3. \A x, i : Round(c, x, i) = body(x, i) BY Zenon DEF Round
<1>4. ASSUME NEW x, NEW i, Coherent(x.s) PROVE Coherent(body(x, i).s)
  BY <1>4, OneFew, AllocCoherent, Zenon DEF WithBlock
<1>5. \A k, x : Holds(c, k, x) <=> Coherent(x.s) BY Zenon DEF Holds
<1>6. Coherent(base.s) BY Zenon
<1> HIDE DEF c, seq, base, body
<1>7. IsLoop(c, base, seq, iter)
  <2>1. PICK f : IsLoop(c, base, seq, f) BY <1>1, LoopExists, Zenon
  <2>2. f = [e \in SUBSET DOMAIN seq |->
               IF e = {} THEN base ELSE body(f[e \ {Max(e)}], seq[Max(e)])]
    BY <1>3, <2>1, Zenon DEF IsLoop
  <2>3. iter = [e \in SUBSET DOMAIN seq |->
                  IF e = {} THEN base ELSE body(iter[e \ {Max(e)}], seq[Max(e)])]
    BY <2>2, Zenon
  <2> HIDE DEF iter
  <2>4. \A e \in SUBSET DOMAIN seq :
          (IF e = {} THEN base ELSE body(iter[e \ {Max(e)}], seq[Max(e)]))
            = IF e = {} THEN base ELSE Round(c, iter[e \ {Max(e)}], seq[Max(e)])
    BY <1>3, Zenon
  <2>5. QED BY <2>3, <2>4, Zenon DEF IsLoop
<1> HIDE DEF iter
<1>8. Coherent(iter[DOMAIN seq].s)
  <2>1. \A x : \A k \in Nat : k + 1 <= N /\ Holds(c, k, x) => Holds(c, k + 1, Round(c, x, seq[k + 1]))
    BY <1>3, <1>4, <1>5, Zenon
  <2>2. Holds(c, 0, base) BY <1>5, <1>6, Zenon
  <2>3. Holds(c, N, iter[DOMAIN seq]) BY <1>1, <1>7, <2>1, <2>2, LoopKeeps, Zenon
  <2>4. QED BY <1>5, <2>3, Zenon
<1>9. QED BY <1>2, <1>8, IncreaseCoherent DEF Enlarged

\* Inode::increase_size.
LEMMA GrowCoherent ==
  ASSUME NEW s, NEW inode, NEW new_size, NEW held, Coherent(s), One(held)
  PROVE  Coherent(grow(s, inode, new_size, held).s)
<1>1. CASE new_size < inode.size \/ s.status # "ok" BY <1>1, Zenon DEF grow
<1>2. CASE ~(new_size < inode.size \/ s.status # "ok") BY <1>2, NewBlocksCoherent, Zenon
<1>3. QED BY <1>1, <1>2, Zenon

\* A cache that only was read stays clean when the inode is looked up.
LEMMA DiskInodeClean ==
  ASSUME NEW s, NEW id, Clean(s)
  PROVE  Clean(DiskInode(s, id).s) /\ One(DiskInode(s, id).held)
<1>1. /\ Coherent(DiskInode(s, id).s) /\ DiskInode(s, id).s.modified \subseteq s.modified
      /\ One(DiskInode(s, id).held)
  BY DiskInodeCoherent, Zenon DEF Clean
<1>2. QED BY <1>1, Zenon DEF Clean

\* One entry of the directory is compared.
LEMMA MatchedClean ==
  ASSUME NEW e, NEW name, Clean(e.s)
  PROVE  Answer(Matched(e, name))
<1>1. Clean(panic(e.s, "assert")) BY PanicCoherent, Zenon DEF Clean
<1>2. QED BY <1>1, Zenon DEF Matched, Answer

\* Inode::find_inode_id.
LEMMA FindIdClean ==
  ASSUME NEW s, NEW inode, NEW name, NEW held, Clean(s), One(held)
  PROVE  Answer(find_inode_id(s, inode, name, held))
<1> DEFINE c    == <<"find", inode, name, held>>
           base == [s |-> s, id |-> None]
           seq  == Upto(0, inode.size \div DIRENT_SZ)
           body(x, i) == IF x.id # None \/ x.s.status # "ok" THEN x
                         ELSE Matched(read_at(x.s, inode, DIRENT_SZ * i, DIRENT_SZ, held), name)
           iter == CHOOSE f : f = [e \in SUBSET DOMAIN seq |->
                     IF e = {} THEN base ELSE body(f[e \ {Max(e)}], seq[Max(e)])]
<1>1. PICK N \in Nat : DOMAIN seq = 1 .. N BY UptoDomain, Zenon
<1>2. find_inode_id(s, inode, name, held) = iter[DOMAIN seq] BY Zenon DEF find_inode_id, FoldLeft, MapThenFoldSet
<1>3. \A x, i : Round(c, x, i) = body(x, i) BY DEF Round
<1>4. ASSUME NEW x, NEW i, Answer(x) PROVE Answer(body(x, i))
  BY <1>4, ReadAtClean, MatchedClean, Zenon DEF Answer
<1>5. \A k, x : Holds(c, k, x) <=> Answer(x) BY Zenon DEF Holds
<1>6. Answer(base) BY Zenon DEF Answer
<1> HIDE DEF c, seq, base, body
<1>7. IsLoop(c, base, seq, iter)
  <2>1. PICK f : IsLoop(c, base, seq, f) BY <1>1, LoopExists, Zenon
  <2>2. f = [e \in SUBSET DOMAIN seq |->
               IF e = {} THEN base ELSE body(f[e \ {Max(e)}], seq[Max(e)])]
    BY <1>3, <2>1, Zenon DEF IsLoop
  <2>3. iter = [e \in SUBSET DOMAIN seq |->
                  IF e = {} THEN base ELSE body(iter[e \ {Max(e)}], seq[Max(e)])]
    BY <2>2, Zenon
  <2> HIDE DEF iter
  <2>4. QED BY <1>3, <2>3, Zenon DEF IsLoop
<1> HIDE DEF iter
<1>8. Answer(iter[DOMAIN seq])
  <2>1. \A x : \A k \in Nat : k + 1 <= N /\ Holds(c, k, x) => Holds(c, k + 1, Round(c, x, seq[k + 1]))
    BY <1>3, <1>4, <1>5, Zenon
  <2>2. Holds(c, 0, base) BY <1>5, <1>6, Zenon
  <2>3. Holds(c, N, iter[DOMAIN seq]) BY <1>1, <1>7, <2>1, <2>2, LoopKeeps, Zenon
  <2>4. QED BY <1>5, <2>3, Zenon
<1>9. QED BY <1>2, <1>8, Zenon

\* Inode::find.
LEMMA FindClean ==
  ASSUME NEW s, NEW name, Clean(s)
  PROVE  Answer(find(s, name))
BY DiskInodeClean, FindIdClean, Zenon DEF find, FindIn

\* The entries of the directory, for Inode::ls.
LEMMA NamesInClean ==
  ASSUME NEW root, Clean(root.s), One(root.held)
  PROVE  Clean(NamesIn(root).s)
<1> DEFINE c    == <<"names", root>>
           base == [s |-> root.s, names |-> <<>>]
           seq  == Upto(0, root.inode.size \div DIRENT_SZ)
           body(x, i) == WithName(x, read_at(x.s, root.inode, DIRENT_SZ * i, DIRENT_SZ, root.held))
           iter == CHOOSE f : f = [e \in SUBSET DOMAIN seq |->
                     IF e = {} THEN base ELSE body(f[e \ {Max(e)}], seq[Max(e)])]
<1>1. PICK N \in Nat : DOMAIN seq = 1 .. N BY UptoDomain, Zenon
<1>2. NamesIn(root) = iter[DOMAIN seq] BY Zenon DEF NamesIn, FoldLeft, MapThenFoldSet
<1>3. \A x, i : Round(c, x, i) = body(x, i) BY DEF Round
<1>4. ASSUME NEW x, NEW i, Clean(x.s) PROVE Clean(body(x, i).s)
  BY <1>4, ReadAtClean, Zenon DEF WithName
<1>5. \A k, x : Holds(c, k, x) <=> Clean(x.s) BY Zenon DEF Holds
<1>6. Clean(base.s) BY Zenon
<1> HIDE DEF c, seq, base, body
<1>7. IsLoop(c, base, seq, iter)
  <2>1. PICK f : IsLoop(c, base, seq, f) BY <1>1, LoopExists, Zenon
  <2>2. f = [e \in SUBSET DOMAIN seq |->
               IF e = {} THEN base ELSE body(f[e \ {Max(e)}], seq[Max(e)])]
    BY <1>3, <2>1, Zenon DEF IsLoop
  <2>3. iter = [e \in SUBSET DOMAIN seq |->
                  IF e = {} THEN base ELSE body(iter[e \ {Max(e)}], seq[Max(e)])]
    BY <2>2, Zenon
  <2> HIDE DEF iter
  <2>4. QED BY <1>3, <2>3, Zenon DEF IsLoop
<1> HIDE DEF iter
<1>8. Clean(iter[DOMAIN seq].s)
  <2>1. \A x : \A k \in Nat : k + 1 <= N /\ Holds(c, k, x) => Holds(c, k + 1, Round(c, x, seq[k + 1]))
    BY <1>3, <1>4, <1>5, Zenon
  <2>2. Holds(c, 0, base) BY <1>5, <1>6, Zenon
  <2>3. Holds(c, N, iter[DOMAIN seq]) BY <1>1, <1>7, <2>1, <2>2, LoopKeeps, Zenon
  <2>4. QED BY <1>5, <2>3, Zenon
<1>9. QED BY <1>2, <1>8, Zenon

\* Inode::ls.
LEMMA LsClean ==
  ASSUME NEW s, Clean(s)
  PROVE  Clean(ls(s).s)
BY DiskInodeClean, NamesInClean, Zenon DEF ls

\* Inode::read_at.
LEMMA InodeReadClean ==
  ASSUME NEW s, NEW id, NEW offset, NEW n, Clean(s)
  PROVE  Clean(inode_read_at(s, id, offset, n).s)
BY DiskInodeClean, ReadAtClean, Zenon DEF inode_read_at, ReadInode

\* OSInode::read_all.
LEMMA ReadAllClean ==
  ASSUME NEW s, NEW id, Clean(s)
  PROVE  Clean(read_all(s, id).s)
<1> DEFINE c    == <<"all", id>>
           base == [s |-> s, buf |-> <<>>]
           seq  == Upto(0, data_blocks(DiskInode(s, id).inode.size) + 1)
           body(x, i) == WithPart(x, inode_read_at(x.s, id, Len(x.buf), BLOCK_SZ))
           iter == CHOOSE f : f = [e \in SUBSET DOMAIN seq |->
                     IF e = {} THEN base ELSE body(f[e \ {Max(e)}], seq[Max(e)])]
<1>1. PICK N \in Nat : DOMAIN seq = 1 .. N BY UptoDomain, Zenon
<1>2. read_all(s, id) = iter[DOMAIN seq] BY Zenon DEF read_all, FoldLeft, MapThenFoldSet
<1>3. \A x, i : Round(c, x, i) = body(x, i) BY Zenon DEF Round
<1>4. ASSUME NEW x, NEW i, Clean(x.s) PROVE Clean(body(x, i).s)
  BY <1>4, InodeReadClean, Zenon DEF WithPart
<1>5. \A k, x : Holds(c, k, x) <=> Clean(x.s) BY Zenon DEF Holds
<1>6. Clean(base.s) BY Zenon
<1> HIDE DEF c, seq, base, body
<1>7. IsLoop(c, base, seq, iter)
  <2>1. PICK f : IsLoop(c, base, seq, f) BY <1>1, LoopExists, Zenon
  <2>2. f = [e \in SUBSET DOMAIN seq |->
               IF e = {} THEN base ELSE body(f[e \ {Max(e)}], seq[Max(e)])]
    BY <1>3, <2>1, Zenon DEF IsLoop
  <2>3. iter = [e \in SUBSET DOMAIN seq |->
                  IF e = {} THEN base ELSE body(iter[e \ {Max(e)}], seq[Max(e)])]
    BY <2>2, Zenon
  <2> HIDE DEF iter
  <2>4. QED BY <1>3, <2>3, Zenon DEF IsLoop
<1> HIDE DEF iter
<1>8. Clean(iter[DOMAIN seq].s)
  <2>1. \A x : \A k \in Nat : k + 1 <= N /\ Holds(c, k, x) => Holds(c, k + 1, Round(c, x, seq[k + 1]))
    BY <1>3, <1>4, <1>5, Zenon
  <2>2. Holds(c, 0, base) BY <1>5, <1>6, Zenon
  <2>3. Holds(c, N, iter[DOMAIN seq]) BY <1>1, <1>7, <2>1, <2>2, LoopKeeps, Zenon
  <2>4. QED BY <1>5, <2>3, Zenon
<1>9. QED BY <1>2, <1>8, Zenon

\* The blocks of a file that is cleared.
LEMMA FreedCoherent ==
  ASSUME NEW d, NEW e, NEW id, Coherent(e.s), One(d.held),
         Len(e.ids) = total_blocks(d.inode.size)
  PROVE  Coherent(Freed(d, e, id))
<1> DEFINE c    == <<"free", e, d>>
           base == e.s
           seq  == Upto(1, Len(e.ids) + 1)
           body(x, i) == IF x.status = "ok" THEN dealloc_data(x, e.ids[i], d.held) ELSE x
           iter == CHOOSE f : f = [z \in SUBSET DOMAIN seq |->
                     IF z = {} THEN base ELSE body(f[z \ {Max(z)}], seq[Max(z)])]
<1>1. PICK N \in Nat : DOMAIN seq = 1 .. N BY UptoDomain, Zenon
<1>2. Freed(d, e, id) = SetInode(iter[DOMAIN seq], id, e.inode)
  BY Zenon DEF Freed, FoldLeft, MapThenFoldSet
<1>3. \A x, i : Round(c, x, i) = body(x, i) BY DEF Round
<1>4. ASSUME NEW x, NEW i, Coherent(x) PROVE Coherent(body(x, i))
  BY <1>4, OneFew, DeallocCoherent, Zenon
<1>5. \A k, x : Holds(c, k, x) <=> Coherent(x) BY Zenon DEF Holds
<1>6. Coherent(base) BY Zenon
<1> HIDE DEF c, seq, base, body
<1>7. IsLoop(c, base, seq, iter)
  <2>1. PICK f : IsLoop(c, base, seq, f) BY <1>1, LoopExists, Zenon
  <2>2. f = [z \in SUBSET DOMAIN seq |->
               IF z = {} THEN base ELSE body(f[z \ {Max(z)}], seq[Max(z)])]
    BY <1>3, <2>1, Zenon DEF IsLoop
  <2>3. iter = [z \in SUBSET DOMAIN seq |->
                  IF z = {} THEN base ELSE body(iter[z \ {Max(z)}], seq[Max(z)])]
    BY <2>2, Zenon
  <2> HIDE DEF iter
  <2>4. QED BY <1>3, <2>3, Zenon DEF IsLoop
<1> HIDE DEF iter
<1>8. Coherent(iter[DOMAIN seq])
  <2>1. \A x : \A k \in Nat : k + 1 <= N /\ Holds(c, k, x) => Holds(c, k + 1, Round(c, x, seq[k + 1]))
    BY <1>3, <1>4, <1>5, Zenon
  <2>2. Holds(c, 0, base) BY <1>5, <1>6, Zenon
  <2>3. Holds(c, N, iter[DOMAIN seq]) BY <1>1, <1>7, <2>1, <2>2, LoopKeeps, Zenon
  <2>4. QED BY <1>5, <2>3, Zenon
<1>9. QED BY <1>2, <1>8, SetInodeCoherent, Zenon

\* Inode::clear, with the cache written back.
LEMMA ClearClean ==
  ASSUME NEW s, NEW id, Coherent(s)
  PROVE  Coherent(clear(s, id)) /\ (clear(s, id).status = "ok" => clear(s, id).modified = {})
<1> DEFINE d == DiskInode(s, id)
           e == clear_size(d.s, d.inode, d.held)
           f == Freed(d, e, id)
<1>1. clear(s, id) = block_cache_sync_all(f) BY Zenon DEF clear, ClearIn
<1>2. Coherent(d.s) /\ One(d.held) BY DiskInodeCoherent, Zenon
<1> HIDE DEF d
<1>3. Coherent(e.s) BY <1>2, ClearSizeCoherent, Zenon
<1> HIDE DEF e
<1>4. Coherent(f)
  <2>1. CASE Len(e.ids) # total_blocks(d.inode.size)
    <3>1. f = panic(e.s, "assert") BY <2>1, Zenon DEF Freed
    <3>2. QED BY <1>3, <3>1, PanicCoherent, Zenon
  <2>2. CASE Len(e.ids) = total_blocks(d.inode.size) BY <1>2, <1>3, <2>2, FreedCoherent, Zenon
  <2>3. QED BY <2>1, <2>2, Zenon
<1> HIDE DEF f
<1>5. QED BY <1>1, <1>4, SyncAllClean, Zenon

\* Inode::create, with the cache written back.
LEMMA CreateClean ==
  ASSUME NEW s, NEW name, Coherent(s)
  PROVE  LET r == create(s, name).s
         IN  Coherent(r) /\ (r.status = "ok" => r.modified = {})
<1> DEFINE a == alloc_inode(s, {})
           n == NewInode(a)
           root == DiskInode(n.s, 0)
           k == root.inode.size \div DIRENT_SZ
           big == grow(root.s, root.inode, (k + 1) * DIRENT_SZ, root.held)
           w == SetInode(write_at(big.s, big.inode, k * DIRENT_SZ, <<name, n.id>>, root.held), 0, big.inode)
<1>1. \/ n.s.status # "ok" /\ create(s, name).s = n.s
      \/ big.s.status # "ok" /\ create(s, name).s = big.s
      \/ create(s, name).s = block_cache_sync_all(w)
  <2> HIDE DEF n
  <2>1. create(s, name) = Linked(n, name) BY Zenon DEF create, n
  <2>2. n.s.status # "ok" => Linked(n, name).s = n.s BY Zenon DEF Linked
  <2>3. n.s.status = "ok" => Linked(n, name) = SetEntryOf(big, k, name, n.id, root.held)
    BY Zenon DEF Linked, AddEntry
  <2> HIDE DEF big, root, k
  <2>4. /\ big.s.status # "ok" => SetEntryOf(big, k, name, n.id, root.held).s = big.s
        /\ big.s.status = "ok" => SetEntryOf(big, k, name, n.id, root.held).s = block_cache_sync_all(w)
    BY Zenon DEF SetEntryOf
  <2>5. QED BY <2>1, <2>2, <2>3, <2>4, Zenon
<1>2. Coherent(n.s)
  <2>1. Few({}) BY HeldOne, OneFew, Zenon
  <2>2. Coherent(a.s) BY <2>1, AllocCoherent, Zenon
  <2>3. {"s"} \subseteq DOMAIN a BY Zenon DEF alloc_inode, Unwrapped
  <2>4. Coherent(SetInode(DiskInode(a.s, a.id).s, a.id, initialize("File")))
    BY <2>2, DiskInodeCoherent, SetInodeCoherent, Zenon
  <2> HIDE DEF a
  <2>5. n.s = IF a.s.status # "ok" THEN a.s
              ELSE SetInode(DiskInode(a.s, a.id).s, a.id, initialize("File"))
    BY <2>3, Zenon DEF NewInode
  <2>6. QED BY <2>2, <2>4, <2>5, Zenon
<1> HIDE DEF n, a
<1>3. Coherent(root.s) /\ One(root.held) BY <1>2, DiskInodeCoherent, Zenon
<1> HIDE DEF root, k
<1>4. Coherent(big.s) BY <1>3, GrowCoherent, Zenon
<1> HIDE DEF big
<1>5. Coherent(w) BY <1>3, <1>4, WriteAtCoherent, SetInodeCoherent, Zenon
<1> HIDE DEF w
<1>6. Coherent(block_cache_sync_all(w))
      /\ (block_cache_sync_all(w).status = "ok" => block_cache_sync_all(w).modified = {})
  BY <1>5, SyncAllClean, Zenon
<1>7. QED BY <1>1, <1>2, <1>4, <1>6, Zenon

\* Inode::write_at, with the cache written back.
LEMMA InodeWriteClean ==
  ASSUME NEW s, NEW id, NEW offset, NEW buf, Coherent(s)
  PROVE  LET r == inode_write_at(s, id, offset, buf)
         IN  Coherent(r) /\ (r.status = "ok" => r.modified = {})
<1> DEFINE d == DiskInode(s, id)
           big == grow(d.s, d.inode, offset + Len(buf), d.held)
           w == PutIn(big, id, offset, buf, d.held)
<1>1. inode_write_at(s, id, offset, buf) = block_cache_sync_all(w)
  BY Zenon DEF inode_write_at, WriteInode
<1>2. Coherent(d.s) /\ One(d.held) BY DiskInodeCoherent, Zenon
<1> HIDE DEF d
<1>3. Coherent(big.s) BY <1>2, GrowCoherent, Zenon
<1> HIDE DEF big
<1>4. Coherent(w)
  <2>1. Coherent(SetInode(write_at(big.s, big.inode, offset, buf, d.held), id, big.inode))
    BY <1>2, <1>3, WriteAtCoherent, SetInodeCoherent, Zenon
  <2>2. QED BY <1>3, <2>1, Zenon DEF PutIn
<1> HIDE DEF w
<1>5. QED BY <1>1, <1>4, SyncAllClean, Zenon

\* open_file finds, creates or clears the file.
LEMMA OpenFileClean ==
  ASSUME NEW s, NEW name, NEW flags, Clean(s)
  PROVE  LET r == open_file(s, name, flags).s
         IN  Coherent(r) /\ (r.status = "ok" => r.modified = {})
<1> DEFINE f == find(s, name)
<1>1. Answer(f) BY FindClean, Zenon
<1>2. Found(f, name, flags) \in {f, create(f.s, name), [f EXCEPT !.s = clear(@, f.id)]}
  BY Zenon DEF Found
<1>3. open_file(s, name, flags) = Found(f, name, flags) BY Zenon DEF open_file
<1>4. [f EXCEPT !.s = clear(@, f.id)].s = clear(f.s, f.id) BY <1>1, Zenon DEF Answer
<1>5. QED BY <1>1, <1>2, <1>3, <1>4, CreateClean, ClearClean DEF Clean, Answer

----------------------------------------------------------------------------
(* Calls.                                                                  *)

\* A machine that starts has a clean cache.
LEMMA NewCacheClean ==
  ASSUME NEW disk
  PROVE  Clean(NewCache(disk)) /\ Clean(open(disk))
<1> DEFINE s == NewCache(disk)
<1>1. /\ DOMAIN s = Fields /\ s.queue = <<>> /\ s.cache = <<>> /\ s.disk = disk
      /\ s.modified = {} /\ s.status = "ok"
  BY Zenon DEF NewCache, Fields
<1> HIDE DEF s
<1>2. DOMAIN s.cache = {} BY <1>1
<1>3. Queued(<<>>, {}) BY FsAssumption DEF Queued
<1>4. Backed(s.cache, s.disk, s.modified) BY <1>1, <1>2, Zenon DEF Backed
<1>5. Clean(s) BY <1>1, <1>2, <1>3, <1>4, Zenon DEF Clean, Coherent
<1>6. Few({}) BY HeldOne, OneFew, Zenon
<1>7. Coherent(get_block_cache(s, 0, {})) /\ get_block_cache(s, 0, {}).modified \subseteq s.modified
  BY <1>5, <1>6, GetCoherent, Zenon DEF Clean
<1>8. Clean(get_block_cache(s, 0, {})) BY <1>1, <1>7, Zenon DEF Clean
<1>9. QED BY <1>5, <1>8, Zenon DEF open, s

\* However a call ends, the cache is clean afterwards.
LEMMA OutcomeClean ==
  ASSUME NEW s, NEW hs, NEW out, Coherent(s), s.status = "ok" => s.modified = {},
         Outcome(s, hs, out)
  PROVE  Clean(fs')
<1>1. CASE s.status = "ok" /\ fs' = [s EXCEPT !.log = <<>>]
  <2>1. /\ DOMAIN fs' = Fields /\ fs'.queue = s.queue /\ fs'.cache = s.cache /\ fs'.disk = s.disk
        /\ fs'.modified = s.modified /\ fs'.status = s.status
    BY <1>1, Zenon DEF Coherent, Fields
  <2>2. QED BY <1>1, <2>1, Zenon DEF Clean, Coherent
<1>2. CASE s.status # "ok" /\ fs' = [NewCache(s.disk) EXCEPT !.status = s.status]
  <2> DEFINE n == NewCache(s.disk)
  <2>1. Clean(n) BY NewCacheClean, Zenon
  <2> HIDE DEF n
  <2>2. fs' = [n EXCEPT !.status = s.status] BY <1>2, Zenon DEF n
  <2>3. /\ DOMAIN fs' = Fields /\ fs'.queue = n.queue /\ fs'.cache = n.cache /\ fs'.disk = n.disk
        /\ fs'.modified = n.modified /\ fs'.status = s.status
    BY <2>1, <2>2, Zenon DEF Clean, Coherent, Fields
  <2>4. QED BY <2>1, <2>3, Zenon DEF Clean, Coherent
<1>3. CASE \E k \in DOMAIN s.log : fs' = NewCache(Disk(s.log, k))
  BY <1>3, NewCacheClean, Zenon
<1>4. QED BY <1>1, <1>2, <1>3, Zenon DEF Outcome

\* The cache is clean in every state: the inductive invariant.
THEOREM CacheInvariant == Spec => []IInv
<1>1. Init => IInv BY NewCacheClean, Zenon DEF Init, IInv
<1>2. IInv /\ [Next]_vars => IInv'
  <2> SUFFICES ASSUME Clean(fs), [Next]_vars PROVE Clean(fs') BY Zenon DEF IInv
  <2>1. ASSUME NEW h \in Handle, NEW name \in Name, NEW flags \in Flags, sys_open(h, name, flags)
        PROVE  Clean(fs')
    <3> DEFINE o == open_file(fs, name, flags)
    <3>1. Coherent(o.s) /\ (o.s.status = "ok" => o.s.modified = {}) BY OpenFileClean, Zenon
    <3>2. OpenEnds(h, name, flags, o) BY <2>1, Zenon DEF sys_open
    <3> HIDE DEF o
    <3>3. QED BY <3>1, <3>2, OutcomeClean, Zenon DEF OpenEnds
  <2>2. ASSUME NEW h \in Handle, sys_close(h) PROVE Clean(fs')
    BY <2>2, Zenon DEF sys_close
  <2>3. ASSUME NEW h \in Handle, NEW n \in Count, sys_read(h, n) PROVE Clean(fs')
    <3> DEFINE r == inode_read_at(fs, handle[h].inode, handle[h].offset, n)
    <3>1. Clean(r.s) BY InodeReadClean, Zenon
    <3>2. ReadEnds(h, r) BY <2>3, Zenon DEF sys_read
    <3> HIDE DEF r
    <3>3. QED BY <3>1, <3>2, OutcomeClean, Zenon DEF ReadEnds, Clean
  <2>4. ASSUME NEW h \in Handle, NEW buf \in Buffer, sys_write(h, buf) PROVE Clean(fs')
    <3> DEFINE r == inode_write_at(fs, handle[h].inode, handle[h].offset, buf)
    <3>1. Coherent(r) /\ (r.status = "ok" => r.modified = {}) BY InodeWriteClean, Zenon DEF Clean
    <3>2. Outcome(r, [handle EXCEPT ![h].offset = @ + Len(buf)], <<Len(buf)>>)
      BY <2>4, Zenon DEF sys_write
    <3> HIDE DEF r
    <3>3. QED BY <3>1, <3>2, OutcomeClean, Zenon
  <2>5. ASSUME NEW name \in Name, sys_exec(name) PROVE Clean(fs')
    <3> DEFINE f == open_file(fs, name, {})
    <3>1. Coherent(f.s) /\ (f.s.status = "ok" => f.s.modified = {}) BY OpenFileClean, Zenon
    <3>2. ExecOpened(f) BY <2>5, Zenon DEF sys_exec
    <3>3. Clean(f.s)
      <4>1. f.s = find(fs, name).s BY Zenon DEF open_file, Found
      <4>2. QED BY <4>1, FindClean, Zenon DEF Answer
    <3> HIDE DEF f
    <3>4. Clean(read_all(f.s, f.id).s) BY <3>3, ReadAllClean, Zenon
    <3>5. QED BY <3>1, <3>2, <3>4, OutcomeClean, Zenon DEF ExecOpened, ExecReads, Clean
  <2>6. ASSUME restart PROVE Clean(fs')
    <3>1. fs' = ls(open(fs.disk)).s BY <2>6, Zenon DEF restart, Restarted
    <3>2. QED BY <3>1, NewCacheClean, LsClean, Zenon
  <2>7. CASE UNCHANGED vars BY <2>7, Zenon DEF vars
  <2>8. QED BY <2>1, <2>2, <2>3, <2>4, <2>5, <2>6, <2>7, Zenon DEF Next
<1>3. QED BY <1>1, <1>2, PTL DEF Spec

\* Between two calls, and after any crash, the cache agrees with the disk and
\* owes it nothing: every call that writes ends in block_cache_sync_all, and
\* an entry that get_block_cache drains is written back first.
THEOREM CacheStaysClean == Spec => []CacheClean
<1>1. IInv => CacheClean
  <2> SUFFICES ASSUME Clean(fs) PROVE CacheClean BY Zenon DEF IInv
  <2>1. Queued(fs.queue, DOMAIN fs.cache) /\ Backed(fs.cache, fs.disk, fs.modified) /\ fs.modified = {}
    BY Zenon DEF Clean, Coherent
  <2>2. \A i \in DOMAIN fs.queue : fs.queue[i] \in DOMAIN fs.cache BY <2>1 DEF Queued
  <2>3. {fs.queue[i] : i \in DOMAIN fs.queue} = DOMAIN fs.cache BY <2>1, <2>2 DEF Queued
  <2>4. QED BY <2>1, <2>3, Zenon DEF CacheClean, Queued, Backed
<1>2. QED BY <1>1, CacheInvariant, PTL

\* The panic of get_block_cache on a queue full of entries in use is never
\* reached: no call refers to more than two entries when it asks for one, so
\* three are enough for any disk and any file.
THEOREM CacheNeverRunsOut ==
  ASSUME BLOCK_CACHE_SIZE >= 3
  PROVE  Spec => []CacheSuffices
<1>1. IInv => CacheSuffices BY Zenon DEF IInv, Clean, Coherent, CacheSuffices
<1>2. QED BY <1>1, CacheInvariant, PTL
=============================================================================
