----------------------------- MODULE PipeProofs -----------------------------
(***************************************************************************)
(* The ring of a pipe is safe, and a pipe implements Channel, for any      *)
(* processes and threads, any size of the ring and of the chunks, and any  *)
(* bytes.                                                                  *)
(***************************************************************************)
EXTENDS Pipe, SequenceTheorems, TLAPS

----------------------------------------------------------------------------
(* What the operations of PipeRingBuffer do to the bytes in the ring.      *)

Ring == [arr : [0 .. N - 1 -> Nat], head : 0 .. N - 1, tail : 0 .. N - 1,
         status : {"Full", "Empty", "Normal"}]

\* A ring whose status tells a full one from an empty one.
GoodRing(r) ==
  /\ r \in Ring
  /\ r.head = r.tail <=> r.status # "Normal"

\* The index that (x + 1) % RING_BUFFER_SIZE of read_byte and write_byte gives.
Succ(x) == IF x + 1 = N THEN 0 ELSE x + 1

\* Incrementing an index modulo the size of the ring wraps it around.
LEMMA Wrap ==
  ASSUME NEW x \in 0 .. N - 1
  PROVE  (x + 1) % N = Succ(x) /\ Succ(x) \in 0 .. N - 1
<1>1. N \in Nat \ {0}
  BY PipeAssumption, Zenon DEF N
<1>2. CASE x + 1 = N
  BY <1>1, <1>2, SMT DEF Succ
<1>3. CASE x + 1 < N
  BY <1>1, <1>3, SMT DEF Succ
<1> QED
  BY <1>1, <1>2, <1>3, SMT

\* The bytes from h up to t, around the end of the array, and the place of the
\* i-th of them.
Dist(h, t) == IF t > h THEN t - h ELSE t + N - h
At(h, i)   == IF h + i - 1 < N THEN h + i - 1 ELSE h + i - 1 - N

\* A ring that is not empty has between one and all of its places filled.
LEMMA Distance ==
  ASSUME NEW h \in 0 .. N - 1, NEW t \in 0 .. N - 1
  PROVE  Dist(h, t) \in 1 .. N /\ (Dist(h, t) = N <=> h = t)
<1>1. N \in Nat \ {0}
  BY PipeAssumption, Zenon DEF N
<1> HIDE DEF N
<1> QED
  BY <1>1, SMT DEF Dist

\* The places from h on, and from the one after h on.
LEMMA Places ==
  ASSUME NEW h \in 0 .. N - 1
  PROVE  /\ \A i \in 1 .. N : At(h, i) \in 0 .. N - 1
         /\ At(h, 1) = h
         /\ \A i \in 1 .. N - 1 : At(Succ(h), i) = At(h, i + 1)
<1>1. N \in Nat \ {0}
  BY PipeAssumption, Zenon DEF N
<1> HIDE DEF N
<1>2. At(h, 1) = h /\ \A i \in 1 .. N : At(h, i) \in 0 .. N - 1
  BY <1>1, SMT DEF At
<1>3. \A i \in 1 .. N - 1 : At(Succ(h), i) = At(h, i + 1)
  BY <1>1, SMT DEF At, Succ
<1> QED
  BY <1>2, <1>3, Zenon

\* The tail is the place after the filled ones, and none of them.
LEMMA TailPlace ==
  ASSUME NEW h \in 0 .. N - 1, NEW t \in 0 .. N - 1, h # t
  PROVE  /\ At(h, Dist(h, t) + 1) = t
         /\ \A i \in 1 .. Dist(h, t) : At(h, i) # t
<1>1. N \in Nat \ {0}
  BY PipeAssumption, Zenon DEF N
<1> HIDE DEF N
<1> QED
  BY <1>1, SMT DEF At, Dist

\* Moving the tail puts one more between the indices.
LEMMA TailMoves ==
  ASSUME NEW h \in 0 .. N - 1, NEW t \in 0 .. N - 1
  PROVE  /\ h # t => Dist(h, Succ(t)) = Dist(h, t) + 1
         /\ h = t => Dist(h, Succ(t)) = 1
<1>1. N \in Nat \ {0}
  BY PipeAssumption, Zenon DEF N
<1> HIDE DEF N
<1> QED
  BY <1>1, SMT DEF Dist, Succ

\* Moving the head takes one away.
LEMMA HeadMoves ==
  ASSUME NEW h \in 0 .. N - 1, NEW t \in 0 .. N - 1
  PROVE  /\ Succ(h) # t => Dist(Succ(h), t) = Dist(h, t) - 1
         /\ Succ(h) = t => Dist(h, t) = 1
<1>1. N \in Nat \ {0}
  BY PipeAssumption, Zenon DEF N
<1> HIDE DEF N
<1> QED
  BY <1>1, SMT DEF Dist, Succ

\* How far a ring is filled: available_read and available_write of a good ring
\* add up to its size.
LEMMA Filled ==
  ASSUME NEW r, GoodRing(r)
  PROVE  /\ N \in Nat \ {0} /\ r.head \in 0 .. N - 1 /\ r.tail \in 0 .. N - 1
         /\ available_read(r) \in 0 .. N
         /\ available_write(r) = N - available_read(r)
         /\ available_read(r) = 0 => r.status = "Empty"
         /\ available_write(r) = 0 => r.status = "Full"
         /\ r.status = "Empty" => available_read(r) = 0 /\ r.head = r.tail
         /\ r.status # "Empty" => available_read(r) = Dist(r.head, r.tail)
         /\ r.status = "Full" => available_write(r) = 0 /\ r.head = r.tail
<1>1. N \in Nat \ {0} /\ r.head \in 0 .. N - 1 /\ r.tail \in 0 .. N - 1
  BY PipeAssumption, Zenon DEF N, GoodRing, Ring
<1>2. r.status \in {"Full", "Empty", "Normal"} /\ (r.head = r.tail <=> r.status # "Normal")
  BY Zenon DEF GoodRing, Ring
<1>3. /\ Dist(r.head, r.tail) \in 1 .. N
      /\ Dist(r.head, r.tail) = N <=> r.head = r.tail
  BY <1>1, Distance, Zenon
<1>4. r.status # "Empty" => available_read(r) = Dist(r.head, r.tail)
  BY Zenon DEF available_read, Dist
<1>5. CASE r.status = "Empty"
  BY <1>1, <1>2, <1>5 DEF available_read, available_write
<1>6. CASE r.status = "Full"
  BY <1>1, <1>2, <1>3, <1>4, <1>6 DEF available_write
<1>7. CASE r.status = "Normal"
  <2>1. available_read(r) = Dist(r.head, r.tail) /\ available_write(r) = N - available_read(r)
    BY <1>4, <1>7, Zenon DEF available_write
  <2>2. Dist(r.head, r.tail) # N
    BY <1>2, <1>3, <1>7, Zenon
  <2> QED BY <1>1, <1>3, <1>7, <2>1, <2>2
<1> QED
  BY <1>2, <1>5, <1>6, <1>7, Zenon

\* What the ring holds is a sequence of bytes.
LEMMA ContentIsSeq ==
  ASSUME NEW r, GoodRing(r)
  PROVE  /\ Content(r) \in Seq(Nat)
         /\ Len(Content(r)) = available_read(r)
         /\ \A i \in 1 .. available_read(r) : Content(r)[i] = r.arr[At(r.head, i)]
<1>1. /\ N \in Nat \ {0} /\ r.head \in 0 .. N - 1 /\ available_read(r) \in 0 .. N
  BY Filled, Zenon
<1>2. r.arr \in [0 .. N - 1 -> Nat]
  BY Zenon DEF GoodRing, Ring
<1>3. \A i \in 1 .. available_read(r) : r.arr[At(r.head, i)] \in Nat
  <2> TAKE i \in 1 .. available_read(r)
  <2>1. i \in 1 .. N
    BY <1>1
  <2>2. At(r.head, i) \in 0 .. N - 1
    BY <1>1, <2>1, Places, Zenon
  <2> QED BY <1>2, <2>2, Zenon
<1>4. Content(r) = [i \in 1 .. available_read(r) |-> r.arr[At(r.head, i)]]
  BY Zenon DEF Content, At
<1>5. Content(r) \in [1 .. available_read(r) -> Nat]
  BY <1>3, <1>4, Zenon
<1>6. Content(r) \in Seq(Nat) /\ Len(Content(r)) = available_read(r)
  BY <1>1, <1>5
<1> QED
  BY <1>4, <1>6, Zenon

\* read_byte of a ring that is not empty takes the first byte.
LEMMA ReadByte ==
  ASSUME NEW r, GoodRing(r), available_read(r) # 0
  PROVE  /\ GoodRing(read_byte(r))
         /\ available_read(read_byte(r)) = available_read(r) - 1
         /\ Content(r) # <<>>
         /\ Head(Content(r)) = r.arr[r.head]
         /\ Content(read_byte(r)) = Tail(Content(r))
<1> DEFINE q == read_byte(r)
           n == available_read(r)
<1>1. /\ N \in Nat \ {0} /\ r.head \in 0 .. N - 1 /\ r.tail \in 0 .. N - 1
      /\ n \in 0 .. N /\ n # 0 /\ n = Dist(r.head, r.tail) /\ r \in Ring
  <2>1. r.status # "Empty"
    BY Filled, Zenon
  <2> QED BY <2>1, Filled, Zenon DEF GoodRing
<1>2. /\ q = [r EXCEPT !.head = Succ(r.head),
                       !.status = IF Succ(r.head) = r.tail THEN "Empty" ELSE "Normal"]
      /\ Succ(r.head) \in 0 .. N - 1
  BY <1>1, Wrap, Zenon DEF read_byte
<1>3. /\ q \in Ring /\ q.arr = r.arr /\ q.tail = r.tail /\ q.head = Succ(r.head)
      /\ q.status = IF Succ(r.head) = r.tail THEN "Empty" ELSE "Normal"
  BY <1>1, <1>2, Zenon DEF Ring
<1> HIDE DEF q
<1>4. GoodRing(q)
  BY <1>3, Zenon DEF GoodRing
<1>5. available_read(q) = n - 1
  <2>1. CASE Succ(r.head) = r.tail
    <3>1. available_read(q) = 0
      BY <1>3, <2>1, Zenon DEF available_read
    <3>2. Dist(r.head, r.tail) = 1
      BY <1>1, <2>1, HeadMoves, Zenon
    <3> QED BY <1>1, <3>1, <3>2
  <2>2. CASE Succ(r.head) # r.tail
    <3>1. q.status # "Empty"
      BY <1>3, <2>2, Zenon
    <3>2. available_read(q) = Dist(Succ(r.head), r.tail)
      BY <1>3, <1>4, <3>1, Filled, Zenon
    <3>3. Dist(Succ(r.head), r.tail) = Dist(r.head, r.tail) - 1
      BY <1>1, <2>2, HeadMoves, Zenon
    <3> QED BY <1>1, <3>2, <3>3, Zenon
  <2> QED BY <2>1, <2>2, Zenon
<1>6. /\ Content(r) \in Seq(Nat) /\ Len(Content(r)) = n
      /\ Content(q) \in Seq(Nat) /\ Len(Content(q)) = n - 1
  BY <1>4, <1>5, ContentIsSeq, Zenon
<1> HIDE DEF n
<1>7. Content(r) # <<>> /\ Head(Content(r)) = r.arr[r.head]
  <2>1. 1 \in 1 .. n
    BY <1>1
  <2>2. Content(r)[1] = r.arr[At(r.head, 1)] /\ At(r.head, 1) = r.head
    BY <1>1, <2>1, ContentIsSeq, Places, Zenon DEF n
  <2> QED BY <1>1, <1>6, <2>2
<1>8. \A i \in 1 .. n - 1 : Content(q)[i] = Content(r)[i + 1]
  <2> TAKE i \in 1 .. n - 1
  <2>1. i + 1 \in 1 .. n /\ i \in 1 .. N - 1
    BY <1>1
  <2>2. Content(r)[i + 1] = r.arr[At(r.head, i + 1)]
    BY <2>1, ContentIsSeq, Zenon DEF n
  <2>3. Content(q)[i] = q.arr[At(q.head, i)]
    BY <1>4, <1>5, ContentIsSeq, Zenon
  <2>4. At(Succ(r.head), i) = At(r.head, i + 1)
    BY <1>1, <2>1, Places, Zenon
  <2> QED BY <1>3, <2>2, <2>3, <2>4, Zenon
<1>9. Content(q) = Tail(Content(r))
  <2>1. /\ Tail(Content(r)) \in Seq(Nat) /\ Len(Tail(Content(r))) = n - 1
        /\ \A i \in 1 .. n - 1 : Tail(Content(r))[i] = Content(r)[i + 1]
    BY <1>1, <1>6, <1>7
  <2>2. Len(Content(q)) = Len(Tail(Content(r)))
    BY <1>6, <2>1, Zenon
  <2>3. \A i \in 1 .. Len(Content(q)) : Content(q)[i] = Tail(Content(r))[i]
    BY <1>6, <1>8, <2>1, Zenon
  <2> QED BY <1>6, <2>1, <2>2, <2>3, SeqEqual, Zenon
<1> QED
  BY <1>4, <1>5, <1>7, <1>9, Zenon DEF q, n

\* write_byte to a ring that is not full puts the byte last.
LEMMA WriteByte ==
  ASSUME NEW r, GoodRing(r), available_write(r) # 0, NEW b \in Nat
  PROVE  /\ GoodRing(write_byte(r, b))
         /\ available_read(write_byte(r, b)) = available_read(r) + 1
         /\ Len(Content(r)) < N
         /\ Content(write_byte(r, b)) = Append(Content(r), b)
<1> DEFINE q == write_byte(r, b)
           n == available_read(r)
<1>1. /\ N \in Nat \ {0} /\ r.head \in 0 .. N - 1 /\ r.tail \in 0 .. N - 1
      /\ n \in 0 .. N /\ n # N /\ r \in Ring
      /\ r.status = "Empty" => n = 0 /\ r.head = r.tail
      /\ r.status # "Empty" => n = Dist(r.head, r.tail) /\ r.head # r.tail
  <2>1. n \in 0 .. N /\ available_write(r) = N - n /\ N \in Nat \ {0} /\ r.status # "Full"
    BY Filled, Zenon
  <2>2. n # N
    BY <2>1
  <2>3. r.status \in {"Full", "Empty", "Normal"} /\ (r.head = r.tail <=> r.status # "Normal")
    BY Zenon DEF GoodRing, Ring
  <2> QED BY <2>1, <2>2, <2>3, Filled, Zenon DEF GoodRing
<1>2. /\ q = [r EXCEPT !.arr[r.tail] = b, !.tail = Succ(r.tail),
                       !.status = IF Succ(r.tail) = r.head THEN "Full" ELSE "Normal"]
      /\ Succ(r.tail) \in 0 .. N - 1
  BY <1>1, Wrap, Zenon DEF write_byte
<1>3. /\ q \in Ring /\ q.arr = [r.arr EXCEPT ![r.tail] = b]
      /\ q.tail = Succ(r.tail) /\ q.head = r.head
      /\ q.status = IF Succ(r.tail) = r.head THEN "Full" ELSE "Normal"
  <2>1. [r.arr EXCEPT ![r.tail] = b] \in [0 .. N - 1 -> Nat]
    BY <1>1, Zenon DEF Ring
  <2> QED BY <1>1, <1>2, <2>1, Zenon DEF Ring
<1> HIDE DEF q
<1>4. GoodRing(q)
  BY <1>3, Zenon DEF GoodRing
<1>5. available_read(q) = n + 1
  <2>1. q.status # "Empty"
    BY <1>3, Zenon
  <2>2. available_read(q) = Dist(r.head, Succ(r.tail))
    BY <1>3, <1>4, <2>1, Filled, Zenon
  <2>3. CASE r.status = "Empty"
    <3>1. Dist(r.head, Succ(r.tail)) = 1
      BY <1>1, <2>3, TailMoves, Zenon
    <3> QED BY <1>1, <2>2, <2>3, <3>1
  <2>4. CASE r.status # "Empty"
    <3>1. r.head # r.tail /\ n = Dist(r.head, r.tail)
      BY <1>1, <2>4, Zenon
    <3>2. Dist(r.head, Succ(r.tail)) = Dist(r.head, r.tail) + 1
      BY <1>1, <3>1, TailMoves, Zenon
    <3> QED BY <2>2, <3>1, <3>2, Zenon
  <2> QED BY <2>3, <2>4, Zenon
<1>6. /\ Content(r) \in Seq(Nat) /\ Len(Content(r)) = n
      /\ Content(q) \in Seq(Nat) /\ Len(Content(q)) = n + 1
  BY <1>4, <1>5, ContentIsSeq, Zenon
<1> HIDE DEF n
<1>7. /\ At(r.head, n + 1) = r.tail
      /\ \A i \in 1 .. n : At(r.head, i) \in 0 .. N - 1 /\ At(r.head, i) # r.tail
  <2>1. CASE r.status = "Empty"
    BY <1>1, <2>1, Places
  <2>2. CASE r.status # "Empty"
    <3>1. r.head # r.tail /\ n = Dist(r.head, r.tail)
      BY <1>1, <2>2, Zenon
    <3>2. /\ At(r.head, Dist(r.head, r.tail) + 1) = r.tail
          /\ \A i \in 1 .. Dist(r.head, r.tail) : At(r.head, i) # r.tail
          /\ \A i \in 1 .. N : At(r.head, i) \in 0 .. N - 1
      BY <1>1, <3>1, Places, TailPlace, Zenon
    <3>3. \A i \in 1 .. n : i \in 1 .. N
      BY <1>1
    <3> QED BY <3>1, <3>2, <3>3, Zenon
  <2> QED BY <2>1, <2>2, Zenon
<1>8. \A i \in 1 .. n + 1 : Content(q)[i] = Append(Content(r), b)[i]
  <2> TAKE i \in 1 .. n + 1
  <2>1. Content(q)[i] = q.arr[At(q.head, i)] /\ q.head = r.head
    BY <1>3, <1>4, <1>5, ContentIsSeq, Zenon
  <2>2. CASE i = n + 1
    <3>1. q.arr[r.tail] = b
      BY <1>1, <1>3, Zenon DEF Ring
    <3>2. Append(Content(r), b)[n + 1] = b
      BY <1>1, <1>6
    <3> QED BY <1>7, <2>1, <2>2, <3>1, <3>2, Zenon
  <2>3. CASE i \in 1 .. n
    <3>1. q.arr[At(r.head, i)] = r.arr[At(r.head, i)]
      BY <1>1, <1>3, <1>7, <2>3, Zenon DEF Ring
    <3>2. Content(r)[i] = r.arr[At(r.head, i)]
      BY <2>3, ContentIsSeq, Zenon DEF n
    <3>3. Append(Content(r), b)[i] = Content(r)[i]
      BY <1>1, <1>6, <2>3
    <3> QED BY <2>1, <3>1, <3>2, <3>3, Zenon
  <2>4. i = n + 1 \/ i \in 1 .. n
    BY <1>1
  <2> QED BY <2>2, <2>3, <2>4, Zenon
<1>9. Content(q) = Append(Content(r), b)
  <2>1. Append(Content(r), b) \in Seq(Nat) /\ Len(Append(Content(r), b)) = n + 1
    BY <1>6
  <2>2. Len(Content(q)) = Len(Append(Content(r), b))
    BY <1>6, <2>1, Zenon
  <2>3. \A i \in 1 .. Len(Content(q)) : Content(q)[i] = Append(Content(r), b)[i]
    BY <1>6, <1>8, Zenon
  <2> QED BY <1>6, <2>1, <2>2, <2>3, SeqEqual, Zenon
<1>10. Len(Content(r)) < N
  BY <1>1, <1>6
<1> QED
  BY <1>4, <1>5, <1>9, <1>10, Zenon DEF q, n

----------------------------------------------------------------------------
(* The inductive invariant.                                                *)

\* A read has not taken more than it wants, and a write puts no more than it has.
CallsFit ==
  \A t \in Thread :
    /\ Reading(t) => Len(call[t].bytes) <= call[t].want
    /\ Writing(t) => call[t].chunk <= Len(call[t].bytes)

\* Nobody has, or uses, an end of a pipe that is not made.
MadeFirst ==
  ~made => /\ \A p \in Proc : ~Holds(fd_table[p], "Read") /\ ~Holds(fd_table[p], "Write")
           /\ \A t \in Thread : call[t] = NoCall

PipeInv ==
  /\ TypeOK
  /\ GoodRing(ring)
  /\ LoopFits
  /\ CallsFit
  /\ MadeFirst

FileKind == {"None", "Std", "Read", "Write"}

\* alloc_fd puts the file into the table, and nothing else.
LEMMA AllocFd ==
  ASSUME NEW tab \in Seq(FileKind), NEW file \in FileKind
  PROVE  /\ alloc_fd(tab, file) \in Seq(FileKind)
         /\ Holds(alloc_fd(tab, file), file)
         /\ \A f : Holds(alloc_fd(tab, file), f) => f = file \/ Holds(tab, f)
<1>1. CASE Slot(tab) \in DOMAIN tab
  <2>1. alloc_fd(tab, file) = [tab EXCEPT ![Slot(tab)] = file]
    BY <1>1, Zenon DEF alloc_fd
  <2> QED BY <1>1, <2>1 DEF Holds
<1>2. CASE Slot(tab) \notin DOMAIN tab
  <2>1. alloc_fd(tab, file) = Append(tab, file)
    BY <1>2, Zenon DEF alloc_fd
  <2>2. /\ Append(tab, file) \in Seq(FileKind)
        /\ DOMAIN Append(tab, file) = 1 .. Len(tab) + 1 /\ DOMAIN tab = 1 .. Len(tab)
        /\ Append(tab, file)[Len(tab) + 1] = file
        /\ \A i \in 1 .. Len(tab) : Append(tab, file)[i] = tab[i]
    OBVIOUS
  <2> QED BY <2>1, <2>2 DEF Holds
<1> QED
  BY <1>1, <1>2, Zenon

\* A step that changes neither ring nor calls, and leaves the CPU where it is.
LEMMA TableInv ==
  ASSUME PipeInv, UNCHANGED <<ring, call, current>>,
         made' \in BOOLEAN, fd_table' \in [Proc -> Seq(FileKind)],
         state' \in [Thread -> {"None", "User", "Zombie"}], MadeFirst'
  PROVE  PipeInv'
<1>1. TypeOK'
  BY Zenon DEF PipeInv, TypeOK, FileKind
<1>2. GoodRing(ring)' /\ LoopFits' /\ CallsFit'
  BY Zenon DEF PipeInv, LoopFits, CallsFit, Reading, Writing
<1> QED
  BY <1>1, <1>2, Zenon DEF PipeInv

\* A step of thread t that has the CPU, or gets it: its call becomes c.
LEMMA CallInv ==
  ASSUME PipeInv, NEW t \in Thread, NEW c \in Call \union {NoCall},
         call' = [call EXCEPT ![t] = c], GoodRing(ring'),
         current \in {t, NoThread}, current' \in {t, NoThread},
         UNCHANGED <<made, fd_table, state>>, c # NoCall => made,
         c # NoCall /\ c.k > 0 =>
           /\ current' = t
           /\ c.op = "read" => c.k <= available_read(ring')
           /\ c.op = "write" => c.k <= available_write(ring'),
         c # NoCall /\ c.op = "read" => Len(c.bytes) <= c.want,
         c # NoCall /\ c.op = "write" => c.chunk <= Len(c.bytes)
  PROVE  PipeInv'
<1>1. call \in [Thread -> Call \union {NoCall}] /\ NoThread \notin Thread
  BY PipeAssumption, Zenon DEF PipeInv, TypeOK
<1>2. call' \in [Thread -> Call \union {NoCall}] /\ call'[t] = c
      /\ \A u \in Thread : u # t => call'[u] = call[u]
  BY <1>1, Zenon
<1>3. TypeOK'
  BY <1>2, Zenon DEF PipeInv, TypeOK, GoodRing, Ring
<1>4. \A u \in Thread : u # t => ~(call[u] # NoCall /\ call[u].k > 0)
  BY <1>1, Zenon DEF PipeInv, LoopFits
<1>5. LoopFits'
  BY <1>2, <1>4, Zenon DEF LoopFits, Reading, Writing
<1>6. CallsFit'
  BY <1>2, Zenon DEF PipeInv, CallsFit, Reading, Writing
<1>7. MadeFirst'
  BY <1>2, Zenon DEF PipeInv, MadeFirst
<1> QED
  BY <1>3, <1>5, <1>6, <1>7, Zenon DEF PipeInv
\* Initially no pipe is made.
LEMMA InitInv == Init => PipeInv
<1> SUFFICES ASSUME Init PROVE PipeInv
  BY Zenon
<1>1. N \in Nat \ {0} /\ 0 \in 0 .. N - 1
  BY PipeAssumption DEF N
<1>2. GoodRing(ring)
  BY <1>1, Zenon DEF Init, GoodRing, Ring
<1>3. fd_table \in [Proc -> Seq(FileKind)]
      /\ \A p \in Proc : ~Holds(fd_table[p], "Read") /\ ~Holds(fd_table[p], "Write")
  <2>1. \A p \in Proc : fd_table[p] = <<"Std", "Std", "Std">> \/ fd_table[p] = <<>>
    BY Zenon DEF Init, NewTable
  <2>2. /\ <<"Std", "Std", "Std">> \in Seq(FileKind) /\ <<>> \in Seq(FileKind)
        /\ ~Holds(<<"Std", "Std", "Std">>, "Read") /\ ~Holds(<<"Std", "Std", "Std">>, "Write")
        /\ ~Holds(<<>>, "Read") /\ ~Holds(<<>>, "Write")
    BY DEF FileKind, Holds
  <2>3. fd_table = [p \in Proc |-> fd_table[p]]
    BY Zenon DEF Init
  <2> QED BY <2>1, <2>2, <2>3, Zenon
<1>4. TypeOK
  BY <1>2, <1>3, Zenon DEF Init, TypeOK, GoodRing, Ring, FileKind
<1> QED
  BY <1>2, <1>3, <1>4, Zenon DEF Init, PipeInv, LoopFits, CallsFit, MadeFirst, Reading, Writing

\* A descriptor that File finds is in the table; an end of the pipe exists only
\* after sys_pipe.
LEMMA FileHeld ==
  ASSUME PipeInv, NEW t \in Thread, NEW fd, File(t, fd) \in {"Read", "Write"}
  PROVE  /\ Owner[t] \in Proc /\ fd_table[Owner[t]] \in Seq(FileKind)
         /\ Holds(fd_table[Owner[t]], File(t, fd))
         /\ made /\ made \in BOOLEAN
         /\ fd + 1 \in DOMAIN fd_table[Owner[t]]
<1>1. Owner[t] \in Proc /\ fd_table[Owner[t]] \in Seq(FileKind)
  BY PipeAssumption DEF PipeInv, TypeOK, FileKind
<1>2. fd + 1 \in DOMAIN fd_table[Owner[t]] /\ Holds(fd_table[Owner[t]], File(t, fd))
  BY Zenon DEF File, Holds
<1> QED
  BY <1>1, <1>2 DEF PipeInv, TypeOK, MadeFirst

\* The calls about descriptors, threads and processes keep the invariant.
LEMMA TableActions ==
  ASSUME PipeInv, NEW t \in Thread, NEW u \in Thread, NEW p \in Proc, NEW fd,
         \/ sys_pipe(t) \/ sys_dup(t, fd) \/ sys_close(t, fd)
         \/ sys_fork(t, u) \/ sys_thread_create(t, u) \/ sys_exit(t) \/ waitpid(p)
  PROVE  PipeInv'
<1>1. /\ fd_table \in [Proc -> Seq(FileKind)] /\ made \in BOOLEAN
      /\ Owner[t] \in Proc /\ Owner[u] \in Proc
      /\ state \in [Thread -> {"None", "User", "Zombie"}] /\ MadeFirst
  BY PipeAssumption DEF PipeInv, TypeOK, FileKind
<1>2. CASE sys_pipe(t)
  <2>1. fd_table' \in [Proc -> Seq(FileKind)]
    BY <1>1, <1>2, AllocFd, Zenon DEF sys_pipe, FileKind
  <2>2. made' /\ made' \in BOOLEAN /\ UNCHANGED <<ring, call, current, state>>
    BY <1>2, Zenon DEF sys_pipe
  <2> QED BY <1>1, <2>1, <2>2, TableInv, Zenon DEF MadeFirst
<1>3. CASE sys_dup(t, fd)
  <2>1. File(t, fd) \in FileKind /\ made' /\ made' \in BOOLEAN
        /\ UNCHANGED <<ring, call, current, state>>
    BY <1>3, FileHeld DEF sys_dup, SetTable, FileKind
  <2>2. fd_table' \in [Proc -> Seq(FileKind)]
    BY <1>1, <1>3, <2>1, AllocFd, Zenon DEF sys_dup, SetTable
  <2> QED BY <1>1, <2>1, <2>2, TableInv, Zenon DEF MadeFirst
<1>4. CASE sys_close(t, fd)
  <2>1. made' /\ made' \in BOOLEAN /\ UNCHANGED <<ring, call, current, state>>
    BY <1>4, FileHeld DEF sys_close, SetTable
  <2>2. [fd_table[Owner[t]] EXCEPT ![fd + 1] = "None"] \in Seq(FileKind)
    BY <1>4, FileHeld DEF sys_close, FileKind
  <2>3. fd_table' \in [Proc -> Seq(FileKind)]
    BY <1>1, <1>4, <2>2, Zenon DEF sys_close, SetTable
  <2> QED BY <1>1, <2>1, <2>3, TableInv, Zenon DEF MadeFirst
<1>5. CASE sys_fork(t, u)
  <2>1. fd_table' \in [Proc -> Seq(FileKind)]
        /\ state' \in [Thread -> {"None", "User", "Zombie"}]
        /\ UNCHANGED <<ring, made, call, current>>
    BY <1>1, <1>5, Zenon DEF sys_fork
  <2>2. MadeFirst'
    BY <1>1, <1>5, Zenon DEF sys_fork, MadeFirst
  <2> QED BY <1>1, <2>1, <2>2, TableInv, Zenon
<1>6. CASE sys_thread_create(t, u)
  <2>1. state' \in [Thread -> {"None", "User", "Zombie"}] /\ MadeFirst'
        /\ UNCHANGED <<ring, made, call, current, fd_table>>
    BY <1>1, <1>6, Zenon DEF sys_thread_create, MadeFirst
  <2> QED BY <1>1, <2>1, TableInv, Zenon
<1>7. CASE sys_exit(t)
  <2>1. state' \in [Thread -> {"None", "User", "Zombie"}] /\ MadeFirst'
        /\ UNCHANGED <<ring, made, call, current, fd_table>>
    BY <1>1, <1>7, Zenon DEF sys_exit, MadeFirst
  <2> QED BY <1>1, <2>1, TableInv, Zenon
<1>8. CASE waitpid(p)
  <2>1. UNCHANGED <<ring, made, call, current, state>>
        /\ fd_table' = [fd_table EXCEPT ![p] = <<>>]
    BY <1>8, Zenon DEF waitpid
  <2>2. <<>> \in Seq(FileKind) /\ ~Holds(<<>>, "Read") /\ ~Holds(<<>>, "Write")
    BY DEF Holds
  <2>3. fd_table' \in [Proc -> Seq(FileKind)] /\ MadeFirst'
    BY <1>1, <2>1, <2>2, Zenon DEF MadeFirst
  <2> QED BY <1>1, <2>1, <2>3, TableInv, Zenon
<1> QED
  BY <1>2, <1>3, <1>4, <1>5, <1>6, <1>7, <1>8, Zenon
\* What the invariant says of a thread that is inside a call.
LEMMA InCall ==
  ASSUME PipeInv, NEW t \in Thread, call[t] # NoCall
  PROVE  /\ call[t] \in Call /\ made
         /\ call[t] = [op |-> call[t].op, want |-> call[t].want, bytes |-> call[t].bytes,
                       chunk |-> call[t].chunk, k |-> call[t].k]
         /\ Reading(t) \/ Writing(t)
         /\ Reading(t) => /\ ~Writing(t) /\ Len(call[t].bytes) <= call[t].want
                          /\ call[t].k > 0 => call[t].k <= available_read(ring)
         /\ Writing(t) => /\ call[t].chunk <= Len(call[t].bytes)
                          /\ call[t].k > 0 => call[t].k <= available_write(ring)
<1>1. call[t] \in Call
  BY Zenon DEF PipeInv, TypeOK
<1>2. made
  BY Zenon DEF PipeInv, MadeFirst
<1>3. call[t].op \in {"read", "write"}
  BY <1>1, Zenon DEF Call
<1>4. call[t] = [op |-> call[t].op, want |-> call[t].want, bytes |-> call[t].bytes,
                 chunk |-> call[t].chunk, k |-> call[t].k]
  BY <1>1, Zenon DEF Call
<1> QED
  BY <1>1, <1>2, <1>3, <1>4, Zenon DEF PipeInv, LoopFits, CallsFit, Reading, Writing

\* Returning from a call, from the top of its loop or from inside.
LEMMA ReturnInv ==
  ASSUME PipeInv, NEW t \in Thread, current = t, return(t)
  PROVE  PipeInv'
BY CallInv, Zenon DEF return, PipeInv

\* Starting a call keeps the invariant.
LEMMA StartInv ==
  ASSUME PipeInv, NEW t \in Thread, NEW fd,
         (\E n \in Want : sys_read(t, fd, n)) \/ (\E s \in Buffer : sys_write(t, fd, s))
  PROVE  PipeInv'
<1>1. ASSUME NEW n \in Want, sys_read(t, fd, n) PROVE PipeInv'
  <2> DEFINE c == [op |-> "read", want |-> n, bytes |-> <<>>, chunk |-> 0, k |-> 0]
  <2>1. c \in Call /\ Len(c.bytes) <= c.want /\ c.k = 0 /\ c.op = "read"
    <3>1. n \in Nat /\ <<>> \in Seq(Nat) /\ Len(<<>>) = 0
      BY PipeAssumption
    <3> QED BY <3>1 DEF Call
  <2>2. made /\ current = NoThread
    BY <1>1, FileHeld DEF sys_read, Calls
  <2>3. call' = [call EXCEPT ![t] = c] /\ current' = t /\ UNCHANGED <<ring, made, fd_table, state>>
    BY <1>1, Zenon DEF sys_read
  <2>4. ~(c.k > 0) /\ c.op # "write"
    BY <2>1
  <2> HIDE DEF c
  <2>5. GoodRing(ring')
    BY <2>3, Zenon DEF PipeInv
  <2> QED BY <2>1, <2>2, <2>3, <2>4, <2>5, CallInv, Zenon
<1>2. ASSUME NEW s \in Buffer, sys_write(t, fd, s) PROVE PipeInv'
  <2> DEFINE c == [op |-> "write", want |-> 0, bytes |-> s, chunk |-> Chunk(s), k |-> 0]
  <2>1. s \in Seq(Nat) /\ Chunk(s) \in Nat /\ Chunk(s) <= Len(s)
    BY PipeAssumption DEF Chunk
  <2>2. c \in Call /\ c.chunk <= Len(c.bytes) /\ c.k = 0 /\ c.op = "write"
    BY <2>1, Zenon DEF Call
  <2>3. made /\ current = NoThread
    BY <1>2, FileHeld DEF sys_write, Calls
  <2>4. call' = [call EXCEPT ![t] = c] /\ current' = t /\ UNCHANGED <<ring, made, fd_table, state>>
    BY <1>2, Zenon DEF sys_write
  <2>5. ~(c.k > 0) /\ c.op # "read"
    BY <2>2
  <2> HIDE DEF c
  <2>6. GoodRing(ring')
    BY <2>4, Zenon DEF PipeInv
  <2> QED BY <2>2, <2>3, <2>4, <2>5, <2>6, CallInv, Zenon
<1> QED
  BY <1>1, <1>2, Zenon

\* The CPU comes to a call at the top of its loop, and leaves it there.
LEMMA SwitchInv ==
  ASSUME PipeInv, NEW t \in Thread, resume(t) \/ (AtTop(t) /\ yield_now(t))
  PROVE  PipeInv'
<1>1. UNCHANGED <<ring, made, fd_table, call, state>> /\ current' \in Thread \union {NoThread}
  BY Zenon DEF resume, yield_now
<1>2. \A u \in Thread : ~(call[u] # NoCall /\ call[u].k > 0)
  BY PipeAssumption DEF PipeInv, LoopFits, resume, AtTop
<1>3. TypeOK' /\ CallsFit' /\ MadeFirst' /\ GoodRing(ring)'
  BY <1>1, Zenon DEF PipeInv, TypeOK, CallsFit, MadeFirst, Reading, Writing
<1>4. LoopFits'
  BY <1>1, <1>2, Zenon DEF LoopFits
<1> QED
  BY <1>3, <1>4, Zenon DEF PipeInv

\* Entering the inner loop keeps the invariant.
LEMMA EnterActions ==
  ASSUME PipeInv, NEW t \in Thread, read_enter(t) \/ write_enter(t)
  PROVE  PipeInv'
<1> DEFINE k == IF Reading(t) THEN available_read(ring) ELSE available_write(ring)
           c == [call[t] EXCEPT !.k = k]
<1>1. call[t] # NoCall /\ current = t
  BY Zenon DEF read_enter, write_enter, Reading, Writing, AtTop
<1>2. available_read(ring) \in 0 .. N /\ available_write(ring) = N - available_read(ring)
      /\ N \in Nat
  BY Filled, Zenon DEF PipeInv
<1>3. k \in Nat
  BY <1>2
<1>4. call' = [call EXCEPT ![t] = c] /\ UNCHANGED <<ring, made, fd_table, state, current>>
  BY <1>1, InCall, Zenon DEF read_enter, write_enter, enter, Reading, Writing
<1>5. c \in Call /\ c # NoCall /\ c.k = k /\ c.op = call[t].op /\ c.bytes = call[t].bytes
      /\ c.want = call[t].want /\ c.chunk = call[t].chunk
  <2>1. call[t] \in Call
    BY <1>1, InCall, Zenon
  <2> HIDE DEF k
  <2>2. c \in Call /\ c.k = k /\ c.op = call[t].op /\ c.bytes = call[t].bytes
        /\ c.want = call[t].want /\ c.chunk = call[t].chunk
    BY <1>3, <2>1, Zenon DEF Call
  <2> QED BY <2>2, PipeAssumption, Zenon
<1>6. /\ c.op = "read" => k = available_read(ring) /\ Len(c.bytes) <= c.want
      /\ c.op = "write" => k = available_write(ring) /\ c.chunk <= Len(c.bytes)
  BY <1>1, <1>5, InCall, Zenon DEF Reading, Writing
<1> HIDE DEF c, k
<1>7. /\ c.op = "read" => c.k <= available_read(ring)'
      /\ c.op = "write" => c.k <= available_write(ring)'
  BY <1>2, <1>4, <1>5, <1>6
<1> QED
  BY <1>1, <1>4, <1>5, <1>6, <1>7, CallInv, InCall, Zenon DEF PipeInv
\* read_next either returns with what was wanted or moves the first byte of the
\* ring to the end of the read.
LEMMA ReadNext ==
  ASSUME PipeInv, NEW t \in Thread, read_next(t)
  PROVE  /\ PipeInv'
         /\ \/ return(t) /\ Len(call[t].bytes) = call[t].want
            \/ /\ Len(call[t].bytes) < call[t].want
               /\ Content(ring) # <<>>
               /\ Content(ring)' = Tail(Content(ring))
               /\ \E c \in Call : /\ call' = [call EXCEPT ![t] = c]
                                 /\ c.op = call[t].op /\ c.want = call[t].want
                                 /\ c.bytes = Append(call[t].bytes, Head(Content(ring)))
               /\ UNCHANGED <<made, fd_table>>
<1>1. call[t] # NoCall /\ current = t /\ Reading(t) /\ call[t].k > 0
  BY Zenon DEF read_next, Reading, InLoop
<1>2. /\ call[t] \in Call /\ made /\ Len(call[t].bytes) <= call[t].want
      /\ call[t].k <= available_read(ring) /\ call[t].op = "read"
  BY <1>1, InCall, Zenon DEF Reading
<1>3. /\ call[t].bytes \in Seq(Nat) /\ call[t].want \in Nat /\ call[t].k \in Nat
  BY <1>2, Zenon DEF Call
<1>4. CASE ~(Len(call[t].bytes) < call[t].want)
  <2>1. return(t)
    BY <1>4, Zenon DEF read_next
  <2>2. Len(call[t].bytes) = call[t].want
    BY <1>2, <1>3, <1>4
  <2> QED BY <1>1, <2>1, <2>2, ReturnInv, Zenon
<1>5. CASE Len(call[t].bytes) < call[t].want
  <2> DEFINE b == ring.arr[ring.head]
             c == [call[t] EXCEPT !.bytes = Append(call[t].bytes, b), !.k = call[t].k - 1]
  <2>1. /\ call' = [call EXCEPT ![t] = c] /\ ring' = read_byte(ring)
        /\ UNCHANGED <<made, fd_table, state, current>>
    BY <1>1, <1>5, InCall, Zenon DEF read_next
  <2>2. available_read(ring) \in 0 .. N /\ N \in Nat
    BY Filled, Zenon DEF PipeInv
  <2>3. GoodRing(ring) /\ available_read(ring) # 0
    BY <1>1, <1>2, <1>3, <2>2 DEF PipeInv
  <2>4. /\ GoodRing(ring') /\ available_read(ring') = available_read(ring) - 1
        /\ Content(ring) # <<>> /\ b = Head(Content(ring))
        /\ Content(ring') = Tail(Content(ring))
    BY <2>1, <2>3, ReadByte, Zenon
  <2> b \in Nat
    BY <2>3, Zenon DEF GoodRing, Ring
  <2>5. Append(call[t].bytes, b) \in Seq(Nat) /\ call[t].k - 1 \in Nat
        /\ Len(Append(call[t].bytes, b)) <= call[t].want
    <3> HIDE DEF b
    <3>1. Append(call[t].bytes, b) \in Seq(Nat)
          /\ Len(Append(call[t].bytes, b)) = Len(call[t].bytes) + 1 /\ Len(call[t].bytes) \in Nat
      BY <1>3
    <3>2. call[t].k - 1 \in Nat /\ Len(call[t].bytes) + 1 <= call[t].want
      BY <1>1, <1>3, <1>5, <3>1
    <3> QED BY <3>1, <3>2, Zenon
  <2>6. c \in Call /\ c.bytes = Append(call[t].bytes, b) /\ c.k = call[t].k - 1
        /\ c.op = "read" /\ c.want = call[t].want
    BY <1>2, <2>5, Zenon DEF Call
  <2> HIDE DEF b, c
  <2>7. c.k <= available_read(ring')
    BY <1>2, <1>3, <2>2, <2>4, <2>6
  <2>8. PipeInv'
    BY <1>1, <1>2, <2>1, <2>4, <2>5, <2>6, <2>7, CallInv, Zenon
  <2> QED BY <1>2, <1>5, <2>1, <2>4, <2>6, <2>8, Zenon
<1> QED
  BY <1>4, <1>5, Zenon

\* write_next returns when nothing is left, goes on with the next chunk, or
\* moves the first byte of the write to the end of the ring.
LEMMA WriteNext ==
  ASSUME PipeInv, NEW t \in Thread, write_next(t)
  PROVE  /\ PipeInv'
         /\ \/ return(t) /\ call[t].bytes = <<>>
            \/ /\ \E c \in Call : /\ call' = [call EXCEPT ![t] = c]
                                 /\ c.op = call[t].op /\ c.want = call[t].want
                                 /\ c.bytes = call[t].bytes
               /\ UNCHANGED <<ring, made, fd_table>>
            \/ /\ call[t].bytes # <<>>
               /\ Len(Content(ring)) < N
               /\ Content(ring)' = Append(Content(ring), Head(call[t].bytes))
               /\ \E c \in Call : /\ call' = [call EXCEPT ![t] = c]
                                 /\ c.op = call[t].op /\ c.want = call[t].want
                                 /\ c.bytes = Tail(call[t].bytes)
               /\ UNCHANGED <<made, fd_table>>
<1>1. call[t] # NoCall /\ current = t /\ Writing(t) /\ call[t].k > 0
  BY Zenon DEF write_next, Writing, InLoop
<1>2. /\ call[t] \in Call /\ made /\ call[t].chunk <= Len(call[t].bytes)
      /\ call[t].k <= available_write(ring) /\ call[t].op = "write"
  BY <1>1, InCall, Zenon DEF Writing
<1>3. /\ call[t].bytes \in Seq(Nat) /\ call[t].chunk \in Nat /\ call[t].k \in Nat
  BY <1>2, Zenon DEF Call
<1>4. CASE call[t].chunk > 0
  <2> DEFINE b == Head(call[t].bytes)
             c == [call[t] EXCEPT !.bytes = Tail(call[t].bytes),
                                  !.chunk = call[t].chunk - 1, !.k = call[t].k - 1]
  <2>1. /\ call' = [call EXCEPT ![t] = c] /\ ring' = write_byte(ring, b)
        /\ UNCHANGED <<made, fd_table, state, current>>
    BY <1>1, <1>4, InCall, Zenon DEF write_next
  <2>2. /\ available_read(ring) \in 0 .. N /\ N \in Nat
        /\ available_write(ring) = N - available_read(ring)
    BY Filled, Zenon DEF PipeInv
  <2>3. GoodRing(ring) /\ available_write(ring) # 0
    BY <1>1, <1>2, <1>3, <2>2 DEF PipeInv
  <2>4. call[t].bytes # <<>> /\ b \in Nat /\ Tail(call[t].bytes) \in Seq(Nat)
        /\ Len(Tail(call[t].bytes)) = Len(call[t].bytes) - 1
    BY <1>2, <1>3, <1>4
  <2> HIDE DEF b
  <2>5. /\ GoodRing(ring') /\ available_read(ring') = available_read(ring) + 1
        /\ Len(Content(ring)) < N
        /\ Content(ring') = Append(Content(ring), b)
    BY <2>1, <2>3, <2>4, WriteByte, Zenon
  <2>6. available_write(ring') = N - available_read(ring')
    BY <2>5, Filled, Zenon
  <2>7. c \in Call /\ c.bytes = Tail(call[t].bytes) /\ c.k = call[t].k - 1
        /\ c.op = "write" /\ c.want = call[t].want /\ c.chunk = call[t].chunk - 1
    <3>1. call[t].chunk - 1 \in Nat /\ call[t].k - 1 \in Nat
      BY <1>1, <1>3, <1>4
    <3> QED BY <1>2, <2>4, <3>1, Zenon DEF Call
  <2> HIDE DEF c
  <2>8. c.k <= available_write(ring') /\ c.chunk <= Len(c.bytes)
    <3>1. c.k <= N - (available_read(ring) + 1)
      BY <1>2, <1>3, <2>2, <2>7
    <3>2. Len(call[t].bytes) \in Nat
      BY <1>3
    <3>3. c.chunk <= Len(Tail(call[t].bytes))
      BY <1>2, <1>3, <2>4, <2>7, <3>2
    <3> QED BY <2>5, <2>6, <2>7, <3>1, <3>3, Zenon
  <2>9. PipeInv'
    BY <1>1, <1>2, <2>1, <2>5, <2>7, <2>8, CallInv, Zenon
  <2> QED BY <1>2, <2>1, <2>4, <2>5, <2>7, <2>9, Zenon DEF b
<1>5. CASE ~(call[t].chunk > 0) /\ call[t].bytes # <<>>
  <2> DEFINE s == call[t].bytes
             c == [call[t] EXCEPT !.chunk = Chunk(s), !.k = 0]
  <2>1. /\ call' = [call EXCEPT ![t] = c] /\ UNCHANGED <<ring, made, fd_table, state, current>>
    BY <1>1, <1>5, InCall, Zenon DEF write_next
  <2>2. Chunk(s) \in Nat /\ Chunk(s) <= Len(s)
    BY <1>3, PipeAssumption DEF Chunk
  <2>3. c \in Call /\ c # NoCall /\ c.bytes = s /\ c.k = 0 /\ c.chunk = Chunk(s)
        /\ c.op = "write" /\ c.want = call[t].want
    <3>1. c \in Call /\ c.bytes = s /\ c.k = 0 /\ c.chunk = Chunk(s)
          /\ c.op = "write" /\ c.want = call[t].want
      BY <1>2, <2>2, Zenon DEF Call
    <3> QED BY <3>1, PipeAssumption, Zenon
  <2> HIDE DEF c
  <2>4. PipeInv'
    <3>1. ~(c.k > 0) /\ c.op # "read" /\ GoodRing(ring')
      BY <2>1, <2>3 DEF PipeInv
    <3>2. current \in {t, NoThread} /\ current' \in {t, NoThread} /\ c.chunk <= Len(c.bytes)
      BY <1>1, <2>1, <2>2, <2>3, Zenon
    <3> QED BY <1>2, <2>1, <2>3, <3>1, <3>2, CallInv, Zenon
  <2> QED BY <1>2, <2>1, <2>3, <2>4, Zenon
<1>6. CASE ~(call[t].chunk > 0) /\ call[t].bytes = <<>>
  BY <1>1, <1>6, ReturnInv, Zenon DEF write_next
<1> QED
  BY <1>4, <1>5, <1>6, Zenon

\* Every step keeps the invariant.
LEMMA StepInv == PipeInv /\ [Next]_vars => PipeInv'
<1> SUFFICES ASSUME PipeInv, [Next]_vars PROVE PipeInv'
  BY Zenon
<1>1. CASE UNCHANGED vars
  BY <1>1, TableInv, Zenon DEF vars, PipeInv, TypeOK, MadeFirst, FileKind
<1>2. ASSUME NEW t \in Thread, read_wait(t) \/ write_wait(t)
      PROVE  PipeInv'
  <2>1. AtTop(t) /\ current = t /\ (return(t) \/ yield_now(t))
    BY <1>2, Zenon DEF read_wait, write_wait, AtTop
  <2>2. CASE return(t)
    BY <2>1, <2>2, ReturnInv, Zenon
  <2>3. CASE yield_now(t)
    BY <2>1, <2>3, SwitchInv, Zenon
  <2> QED BY <2>1, <2>2, <2>3, Zenon
<1>3. ASSUME NEW t \in Thread, NEW u \in Thread, NEW fd,
             \/ sys_pipe(t) \/ sys_dup(t, fd) \/ sys_close(t, fd)
             \/ sys_fork(t, u) \/ sys_thread_create(t, u) \/ sys_exit(t)
      PROVE  PipeInv'
  <2>1. Owner[t] \in Proc
    BY PipeAssumption, Zenon
  <2> QED BY <1>3, <2>1, TableActions, Zenon
<1>4. ASSUME NEW p \in Proc, waitpid(p) PROVE PipeInv'
  BY <1>4, TableActions, PipeAssumption, Zenon
<1>5. CASE Next
  <2>1. ASSUME NEW t \in Thread,
               \/ sys_pipe(t) \/ sys_exit(t)
               \/ \E fd \in 3 .. MaxFd - 1 : sys_dup(t, fd) \/ sys_close(t, fd)
               \/ \E u \in Thread : sys_fork(t, u) \/ sys_thread_create(t, u)
        PROVE  PipeInv'
    BY <1>3, <2>1, Zenon
  <2> QED
    BY <1>2, <1>4, <1>5, <2>1, StartInv, SwitchInv, EnterActions, ReadNext, WriteNext, Zenon DEF Next
<1> QED
  BY <1>1, <1>5, Zenon

\* The invariant holds throughout.
LEMMA PipeSafe == Spec => []PipeInv
<1> QED
  BY InitInv, StepInv, PTL DEF Spec

\* The indices of PipeRingBuffer stay inside its array and the bookkeeping of
\* reads and writes inside its types.
THEOREM PipeTyped == Spec => []TypeOK
<1>1. PipeInv => TypeOK
  BY Zenon DEF PipeInv
<1> QED
  BY <1>1, PipeSafe, PTL

\* The status of the ring tells a full one from an empty one, whatever reads and
\* writes led to it.
THEOREM RingStatusTells == Spec => []StatusTells
<1>1. PipeInv => StatusTells
  <2> SUFFICES ASSUME PipeInv PROVE StatusTells
    BY Zenon
  <2>1. ring.head = ring.tail <=> ring.status # "Normal"
    BY Zenon DEF PipeInv, GoodRing
  <2>2. available_read(ring) \in 0 .. N /\ available_write(ring) = N - available_read(ring)
        /\ N \in Nat
    BY Filled, Zenon DEF PipeInv
  <2>3. available_read(ring) + available_write(ring) = N
    BY <2>2
  <2> QED BY <2>1, <2>3, Zenon DEF StatusTells
<1> QED
  BY <1>1, PipeSafe, PTL

\* No loop of Pipe::read or Pipe::write moves more bytes than there are, or
\* than there is room for.
THEOREM LoopsFit == Spec => []LoopFits
<1>1. PipeInv => LoopFits
  BY Zenon DEF PipeInv
<1> QED
  BY <1>1, PipeSafe, PTL

----------------------------------------------------------------------------
(* A pipe implements Channel.                                              *)

\* What the channel sees of a call.
LEMMA SeenCall ==
  ASSUME NEW c \in Call
  PROVE  /\ c # NoCall /\ Seen(c) # NoCall
         /\ Seen(c) = [op |-> c.op, want |-> c.want, bytes |-> c.bytes]
         /\ Seen(c).op = c.op /\ Seen(c).want = c.want /\ Seen(c).bytes = c.bytes
<1>1. c # NoCall
  BY PipeAssumption, Zenon
<1>2. Seen(c) = [op |-> c.op, want |-> c.want, bytes |-> c.bytes]
  BY <1>1, Zenon DEF Seen
<1>3. Seen(c) \in Core
  BY <1>2 DEF Call, Core
<1>4. Seen(c) # NoCall
  BY <1>3, PipeAssumption, Zenon
<1> QED
  BY <1>1, <1>2, <1>4

\* The calls that the channel sees.
SeenCalls == [t \in Thread |-> Seen(call[t])]

\* The channel sees reads as reads and writes as writes.
LEMMA SeenKinds ==
  ASSUME PipeInv, NEW t \in Thread
  PROVE  /\ SeenCalls[t] = Seen(call[t])
         /\ Seen(call[t]) = NoCall <=> call[t] = NoCall
         /\ Chan!Reading(t) <=> Reading(t)
         /\ Chan!Writing(t) <=> Writing(t)
<1>1. SeenCalls[t] = Seen(call[t])
  BY Zenon DEF SeenCalls
<1>2. CASE call[t] = NoCall
  BY <1>1, <1>2, Zenon DEF Seen, Chan!Reading, Chan!Writing, Reading, Writing
<1>3. CASE call[t] # NoCall
  <2>1. call[t] \in Call
    BY <1>3, Zenon DEF PipeInv, TypeOK
  <2>2. Seen(call[t]) # NoCall /\ Seen(call[t]).op = call[t].op
    BY <2>1, SeenCall, Zenon
  <2> QED BY <1>1, <1>3, <2>2, Zenon DEF Chan!Reading, Chan!Writing, Reading, Writing
<1> QED
  BY <1>2, <1>3, Zenon

\* When one call changes, the channel sees one call change.
LEMMA SeenChange ==
  ASSUME PipeInv, NEW t \in Thread, NEW c, call' = [call EXCEPT ![t] = c]
  PROVE  SeenCalls' = [SeenCalls EXCEPT ![t] = Seen(c)]
<1>1. call \in [Thread -> Call \union {NoCall}]
  BY Zenon DEF PipeInv, TypeOK
<1>2. \A u \in Thread : Seen(call'[u]) = IF u = t THEN Seen(c) ELSE Seen(call[u])
  BY <1>1, Zenon
<1> QED
  BY <1>1, <1>2, Zenon DEF SeenCalls

\* Steps that touch only descriptors: the channel is created, is closed by the
\* last write end to go, or does not notice.
LEMMA PhaseStep ==
  ASSUME PipeInv, UNCHANGED <<ring, call>>, made => made', made' \in BOOLEAN,
         Phase = "closed" => Phase' = "closed",
         ~made /\ made' => Phase' = "open"
  PROVE  [Chan!Next]_Chan!vars
<1>1. UNCHANGED <<Content(ring), SeenCalls>>
  BY Zenon DEF SeenCalls, Content, available_read
<1>2. made \in BOOLEAN
  BY Zenon DEF PipeInv, TypeOK
<1>3. CASE Phase' = Phase
  BY <1>1, <1>3, Zenon DEF Chan!vars, SeenCalls
<1>4. CASE Phase' # Phase /\ ~made
  <2>1. Phase = "none" /\ Phase' = "open"
    BY <1>2, <1>4, Zenon DEF Phase
  <2> QED BY <1>1, <2>1, Zenon DEF Chan!Next, Chan!Create, SeenCalls
<1>5. CASE Phase' # Phase /\ made
  <2>1. Phase = "open" /\ Phase' = "closed" /\ all_write_ends_closed'
    BY <1>2, <1>5, Zenon DEF Phase
  <2>2. \A t \in Thread : ~Writing(t)
    BY <2>1, Zenon DEF all_write_ends_closed, Writing
  <2>3. \A t \in Thread : ~Chan!Writing(t)
    BY <2>2, SeenKinds, Zenon
  <2> QED BY <1>1, <2>1, <2>3, Zenon DEF Chan!Next, Chan!Close, SeenCalls
<1> QED
  BY <1>3, <1>4, <1>5, Zenon

\* The calls about descriptors, threads and processes implement the channel.
LEMMA TableRefines ==
  ASSUME PipeInv, NEW t \in Thread, NEW u \in Thread, NEW p \in Proc, NEW fd,
         \/ sys_pipe(t) \/ sys_dup(t, fd) \/ sys_close(t, fd)
         \/ sys_fork(t, u) \/ sys_thread_create(t, u) \/ sys_exit(t) \/ waitpid(p)
  PROVE  [Chan!Next]_Chan!vars
<1>1. /\ fd_table \in [Proc -> Seq(FileKind)] /\ made \in BOOLEAN
      /\ Owner[t] \in Proc /\ Owner[u] \in Proc
  BY PipeAssumption DEF PipeInv, TypeOK, FileKind
<1>2. CASE sys_pipe(t)
  <2>1. UNCHANGED <<ring, call>> /\ ~made /\ made' = TRUE
    BY <1>2, Zenon DEF sys_pipe
  <2>2. Holds(fd_table'[Owner[t]], "Write")
    BY <1>1, <1>2, AllocFd, Zenon DEF sys_pipe, FileKind
  <2>3. Phase' = "open" /\ Phase = "none"
    BY <1>1, <2>1, <2>2, Zenon DEF Phase, all_write_ends_closed
  <2> QED BY <2>1, <2>3, PhaseStep, Zenon
<1>3. CASE ~sys_pipe(t)
  <2>1. UNCHANGED <<ring, call, made>>
    BY <1>3, Zenon DEF sys_dup, sys_close, SetTable, sys_fork, sys_thread_create, sys_exit, waitpid
  <2>2. \A q \in Proc : Holds(fd_table'[q], "Write") => \E r \in Proc : Holds(fd_table[r], "Write")
    <3>1. CASE sys_dup(t, fd)
      <4>1. /\ fd_table' = [fd_table EXCEPT ![Owner[t]] = alloc_fd(@, File(t, fd))]
            /\ File(t, fd) \in {"Read", "Write"}
        BY <3>1, Zenon DEF sys_dup, SetTable
      <4>2. Holds(fd_table[Owner[t]], File(t, fd)) /\ File(t, fd) \in FileKind
        BY <4>1, FileHeld DEF FileKind
      <4>3. Holds(alloc_fd(fd_table[Owner[t]], File(t, fd)), "Write") =>
              Holds(fd_table[Owner[t]], "Write")
        BY <1>1, <4>2, AllocFd, Zenon
      <4> QED BY <1>1, <4>1, <4>3, Zenon
    <3>2. CASE sys_close(t, fd)
      BY <1>1, <3>2, Zenon DEF sys_close, SetTable, Holds
    <3>3. CASE sys_fork(t, u)
      BY <1>1, <3>3, Zenon DEF sys_fork
    <3>4. CASE sys_thread_create(t, u) \/ sys_exit(t)
      BY <3>4, Zenon DEF sys_thread_create, sys_exit
    <3>5. CASE waitpid(p)
      BY <1>1, <3>5 DEF waitpid, Holds
    <3> QED BY <1>3, <3>1, <3>2, <3>3, <3>4, <3>5, Zenon
  <2>3. all_write_ends_closed => all_write_ends_closed'
    BY <2>1, <2>2, Zenon DEF all_write_ends_closed, Writing
  <2>4. Phase = "closed" => Phase' = "closed"
    BY <2>1, <2>3, Zenon DEF Phase
  <2> QED BY <1>1, <2>1, <2>4, PhaseStep, Zenon
<1> QED
  BY <1>2, <1>3, Zenon

\* Starting a call implements the start of a call.
LEMMA StartRefines ==
  ASSUME PipeInv, NEW t \in Thread, NEW fd,
         (\E n \in Want : sys_read(t, fd, n)) \/ (\E s \in Buffer : sys_write(t, fd, s))
  PROVE  [Chan!Next]_Chan!vars
<1>1. ASSUME NEW n \in Want, sys_read(t, fd, n) PROVE Chan!StartRead(t, n)
  <2> DEFINE c == [op |-> "read", want |-> n, bytes |-> <<>>, chunk |-> 0, k |-> 0]
  <2>1. call' = [call EXCEPT ![t] = c] /\ call[t] = NoCall /\ UNCHANGED <<ring, made, fd_table>>
    BY <1>1, Zenon DEF sys_read, Calls
  <2>2. made /\ Phase # "none"
    BY <1>1, FileHeld DEF sys_read, Phase
  <2>3. c \in Call /\ c.op = "read" /\ c.want = n /\ c.bytes = <<>>
    BY PipeAssumption DEF Call
  <2> HIDE DEF c
  <2>4. SeenCalls' = [SeenCalls EXCEPT ![t] = [op |-> "read", want |-> n, bytes |-> <<>>]]
    <3>1. Seen(c) = [op |-> "read", want |-> n, bytes |-> <<>>]
      BY <2>3, SeenCall, Zenon
    <3> QED BY <2>1, <3>1, SeenChange, Zenon
  <2>5. SeenCalls[t] = NoCall
    BY <2>1, SeenKinds, Zenon
  <2>6. \A u \in Thread : Writing(u)' <=> Writing(u)
    BY <2>1, <2>3, Zenon DEF Writing, PipeInv, TypeOK
  <2>7. UNCHANGED <<Phase, Content(ring)>>
    BY <2>1, <2>6, Zenon DEF Phase, all_write_ends_closed, Content, available_read
  <2> QED BY <2>2, <2>4, <2>5, <2>7, Zenon DEF Chan!StartRead, SeenCalls
<1>2. ASSUME NEW s \in Buffer, sys_write(t, fd, s) PROVE Chan!StartWrite(t, s)
  <2> DEFINE c == [op |-> "write", want |-> 0, bytes |-> s, chunk |-> Chunk(s), k |-> 0]
  <2>1. call' = [call EXCEPT ![t] = c] /\ call[t] = NoCall /\ UNCHANGED <<ring, made, fd_table>>
    BY <1>2, Zenon DEF sys_write, Calls
  <2>2. File(t, fd) = "Write"
    BY <1>2, Zenon DEF sys_write
  <2>3. made /\ ~all_write_ends_closed /\ ~all_write_ends_closed'
    BY <2>1, <2>2, FileHeld DEF all_write_ends_closed
  <2>4. Phase = "open" /\ Phase' = "open"
    BY <2>1, <2>3, Zenon DEF Phase
  <2>5. Chunk(s) \in Nat
    BY PipeAssumption DEF Chunk
  <2>6. c \in Call /\ c.op = "write" /\ c.want = 0 /\ c.bytes = s
    BY <2>5, PipeAssumption, Zenon DEF Call
  <2> HIDE DEF c
  <2>7. SeenCalls' = [SeenCalls EXCEPT ![t] = [op |-> "write", want |-> 0, bytes |-> s]]
    <3>1. Seen(c) = [op |-> "write", want |-> 0, bytes |-> s]
      BY <2>6, SeenCall, Zenon
    <3> QED BY <2>1, <3>1, SeenChange, Zenon
  <2>8. SeenCalls[t] = NoCall
    BY <2>1, SeenKinds, Zenon
  <2>9. UNCHANGED Content(ring)
    BY <2>1, Zenon DEF Content, available_read
  <2> QED BY <2>4, <2>7, <2>8, <2>9, Zenon DEF Chan!StartWrite, SeenCalls
<1> QED
  BY <1>1, <1>2, Zenon DEF Chan!Next

\* A step of a call that keeps what the channel sees of it.
LEMMA Unseen ==
  ASSUME PipeInv, NEW t \in Thread, call[t] # NoCall, NEW c \in Call,
         call' = [call EXCEPT ![t] = c],
         c.op = call[t].op, c.want = call[t].want, c.bytes = call[t].bytes,
         UNCHANGED <<ring, made, fd_table>>
  PROVE  UNCHANGED Chan!vars
<1>1. Seen(c) = Seen(call[t]) /\ c # NoCall
  BY SeenCall, Zenon DEF Seen
<1>2. SeenCalls' = SeenCalls
  BY <1>1, SeenChange DEF SeenCalls
<1>3. \A u \in Thread : Writing(u)' <=> Writing(u)
  BY <1>1, Zenon DEF Writing, PipeInv, TypeOK
<1>4. UNCHANGED <<Phase, Content(ring)>>
  BY <1>3, Zenon DEF Phase, all_write_ends_closed, Content, available_read
<1> QED
  BY <1>2, <1>4, Zenon DEF Chan!vars, SeenCalls

\* A read returns with all it wants, or at the end of the channel.
LEMMA EndReadRefines ==
  ASSUME PipeInv, NEW t \in Thread, Reading(t), return(t),
         \/ Len(call[t].bytes) = call[t].want
         \/ available_read(ring) = 0 /\ all_write_ends_closed
  PROVE  Chan!EndRead(t)
<1>1. call[t] \in Call /\ made /\ call[t] # NoCall
  BY InCall, Zenon DEF Reading
<1>2. call' = [call EXCEPT ![t] = NoCall] /\ UNCHANGED <<ring, made, fd_table>>
  BY Zenon DEF return
<1>3. SeenCalls' = [SeenCalls EXCEPT ![t] = NoCall]
  <2>1. Seen(NoCall) = NoCall
    BY Zenon DEF Seen
  <2> QED BY <1>2, <2>1, SeenChange, Zenon
<1>4. /\ Chan!Reading(t) /\ SeenCalls[t].bytes = call[t].bytes
      /\ SeenCalls[t].want = call[t].want
  BY <1>1, SeenKinds, SeenCall, Zenon
<1>5. \A u \in Thread : Writing(u)' <=> Writing(u)
  BY <1>2, Zenon DEF Reading, Writing, PipeInv, TypeOK
<1>6. UNCHANGED <<Phase, Content(ring)>>
  BY <1>2, <1>5, Zenon DEF Phase, all_write_ends_closed, Content, available_read
<1>7. \/ Len(SeenCalls[t].bytes) = SeenCalls[t].want
      \/ Content(ring) = <<>> /\ Phase = "closed"
  <2>1. CASE available_read(ring) = 0 /\ all_write_ends_closed
    <3>1. Content(ring) \in Seq(Nat) /\ Len(Content(ring)) = 0
      BY <2>1, ContentIsSeq, Zenon DEF PipeInv
    <3>2. Phase = "closed"
      BY <1>1, <2>1, Zenon DEF Phase
    <3> QED BY <3>1, <3>2
  <2> QED BY <1>4, <2>1, Zenon
<1> QED
  BY <1>3, <1>4, <1>6, <1>7, Zenon DEF Chan!EndRead, SeenCalls

\* A write returns when everything is in; it may be what kept the pipe open.
LEMMA EndWriteRefines ==
  ASSUME PipeInv, NEW t \in Thread, Writing(t), return(t), call[t].bytes = <<>>
  PROVE  Chan!EndWrite(t)
<1>1. call[t] \in Call /\ made /\ call[t] # NoCall
  BY InCall, Zenon DEF Writing
<1>2. call' = [call EXCEPT ![t] = NoCall] /\ UNCHANGED <<ring, made, fd_table>>
  BY Zenon DEF return
<1>3. SeenCalls' = [SeenCalls EXCEPT ![t] = NoCall]
  <2>1. Seen(NoCall) = NoCall
    BY Zenon DEF Seen
  <2> QED BY <1>2, <2>1, SeenChange, Zenon
<1>4. Chan!Writing(t) /\ SeenCalls[t].bytes = <<>>
  BY <1>1, SeenKinds, SeenCall, Zenon
<1>5. \A u \in Thread \ {t} : Writing(u)' <=> Writing(u)
  BY <1>2, Zenon DEF Writing, PipeInv, TypeOK
<1>6. UNCHANGED Phase \/ (Phase' = "closed" /\ \A u \in Thread \ {t} : ~Chan!Writing(u))
  <2>1. Phase = "open"
    BY <1>1, Zenon DEF Phase, all_write_ends_closed
  <2>2. CASE all_write_ends_closed'
    <3>1. Phase' = "closed"
      BY <1>1, <1>2, <2>2, Zenon DEF Phase
    <3>2. \A u \in Thread \ {t} : ~Writing(u)
      BY <1>5, <2>2, Zenon DEF all_write_ends_closed
    <3> QED BY <3>1, <3>2, SeenKinds, Zenon
  <2>3. CASE ~all_write_ends_closed'
    BY <1>1, <1>2, <2>1, <2>3, Zenon DEF Phase
  <2> QED BY <2>2, <2>3, Zenon
<1>7. UNCHANGED Content(ring)
  BY <1>2, Zenon DEF Content, available_read
<1> QED
  BY <1>3, <1>4, <1>6, <1>7, Zenon DEF Chan!EndWrite, SeenCalls

\* A byte that changes sides changes sides in the channel.
LEMMA MoveSeen ==
  ASSUME PipeInv, NEW t \in Thread, call[t] # NoCall, NEW c \in Call, c.op = call[t].op,
         c.want = call[t].want, call' = [call EXCEPT ![t] = c], UNCHANGED <<made, fd_table>>
  PROVE  /\ SeenCalls' = [SeenCalls EXCEPT ![t].bytes = c.bytes]
         /\ UNCHANGED Phase
         /\ SeenCalls[t].bytes = call[t].bytes /\ SeenCalls[t].want = call[t].want
<1>1. call[t] \in Call
  BY InCall, Zenon
<1>2. /\ SeenCalls[t] = [op |-> call[t].op, want |-> call[t].want, bytes |-> call[t].bytes]
      /\ Seen(c) = [op |-> call[t].op, want |-> call[t].want, bytes |-> c.bytes]
  BY <1>1, SeenKinds, SeenCall, Zenon
<1>3. SeenCalls' = [SeenCalls EXCEPT ![t] = Seen(c)]
  BY SeenChange, Zenon
<1>4. \A u \in Thread : Writing(u)' <=> Writing(u)
  BY PipeAssumption DEF Writing, PipeInv, TypeOK
<1>5. UNCHANGED Phase
  BY <1>4, Zenon DEF Phase, all_write_ends_closed
<1>6. Seen(c) = [SeenCalls[t] EXCEPT !.bytes = c.bytes]
  BY <1>2
<1>7. SeenCalls' = [SeenCalls EXCEPT ![t].bytes = c.bytes]
  BY <1>3, <1>6, Zenon
<1> QED
  BY <1>2, <1>5, <1>7

\* A step of a loop of Pipe::read implements the channel.
LEMMA ReadRefines ==
  ASSUME PipeInv, NEW t \in Thread, read_next(t)
  PROVE  Chan!EndRead(t) \/ Chan!Take(t)
<1>1. Reading(t) /\ call[t] # NoCall
  BY Zenon DEF read_next, Reading
<1>2. call[t] \in Call /\ Chan!Reading(t)
  BY <1>1, InCall, SeenKinds, Zenon
<1>3. CASE return(t) /\ Len(call[t].bytes) = call[t].want
  BY <1>1, <1>3, EndReadRefines, Zenon
<1>4. ASSUME NEW c \in Call, call' = [call EXCEPT ![t] = c],
             c.op = call[t].op, c.want = call[t].want,
             c.bytes = Append(call[t].bytes, Head(Content(ring))),
             Len(call[t].bytes) < call[t].want, Content(ring) # <<>>,
             Content(ring)' = Tail(Content(ring)), UNCHANGED <<made, fd_table>>
      PROVE  Chan!Take(t)
  <2>1. /\ SeenCalls' = [SeenCalls EXCEPT ![t].bytes = c.bytes] /\ UNCHANGED Phase
        /\ SeenCalls[t].bytes = call[t].bytes /\ SeenCalls[t].want = call[t].want
    BY <1>1, <1>4, MoveSeen, Zenon
  <2>2. SeenCalls' = [SeenCalls EXCEPT ![t].bytes = Append(@, Head(Content(ring)))]
    BY <1>4, <2>1, Zenon
  <2> QED BY <1>2, <1>4, <2>1, <2>2, Zenon DEF Chan!Take, SeenCalls
<1> QED
  BY <1>3, <1>4, ReadNext, Zenon

\* A step of the loops of Pipe::write and sys_write implements the channel.
LEMMA WriteRefines ==
  ASSUME PipeInv, NEW t \in Thread, write_next(t)
  PROVE  Chan!EndWrite(t) \/ Chan!Put(t) \/ UNCHANGED Chan!vars
<1>1. Writing(t) /\ call[t] # NoCall
  BY Zenon DEF write_next, Writing
<1>2. call[t] \in Call /\ Chan!Writing(t) /\ call[t].chunk <= Len(call[t].bytes)
  BY <1>1, InCall, SeenKinds, Zenon
<1>3. CASE return(t) /\ call[t].bytes = <<>>
  BY <1>1, <1>3, EndWriteRefines, Zenon
<1>4. ASSUME NEW c \in Call, call' = [call EXCEPT ![t] = c],
             c.op = call[t].op, c.want = call[t].want, c.bytes = call[t].bytes,
             UNCHANGED <<ring, made, fd_table>>
      PROVE  UNCHANGED Chan!vars
  BY <1>1, <1>4, Unseen, Zenon
<1>5. ASSUME NEW c \in Call, call' = [call EXCEPT ![t] = c],
             c.op = call[t].op, c.want = call[t].want, c.bytes = Tail(call[t].bytes),
             call[t].bytes # <<>>, Len(Content(ring)) < N,
             Content(ring)' = Append(Content(ring), Head(call[t].bytes)),
             UNCHANGED <<made, fd_table>>
      PROVE  Chan!Put(t)
  <2>1. /\ SeenCalls' = [SeenCalls EXCEPT ![t].bytes = c.bytes] /\ UNCHANGED Phase
        /\ SeenCalls[t].bytes = call[t].bytes
    BY <1>1, <1>5, MoveSeen, Zenon
  <2>2. SeenCalls' = [SeenCalls EXCEPT ![t].bytes = Tail(@)]
    BY <1>5, <2>1, Zenon
  <2> QED BY <1>2, <1>5, <2>1, <2>2, Zenon DEF Chan!Put, SeenCalls, N
<1> QED
  BY <1>3, <1>4, <1>5, WriteNext, Zenon

\* The channel does not notice who has the CPU.
LEMMA SameRefines ==
  ASSUME UNCHANGED <<ring, made, fd_table, call>>
  PROVE  UNCHANGED Chan!vars
<1>1. UNCHANGED <<Phase, Content(ring), SeenCalls>>
  BY Zenon DEF Phase, all_write_ends_closed, Writing, Content, available_read, SeenCalls
<1> QED
  BY <1>1, Zenon DEF Chan!vars, SeenCalls

\* Nor that a loop is entered.
LEMMA EnterRefines ==
  ASSUME PipeInv, NEW t \in Thread, read_enter(t) \/ write_enter(t)
  PROVE  UNCHANGED Chan!vars
<1>1. PICK k \in Nat : call' = [call EXCEPT ![t].k = k] /\ UNCHANGED <<ring, made, fd_table>>
  <2>1. available_read(ring) \in 0 .. N /\ available_write(ring) = N - available_read(ring)
        /\ N \in Nat
    BY Filled, Zenon DEF PipeInv
  <2>2. available_read(ring) \in Nat /\ available_write(ring) \in Nat
    BY <2>1
  <2> QED BY <2>2, Zenon DEF read_enter, write_enter, enter
<1>2. call[t] # NoCall /\ call[t] \in Call
  BY InCall, Zenon DEF read_enter, write_enter, Reading, Writing
<1> DEFINE c == [call[t] EXCEPT !.k = k]
<1>3. call' = [call EXCEPT ![t] = c]
  BY <1>1, Zenon
<1>4. c.op = call[t].op /\ c.want = call[t].want /\ c.bytes = call[t].bytes
  BY <1>2, Zenon DEF Call
<1>5. c \in Call
  BY <1>2, Zenon DEF Call
<1> QED
  BY <1>1, <1>2, <1>3, <1>4, <1>5, Unseen, Zenon

\* Whatever the processes do with the pipe, every step of Pipe is a step of
\* Channel or one that the channel does not notice: bytes come out in the order
\* in which they went in, none lost, repeated or made up; a short read is the
\* last; and a channel that is closed stays closed.
THEOREM PipeImplementsChannel == Spec => ImplementsChannel
<1>1. Init => Chan!Init
  <2> SUFFICES ASSUME Init PROVE Chan!Init
    BY Zenon
  <2>1. Phase = "none" /\ SeenCalls = [t \in Thread |-> NoCall]
    BY Zenon DEF Init, Phase, SeenCalls, Seen
  <2>2. Content(ring) = <<>>
    <3>1. GoodRing(ring) /\ available_read(ring) = 0
      BY InitInv, Zenon DEF PipeInv, Init, available_read
    <3> QED BY <3>1, ContentIsSeq
  <2> QED BY <2>1, <2>2, Zenon DEF Chan!Init, SeenCalls
<1>2. ASSUME PipeInv, [Next]_vars PROVE [Chan!Next]_Chan!vars
  <2>1. CASE UNCHANGED vars
    <3>1. UNCHANGED <<Phase, Content(ring), SeenCalls>>
      BY <2>1, Zenon DEF vars, Phase, all_write_ends_closed, Writing, Content, available_read, SeenCalls
    <3> QED BY <3>1, Zenon DEF Chan!vars, SeenCalls
  <2>2. ASSUME NEW t \in Thread, NEW u \in Thread, NEW fd,
               \/ sys_pipe(t) \/ sys_dup(t, fd) \/ sys_close(t, fd)
               \/ sys_fork(t, u) \/ sys_thread_create(t, u) \/ sys_exit(t)
        PROVE  [Chan!Next]_Chan!vars
    <3>1. Owner[t] \in Proc
      BY PipeAssumption, Zenon
    <3> QED BY <1>2, <2>2, <3>1, TableRefines, Zenon
  <2>3. ASSUME NEW p \in Proc, waitpid(p) PROVE [Chan!Next]_Chan!vars
    BY <1>2, <2>3, TableRefines, PipeAssumption, Zenon
  <2>4. ASSUME NEW t \in Thread, read_wait(t) PROVE [Chan!Next]_Chan!vars
    <3>1. CASE all_write_ends_closed
      <4>1. Reading(t) /\ return(t) /\ available_read(ring) = 0
        BY <2>4, <3>1, Zenon DEF read_wait
      <4>2. Chan!EndRead(t)
        BY <1>2, <3>1, <4>1, EndReadRefines, Zenon
      <4> QED BY <4>2, Zenon DEF Chan!Next
    <3>2. CASE ~all_write_ends_closed
      BY <2>4, <3>2, SameRefines, Zenon DEF read_wait, yield_now
    <3> QED BY <3>1, <3>2, Zenon
  <2>5. ASSUME NEW t \in Thread, resume(t) \/ write_wait(t) PROVE [Chan!Next]_Chan!vars
    BY <2>5, SameRefines, Zenon DEF resume, write_wait, yield_now
  <2>6. ASSUME NEW t \in Thread, read_enter(t) \/ write_enter(t) PROVE [Chan!Next]_Chan!vars
    BY <1>2, <2>6, EnterRefines, Zenon
  <2>7. ASSUME NEW t \in Thread, read_next(t) \/ write_next(t) PROVE [Chan!Next]_Chan!vars
    BY <1>2, <2>7, ReadRefines, WriteRefines, Zenon DEF Chan!Next
  <2>8. CASE Next
    <3>1. ASSUME NEW t \in Thread,
                 \/ sys_pipe(t) \/ sys_exit(t)
                 \/ \E fd \in 3 .. MaxFd - 1 : sys_dup(t, fd) \/ sys_close(t, fd)
                 \/ \E u \in Thread : sys_fork(t, u) \/ sys_thread_create(t, u)
          PROVE  [Chan!Next]_Chan!vars
      BY <2>2, <3>1, Zenon
    <3> QED
      BY <1>2, <2>3, <2>4, <2>5, <2>6, <2>7, <2>8, <3>1, StartRefines, Zenon DEF Next
  <2> QED BY <1>2, <2>1, <2>8, Zenon
<1> QED
  BY <1>1, <1>2, PipeSafe, PTL DEF Spec, ImplementsChannel, Chan!Spec
=============================================================================
