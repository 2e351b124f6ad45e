------------------------ MODULE ProcessEffectProofs -------------------------
(***************************************************************************)
(* The effects of Process that make threads and processes, stop a process  *)
(* and reap one keep the invariant of the table.                           *)
(***************************************************************************)
EXTENDS ProcessInvariant, SequenceTheorems, TLAPS

\* A thread that is not in the map, and one that is new, have nothing to go
\* back to.
LEMMA NewThreads ==
  /\ NoThread \in Thread
  /\ KeptThread(NoThread)
  /\ \A f \in Frame : NewThread(f) \in Thread /\ KeptThread(NewThread(f))
<1>1. NoThread \in Thread
  BY DEF NoThread, Thread, ThreadState, Frame, Sig, NoSig, Main, MAX_SIG
<1>2. KeptThread(NoThread)
  BY DEF NoThread, KeptThread, Saved
<1>3. ASSUME NEW f \in Frame PROVE NewThread(f) \in Thread /\ KeptThread(NewThread(f))
  <2>1. NewThread(f) \in Thread
    BY <1>1, Zenon DEF NewThread, Thread, ThreadState
  <2>2. KeptThread(NewThread(f))
    BY <1>2 DEF NewThread, NoThread, KeptThread, Saved
  <2>3. QED BY <2>1, <2>2, Zenon
<1>4. QED BY <1>1, <1>2, <1>3, Zenon

\* What a thread goes back to is not changed with its other fields.
LEMMA ContextSame ==
  ASSUME NEW th, NEW u, KeptThread(th),
         u.handling_sig = th.handling_sig, u.trapframe_backup = th.trapframe_backup,
         u.mask_backup = th.mask_backup, u.nested = th.nested, u.outer = th.outer
  PROVE  KeptThread(u)
BY DEF KeptThread, Saved

\* Frozen in their fields, two records of a thread are the same.
LEMMA SameThread ==
  ASSUME NEW k \in Table, NEW q \in AllProc, NEW i \in Tid
  PROVE  /\ k[q].tasks[i] \in Thread
         /\ [k[q].tasks[i] EXCEPT !.signals = k[q].tasks[i].signals] = k[q].tasks[i]
BY DEF Table, ProcessRecord, Thread

\* Nothing is in the empty list.
LEMMA EmptyRange == \A x : x \notin Range(<<>>)
<1>1. Len(<<>>) = 0
  BY Zenon
<1>2. 1 .. Len(<<>>) = {}
  BY <1>1
<1>3. QED BY <1>2 DEF Range

----------------------------------------------------------------------------
(* New threads.                                                            *)

\* A new thread gets a tid that no thread has had.
LEMMA CreateKeeps ==
  ASSUME NEW k, NEW m, NEW p \in Proc, NEW t \in Tid, TableInv(k, m),
         k[p].tasks[t].state = "Ready", ~(k[p].next_tid > MaxTid)
  PROVE  LET j == new_user_task(k, p)
         IN  /\ TableInv(j, m) /\ CodesKept(k, j)
             /\ ThreadsKept(k, j, p, t) /\ j[p].tasks[t].state = "Ready"
<1> DEFINE n == k[p].next_tid
           ts == [k[p].tasks EXCEPT ![n] = NewThread(Main)]
           r == [k[p] EXCEPT !.tasks = ts, !.next_tid = n + 1, !.stacks = k[p].stacks \union {n}]
           j == [k EXCEPT ![p] = r]
<1> k \in Table /\ Proc \subseteq AllProc /\ RootProc \in AllProc /\ p # RootProc /\ p \in AllProc
  BY ProcAssumption, Zenon DEF TableInv, AllProc
<1>1. k[p] \in ProcessRecord /\ k[p].tasks \in [Tid -> Thread]
  BY Zenon DEF Table, ProcessRecord
<1>2. n \in Tid /\ n \in 1 .. MaxTid /\ n + 1 \in 1 .. MaxTid + 1 /\ MaxTid \in Nat
  BY <1>1, ProcAssumption DEF ProcessRecord, Tid
<1>3. new_user_task(k, p) = j
  BY <1>1, Zenon DEF new_user_task, Table, ProcessRecord
<1>4. k[p].tasks[n].state = "None" /\ n # t
  BY <1>1, <1>2 DEF TableInv, TidsFresh, ProcessRecord
<1>5. NewThread(Main) \in Thread /\ KeptThread(NewThread(Main)) /\ NewThread(Main).state = "Ready"
  BY NewThreads, Zenon DEF Frame, NewThread, NoThread
<1>6. ts \in [Tid -> Thread] /\ ts[n] = NewThread(Main)
      /\ \A i \in Tid \ {n} : ts[i] = k[p].tasks[i]
  BY <1>1, <1>2, <1>5, Zenon
<1> HIDE DEF ts
<1>7. /\ r \in ProcessRecord /\ r.tasks = ts /\ r.next_tid = n + 1
      /\ r.stacks = k[p].stacks \union {n}
      /\ r.state = k[p].state /\ r.exit_code = k[p].exit_code
      /\ r.parent = k[p].parent /\ r.children = k[p].children /\ r.late = k[p].late
  BY <1>1, <1>2, <1>6, Zenon DEF ProcessRecord
<1> HIDE DEF r
<1>8. j \in Table /\ j[p] = r /\ \A q \in AllProc \ {p} : j[q] = k[q]
  BY <1>7, Zenon DEF Table
<1> HIDE DEF j
<1>9. /\ t \in Alive(k, p) /\ t \in Alive(j, p)
      /\ \A q \in AllProc \ {p} : Alive(j, q) = Alive(k, q)
  BY <1>4, <1>6, <1>7, <1>8, Zenon DEF Alive
<1>10. ~Dead(k, p) /\ k[p].state # "Zombie"
  BY <1>9, Zenon DEF TableInv, GoneEmpty, MemoryKept
<1>11. \A q \in AllProc : /\ Dead(j, q) <=> Dead(k, q)
                          /\ j[q].parent = k[q].parent /\ j[q].children = k[q].children
                          /\ j[q].state = k[q].state
  BY <1>7, <1>8, Zenon DEF Dead
<1>12. RootStays(j)
  BY <1>8, Zenon DEF TableInv, RootStays
<1>13. TidsFresh(j)
  <2>1. j[p].late <= j[p].next_tid
    <3>1. k[p].late <= n /\ k[p].late \in Int
      BY <1>1 DEF TableInv, TidsFresh, ProcessRecord
    <3>2. QED BY <1>2, <1>7, <1>8, <3>1
  <2>2. ASSUME NEW i \in Tid, i >= j[p].next_tid PROVE j[p].tasks[i].state = "None"
    <3>1. i > n
      BY <1>2, <1>7, <1>8, <2>2 DEF Tid
    <3>2. i >= n /\ i # n
      BY <1>2, <3>1 DEF Tid
    <3>3. k[p].tasks[i].state = "None"
      BY <3>2, Zenon DEF TableInv, TidsFresh
    <3>4. QED BY <1>6, <1>7, <1>8, <3>2, <3>3, Zenon
  <2>3. QED BY <1>8, <2>1, <2>2 DEF TableInv, TidsFresh
<1>14. GoneEmpty(j)
  BY <1>9, <1>10, <1>11, Zenon DEF TableInv, GoneEmpty
<1>15. Findable(j, m)
  BY <1>11, Zenon DEF TableInv, Findable
<1>16. ListedOnce(j)
  BY <1>11, Zenon DEF TableInv, ListedOnce
<1>17. Linked(j, m)
  BY <1>11 DEF TableInv, Findable, Linked
<1>18. MemoryKept(j)
  <2>1. /\ j[p].state = "Zombie" <=> Alive(j, p) = {}
        /\ j[p].stacks # {}
    BY <1>7, <1>8, <1>9, <1>10, Zenon
  <2>2. QED BY <1>8, <1>9, <1>11, <2>1, Zenon DEF TableInv, MemoryKept
<1>19. StopSent(j)
  <2>1. SUFFICES ASSUME NEW q \in Proc, j[q].state = "Stop", NEW i \in Alive(j, q)
                 PROVE  SIGKILL \in j[q].tasks[i].signals \/ i >= j[q].late
    BY Zenon DEF StopSent
  <2>2. CASE q # p
    BY <1>8, <1>9, <2>1, <2>2, Zenon DEF TableInv, StopSent
  <2>3. CASE q = p /\ i = n
    BY <1>7, <1>8, <2>3, Zenon DEF TableInv, TidsFresh
  <2>4. CASE q = p /\ i # n
    <3>1. i \in Tid /\ j[p].tasks[i] = k[p].tasks[i] /\ i \in Alive(k, p)
      BY <1>6, <1>7, <1>8, <2>1, <2>4, Zenon DEF Alive
    <3>2. QED BY <1>7, <1>8, <2>1, <2>4, <3>1, Zenon DEF TableInv, StopSent
  <2>5. QED BY <2>2, <2>3, <2>4, Zenon
<1>20. ContextsKept(j)
  BY <1>5, <1>6, <1>7, <1>8, Zenon DEF TableInv, ContextsKept
<1>21. CodesKept(k, j)
  BY <1>7, <1>8, Zenon DEF CodesKept
<1>22. ThreadsKept(k, j, p, t)
  <2>1. \A q \in AllProc, i \in Tid :
           [k[q].tasks[i] EXCEPT !.signals = k[q].tasks[i].signals] = k[q].tasks[i]
    BY SameThread
  <2>2. \A q \in AllProc, i \in Tid : ~(q = p /\ i = n) => j[q].tasks[i] = k[q].tasks[i]
    BY <1>6, <1>7, <1>8, Zenon
  <2>3. QED BY <1>4, <2>1, <2>2 DEF ThreadsKept
<1>23. TableInv(j, m)
  BY <1>8, <1>12, <1>13, <1>14, <1>15, <1>16, <1>17, <1>18, <1>19, <1>20, Zenon DEF TableInv
<1>24. QED BY <1>3, <1>4, <1>6, <1>7, <1>8, <1>21, <1>22, <1>23, Zenon

----------------------------------------------------------------------------
(* New processes.                                                          *)

\* add_child puts one more element at the end of a list.
LEMMA AppendMember ==
  ASSUME NEW S, NEW s \in Seq(S), NEW e \in S, NEW x
  PROVE  /\ Append(s, e) \in Seq(S)
         /\ x \in Range(Append(s, e)) <=> x \in Range(s) \/ x = e
         /\ Once(s, x) /\ (x = e => x \notin Range(s)) => Once(Append(s, e), x)
<1>1. /\ Append(s, e) \in Seq(S)
      /\ Len(Append(s, e)) = Len(s) + 1
      /\ \A i \in 1 .. Len(s) : Append(s, e)[i] = s[i]
      /\ Append(s, e)[Len(s) + 1] = e
  BY AppendProperties
<1>2. /\ Len(s) \in Nat
      /\ DOMAIN s = 1 .. Len(s)
      /\ DOMAIN Append(s, e) = 1 .. Len(s) + 1
  BY <1>1, LenProperties, Zenon
<1> DEFINE a == Append(s, e)
<1> HIDE DEF a
<1>3. x \in Range(a) <=> x \in Range(s) \/ x = e
  BY <1>1, <1>2 DEF Range, a
<1>4. ASSUME Once(s, x), x = e => x \notin Range(s) PROVE Once(a, x)
  BY <1>1, <1>2, <1>4 DEF Range, Once, a
<1>5. QED BY <1>1, <1>3, <1>4, Zenon DEF a

\* What is not in a list is not there twice.
LEMMA AbsentOnce ==
  ASSUME NEW S, NEW s \in Seq(S), NEW x, x \notin Range(s)
  PROVE  Once(s, x)
<1>1. DOMAIN s = 1 .. Len(s)
  BY LenProperties, Zenon
<1>2. QED BY <1>1, Zenon DEF Range, Once

\* No signal has an action of its own in a new process.
LEMMA NoActions == <<>> \in Actions
<1> DEFINE A == [handler : BOOLEAN, mask : SUBSET Sig]
<1> HIDE DEF A
<1>1. <<>> \in Seq(A) /\ Len(<<>>) = 0
  BY EmptySeq, Zenon
<1>2. <<>> \in [1 .. Len(<<>>) -> A]
  BY <1>1, LenProperties, Zenon
<1>3. 1 .. Len(<<>>) = {}
  BY <1>1
<1>4. <<>> \in [{} -> A]
  BY <1>2, <1>3, Zenon
<1>5. QED BY <1>4, Zenon DEF Actions, A

\* A process that is not there, and one that new_common has just made.
LEMMA NewRecords ==
  ASSUME NEW par \in AllProc \union {NoProc}, NEW f \in Frame, NEW st \in SUBSET Tid
  PROVE  NewMakes(NewProcess(par, st, f), par, st, f)
<1> DEFINE ts == [i \in Tid |-> IF i = 0 THEN NewThread(f) ELSE NoThread]
           N == NewProcess(par, st, f)
<1>1. NewThread(f) \in Thread /\ NoThread \in Thread
  BY NewThreads, Zenon
<1>2. ts \in [Tid -> Thread]
  BY <1>1, Zenon
<1>3. N = [state |-> "Normal", exit_code |-> 0, parent |-> par, children |-> <<>>,
           tasks |-> ts, next_tid |-> 1, stacks |-> st, signal_actions |-> <<>>,
           leaked |-> FALSE, late |-> 0]
  BY Zenon DEF NewProcess
<1>4. <<>> \in Seq(Proc)
  OBVIOUS
<1>5. 1 \in 1 .. MaxTid + 1 /\ 0 \in 0 .. MaxTid + 1
  BY ProcAssumption
<1> HIDE DEF ts, N
<1>6. /\ N \in ProcessRecord /\ N.state = "Normal" /\ N.parent = par
      /\ N.children = <<>> /\ N.next_tid = 1 /\ N.late = 0 /\ N.stacks = st
      /\ N.tasks = ts
  BY <1>2, <1>3, <1>4, <1>5, NoActions DEF ProcessRecord, ProcessState
<1>7. QED BY <1>6, Zenon DEF NewMakes, ts, N

\* The same of a process that no call has made.
LEMMA UnbornRecord ==
  /\ Unborn \in ProcessRecord /\ Unborn.state = "Unborn" /\ Unborn.children = <<>>
  /\ Unborn.next_tid = 1 /\ Unborn.late = 0
  /\ \A i \in Tid : Unborn.tasks[i] = NoThread
<1> DEFINE N == NewProcess(NoProc, {}, Main)
           none == [i \in Tid |-> NoThread]
<1>1. /\ N \in ProcessRecord /\ N.state = "Normal"
      /\ N.children = <<>> /\ N.next_tid = 1 /\ N.late = 0
  <2>1. Main \in Frame /\ {} \in SUBSET Tid /\ NoProc \in AllProc \union {NoProc}
    BY Zenon DEF Frame
  <2>2. NewMakes(N, NoProc, {}, Main)
    BY <2>1, NewRecords, Zenon
  <2>3. QED BY <2>2, Zenon DEF NewMakes
<1>2. none \in [Tid -> Thread] /\ \A i \in Tid : none[i] = NoThread
  BY NewThreads, Zenon
<1>3. Unborn = [N EXCEPT !.state = "Unborn", !.tasks = none]
  BY Zenon DEF Unborn
<1> HIDE DEF N, none
<1>4. QED BY <1>1, <1>2, <1>3, Zenon DEF ProcessRecord, ProcessState

\* The child has a copy of the memory, one thread, and a link to its parent.
LEMMA ForkFacts ==
  ASSUME NEW k \in Table, NEW p \in Proc, NEW t \in Tid, NEW c \in Proc, c # p
  PROVE  ForkMakes(k, new_fork(k, p, t, c), p, c)
<1> DEFINE f == k[p].tasks[t].frame
           N == NewProcess(NoProc, k[p].stacks, f)
           r == [N EXCEPT !.parent = p]
           s == [k[p] EXCEPT !.children = Append(k[p].children, c)]
           j == [[k EXCEPT ![c] = r] EXCEPT ![p] = s]
<1>0. p \in AllProc /\ c \in AllProc
  BY Zenon DEF AllProc
<1>1. /\ k[p] \in ProcessRecord /\ k[p].tasks[t] \in Thread /\ f \in Frame
      /\ k[p].stacks \in SUBSET Tid /\ k[p].children \in Seq(Proc)
  BY <1>0 DEF Table, ProcessRecord, Thread
<1> HIDE DEF f
<1>2. /\ KeptThread(NewThread(f)) /\ NewThread(f).state = "Ready"
      /\ KeptThread(NoThread) /\ NoThread.state = "None"
  BY <1>1, NewThreads, Zenon DEF NewThread, NoThread
<1>3. /\ N \in ProcessRecord /\ N.state = "Normal"
      /\ N.children = <<>> /\ N.next_tid = 1 /\ N.late = 0 /\ N.stacks = k[p].stacks
      /\ N.tasks = [i \in Tid |-> IF i = 0 THEN NewThread(f) ELSE NoThread]
  <2>1. NoProc \in AllProc \union {NoProc}
    BY Zenon
  <2>2. NewMakes(N, NoProc, k[p].stacks, f)
    BY <1>1, <2>1, NewRecords, Zenon
  <2>3. QED BY <2>2, Zenon DEF NewMakes
<1> HIDE DEF N
<1>4. \A i \in Tid : N.tasks[i] = IF i = 0 THEN NewThread(f) ELSE NoThread
  BY <1>3, Zenon
<1>5. /\ r \in ProcessRecord /\ r.tasks = N.tasks /\ r.state = "Normal" /\ r.parent = p
      /\ r.children = <<>> /\ r.next_tid = 1 /\ r.late = 0 /\ r.stacks = k[p].stacks
  BY <1>0, <1>3, Zenon DEF ProcessRecord
<1>6. Append(k[p].children, c) \in Seq(Proc)
  BY <1>1, AppendProperties, Zenon
<1>7. /\ s \in ProcessRecord /\ s.children = Append(k[p].children, c)
      /\ s.state = k[p].state /\ s.exit_code = k[p].exit_code
      /\ s.parent = k[p].parent /\ s.tasks = k[p].tasks
      /\ s.next_tid = k[p].next_tid /\ s.late = k[p].late /\ s.stacks = k[p].stacks
  BY <1>1, <1>6, Zenon DEF ProcessRecord
<1>8. new_fork(k, p, t, c) = j
  BY <1>0, Zenon DEF new_fork, add_child, Table, N, f
<1> HIDE DEF r, s
<1>9. j \in Table /\ j[p] = s /\ j[c] = r /\ \A q \in AllProc \ {p, c} : j[q] = k[q]
  BY <1>0, <1>5, <1>7, Zenon DEF Table
<1> HIDE DEF j
<1>10. \A i \in Tid : /\ KeptThread(j[c].tasks[i])
                      /\ j[c].tasks[i].state = IF i = 0 THEN "Ready" ELSE "None"
  BY <1>2, <1>4, <1>5, <1>9
<1>11. ForkMakes(k, j, p, c)
  BY <1>5, <1>7, <1>9, <1>10, Zenon DEF ForkMakes
<1>12. QED BY <1>8, <1>11, Zenon

\* A child is in the list of its parent and in PROC_MAP before it runs.
LEMMA ForkKeeps ==
  ASSUME NEW k, NEW m, NEW p \in Proc, NEW t \in Tid, NEW c \in Proc, TableInv(k, m),
         k[p].tasks[t].state = "Ready", k[c].state = "Unborn"
  PROVE  LET j == new_fork(k, p, t, c)
         IN  /\ TableInv(j, m \union {c}) /\ CodesKept(k, j)
             /\ ThreadsKept(k, j, p, t) /\ j[p].tasks[t].state = "Ready"
<1> DEFINE j == new_fork(k, p, t, c)
           n == m \union {c}
<1> /\ k \in Table /\ m \subseteq Proc /\ Proc \subseteq AllProc /\ RootProc \in AllProc
    /\ p # RootProc /\ c # RootProc /\ p \in AllProc /\ c \in AllProc
  BY ProcAssumption, Zenon DEF TableInv, AllProc
<1>1. t \in Alive(k, p) /\ Dead(k, c)
  BY Zenon DEF Alive, Dead
<1>2. ~Dead(k, p) /\ k[p].state # "Zombie" /\ k[p].stacks # {} /\ c # p
  BY <1>1, Zenon DEF TableInv, GoneEmpty, MemoryKept, Dead
<1>3. ForkMakes(k, j, p, c)
  BY <1>2, ForkFacts, Zenon
<1> HIDE DEF j
<1>4. \A q \in AllProc \ {c} :
        /\ j[q].state = k[q].state /\ j[q].exit_code = k[q].exit_code
        /\ j[q].parent = k[q].parent /\ j[q].tasks = k[q].tasks
        /\ j[q].next_tid = k[q].next_tid /\ j[q].late = k[q].late /\ j[q].stacks = k[q].stacks
        /\ Alive(j, q) = Alive(k, q) /\ (Dead(j, q) <=> Dead(k, q))
  BY <1>3 DEF Alive, Dead, ForkMakes
<1>5. ~Dead(j, c) /\ 0 \in Alive(j, c)
  <2>1. 0 \in Tid
    BY ProcAssumption DEF Tid
  <2>2. QED BY <1>3, <2>1, Zenon DEF Dead, Alive, ForkMakes
<1>6. \A q \in AllProc : k[q].children \in Seq(Proc)
  BY Zenon DEF Table, ProcessRecord
<1>7. \A x : x \notin Range(<<>>)
  BY EmptyRange, Zenon
<1>8. \A q \in AllProc, x \in Proc :
        x \in Range(j[q].children) <=> x \in Range(k[q].children) \/ (q = p /\ x = c)
  <2>1. k[c].children = <<>>
    BY <1>1, Zenon DEF TableInv, GoneEmpty
  <2>2. \A x : x \in Range(j[p].children) <=> x \in Range(k[p].children) \/ x = c
    <3>1. k[p].children \in Seq(Proc)
      BY <1>6, Zenon
    <3>2. QED BY <1>3, <3>1, AppendMember DEF ForkMakes
  <2>3. \A q \in AllProc \ {p} : j[q].children = k[q].children
    BY <1>3, <2>1 DEF ForkMakes
  <2>4. ASSUME NEW q \in AllProc, NEW x \in Proc
        PROVE  x \in Range(j[q].children) <=> x \in Range(k[q].children) \/ (q = p /\ x = c)
    <3>1. CASE q = p
      BY <2>2, <3>1, Zenon
    <3>2. CASE q # p
      <4>1. j[q].children = k[q].children
        BY <2>3, <3>2, Zenon
      <4>2. QED BY <3>2, <4>1, Zenon
    <3>3. QED BY <3>1, <3>2, Zenon
  <2>5. QED BY <2>4, Zenon
<1>9. \A q \in AllProc : c \notin Range(k[q].children)
  BY <1>1, Zenon DEF TableInv, ListedOnce
<1>10. RootStays(j)
  BY <1>4, Zenon DEF TableInv, RootStays
<1>11. TidsFresh(j)
  <2>1. j[c].late <= j[c].next_tid
    BY <1>3 DEF ForkMakes
  <2>2. ASSUME NEW i \in Tid, i >= j[c].next_tid PROVE j[c].tasks[i].state = "None"
    BY <1>3, <2>2 DEF ForkMakes
  <2>3. QED BY <1>4, <2>1, <2>2 DEF TableInv, TidsFresh
<1>12. GoneEmpty(j)
  <2>1. SUFFICES ASSUME NEW q \in AllProc, Dead(j, q)
                 PROVE  Alive(j, q) = {} /\ j[q].children = <<>>
    BY Zenon DEF GoneEmpty
  <2>2. q # c /\ q # p
    BY <1>2, <1>4, <1>5, <2>1, Zenon
  <2>3. QED BY <1>3, <1>4, <2>1, <2>2 DEF TableInv, GoneEmpty, ForkMakes
<1>13. Findable(j, n)
  BY <1>3, <1>4 DEF TableInv, Findable, ForkMakes
<1>14. ListedOnce(j)
  <2>1. SUFFICES ASSUME NEW x \in Proc, NEW q \in AllProc, x \in Range(j[q].children)
                 PROVE  ~Dead(j, x) /\ j[x].parent = q /\ Once(j[q].children, x)
    BY Zenon DEF ListedOnce
  <2>2. CASE x = c
    <3>1. q = p
      BY <1>8, <1>9, <2>1, <2>2, Zenon
    <3>2. Once(k[p].children, c)
      BY <1>6, <1>9, AbsentOnce, Zenon
    <3>3. Once(Append(k[p].children, c), c)
      BY <1>6, <1>9, <3>2, AppendMember
    <3>4. QED BY <1>3, <1>5, <2>2, <3>1, <3>3, Zenon DEF ForkMakes
  <2>3. CASE x # c
    <3>1. x \in Range(k[q].children)
      BY <1>8, <2>1, <2>3, Zenon
    <3>2. ~Dead(k, x) /\ k[x].parent = q /\ Once(k[q].children, x)
      BY <3>1, Zenon DEF TableInv, ListedOnce
    <3>3. Once(j[q].children, x)
      <4>1. CASE q = p
        <5>1. k[p].children \in Seq(Proc) /\ Once(k[p].children, x)
          BY <1>6, <3>2, <4>1, Zenon
        <5>2. Once(Append(k[p].children, c), x)
          BY <2>3, <5>1, AppendMember
        <5>3. QED BY <1>3, <4>1, <5>2, Zenon DEF ForkMakes
      <4>2. CASE q # p
        <5>1. q # c
          BY <1>9, <3>1, <1>1, <1>7, Zenon DEF TableInv, GoneEmpty
        <5>2. QED BY <1>3, <3>2, <4>2, <5>1, Zenon DEF ForkMakes
      <4>3. QED BY <4>1, <4>2, Zenon
    <3>4. QED BY <1>4, <2>3, <3>2, <3>3, Zenon
  <2>4. QED BY <2>2, <2>3, Zenon
<1>15. Linked(j, n)
  <2>1. SUFFICES ASSUME NEW x \in Proc, ~Dead(j, x)
                 PROVE  \/ x \in Range(j[j[x].parent].children)
                        \/ j[j[x].parent].state = "Reaped" /\ x \in n
    BY Zenon DEF Linked
  <2>2. CASE x = c
    BY <1>3, <1>8, <2>2, Zenon DEF ForkMakes
  <2>3. CASE x # c
    <3>1. ~Dead(k, x) /\ j[x].parent = k[x].parent /\ k[x].parent \in AllProc
      BY <1>4, <2>1, <2>3, Zenon DEF TableInv, Findable
    <3>2. \/ x \in Range(k[k[x].parent].children)
          \/ k[k[x].parent].state = "Reaped" /\ x \in m
      BY <3>1, Zenon DEF TableInv, Linked
    <3>3. CASE x \in Range(k[k[x].parent].children)
      BY <1>8, <3>1, <3>3, Zenon
    <3>4. CASE k[k[x].parent].state = "Reaped" /\ x \in m
      <4>1. k[x].parent \in AllProc \ {c}
        BY <3>1, <3>4, Zenon
      <4>2. j[k[x].parent].state = "Reaped"
        BY <1>4, <3>4, <4>1, Zenon
      <4>3. QED BY <3>1, <3>4, <4>2, Zenon
    <3>5. QED BY <3>2, <3>3, <3>4, Zenon
  <2>4. QED BY <2>2, <2>3, Zenon
<1>16. MemoryKept(j)
  <2>1. MemoryKept(k)
    BY Zenon DEF TableInv
  <2>2. j[c].state # "Zombie" /\ Alive(j, c) # {} /\ j[c].stacks # {}
    BY <1>2, <1>3, <1>5, Zenon DEF ForkMakes
  <2>3. QED BY <1>3, <1>4, <2>1, <2>2 DEF MemoryKept
<1>17. StopSent(j)
  <2>1. StopSent(k)
    BY Zenon DEF TableInv
  <2>2. j[c].state # "Stop"
    BY <1>3 DEF ForkMakes
  <2>3. QED BY <1>3, <1>4, <2>1, <2>2, Zenon DEF StopSent
<1>18. ContextsKept(j)
  <2>1. ContextsKept(k)
    BY Zenon DEF TableInv
  <2>2. SUFFICES ASSUME NEW q \in Proc, NEW i \in Tid PROVE KeptThread(j[q].tasks[i])
    BY Zenon DEF ContextsKept
  <2>3. CASE q = c
    BY <1>3, <2>3, Zenon DEF ForkMakes
  <2>4. CASE q # c
    <3>1. j[q].tasks = k[q].tasks
      BY <1>4, <2>4, Zenon
    <3>2. QED BY <2>1, <3>1, Zenon DEF ContextsKept
  <2>5. QED BY <2>3, <2>4, Zenon
<1>19. CodesKept(k, j)
  BY <1>4, Zenon DEF CodesKept
<1>20. ThreadsKept(k, j, p, t)
  <2>1. \A q \in AllProc, i \in Tid : k[q].tasks[i].state = "Ready" => q # c
    BY <1>1, Zenon DEF TableInv, GoneEmpty, Alive
  <2>2. QED BY <1>2, <1>4, <2>1, SameThread DEF ThreadsKept
<1>21. TableInv(j, n)
  BY <1>3, <1>10, <1>11, <1>12, <1>13, <1>14, <1>15, <1>16, <1>17, <1>18, Zenon DEF TableInv, ForkMakes
<1>22. QED BY <1>3, <1>19, <1>20, <1>21, Zenon DEF j, ForkMakes

----------------------------------------------------------------------------
(* Process::stop and waitpid.                                              *)

\* That is what sys_kill and Process::stop do to the threads.
LEMMA SignalledFacts ==
  ASSUME NEW k \in Table, NEW q \in AllProc, NEW sig \in Sig
  PROVE  SignalMakes(k, Signalled(k, q, sig), q, sig)
<1> DEFINE ts == [i \in Tid |->
                    IF i \in Alive(k, q) THEN WithSignal(k[q].tasks[i], sig)
                    ELSE k[q].tasks[i]]
           r == [k[q] EXCEPT !.tasks = ts]
           j == [k EXCEPT ![q] = r]
<1>1. k[q] \in ProcessRecord /\ \A i \in Tid : k[q].tasks[i] \in Thread
  BY Zenon DEF Table, ProcessRecord
<1>2. ts \in [Tid -> Thread]
  <2>1. ASSUME NEW i \in Tid
        PROVE  WithSignal(k[q].tasks[i], sig) \in Thread
    <3>1. k[q].tasks[i].signals \union {sig} \in SUBSET Sig
      BY <1>1, Zenon DEF Thread
    <3> HIDE DEF ts, r, j
    <3> DEFINE th == k[q].tasks[i]
               g == th.signals \union {sig}
    <3>2. th \in Thread
      BY <1>1, Zenon
    <3> HIDE DEF th, g
    <3>3. [th EXCEPT !.signals = g] \in Thread
      BY <3>1, <3>2, Zenon DEF Thread, th, g
    <3>4. QED BY <3>3, Zenon DEF WithSignal, th, g
  <2>2. QED BY <1>1, <2>1, Zenon
<1>3. Signalled(k, q, sig) = j
  BY Zenon DEF Signalled, WithSignal
<1>4. \A i \in Tid :
        ts[i] = IF i \in Alive(k, q) THEN WithSignal(k[q].tasks[i], sig) ELSE k[q].tasks[i]
  BY Zenon
<1> HIDE DEF ts
<1>5. /\ r \in ProcessRecord /\ r.tasks = ts
      /\ r.state = k[q].state /\ r.exit_code = k[q].exit_code
      /\ r.parent = k[q].parent /\ r.children = k[q].children
      /\ r.next_tid = k[q].next_tid /\ r.late = k[q].late /\ r.stacks = k[q].stacks
  BY <1>1, <1>2, Zenon DEF ProcessRecord
<1> HIDE DEF r
<1>6. j \in Table /\ j[q] = r /\ \A o \in AllProc \ {q} : j[o] = k[o]
  BY <1>5, Zenon DEF Table
<1> HIDE DEF j
<1>7. QED BY <1>3, <1>4, <1>5, <1>6, Zenon DEF SignalMakes

\* What a signal does to one thread.
LEMMA SignalledThread ==
  ASSUME NEW th \in Thread, NEW sig
  PROVE  LET u == WithSignal(th, sig)
         IN  /\ u.state = th.state
             /\ u.signals = th.signals \union {sig}
             /\ [u EXCEPT !.signals = th.signals] = th
             /\ KeptThread(th) => KeptThread(u)
<1> DEFINE u == WithSignal(th, sig)
<1>1. /\ u.state = th.state /\ u.signals = th.signals \union {sig}
      /\ u.handling_sig = th.handling_sig /\ u.trapframe_backup = th.trapframe_backup
      /\ u.mask_backup = th.mask_backup /\ u.nested = th.nested /\ u.outer = th.outer
  BY Zenon DEF Thread, WithSignal
<1>2. [u EXCEPT !.signals = th.signals] = th
  BY Zenon DEF Thread, WithSignal
<1> HIDE DEF u
<1>3. KeptThread(th) => KeptThread(u)
  BY <1>1, ContextSame, Zenon
<1>4. QED BY <1>1, <1>2, <1>3, Zenon DEF u

----------------------------------------------------------------------------
(* Process::stop.                                                          *)

\* Process::stop puts one list behind another.
LEMMA ConcatMember ==
  ASSUME NEW S, NEW s \in Seq(S), NEW u \in Seq(S), NEW x
  PROVE  /\ s \o u \in Seq(S)
         /\ x \in Range(s \o u) <=> x \in Range(s) \/ x \in Range(u)
         /\ Once(s, x) /\ Once(u, x) /\ ~(x \in Range(s) /\ x \in Range(u)) => Once(s \o u, x)
<1> DEFINE a == s \o u
<1>1. /\ a \in Seq(S)
      /\ Len(a) = Len(s) + Len(u)
      /\ \A i \in 1 .. Len(s) + Len(u) : a[i] = IF i <= Len(s) THEN s[i] ELSE u[i - Len(s)]
  BY ConcatProperties, Zenon
<1>2. /\ Len(s) \in Nat /\ Len(u) \in Nat
      /\ DOMAIN s = 1 .. Len(s)
      /\ DOMAIN u = 1 .. Len(u)
      /\ DOMAIN a = 1 .. Len(s) + Len(u)
  BY <1>1, LenProperties, Zenon
<1> HIDE DEF a
<1>3. x \in Range(a) <=> x \in Range(s) \/ x \in Range(u)
  <2>1. ASSUME x \in Range(a) PROVE x \in Range(s) \/ x \in Range(u)
    <3>1. PICK i \in 1 .. Len(a) : a[i] = x
      BY <2>1 DEF Range
    <3>2. CASE i <= Len(s)
      BY <1>1, <1>2, <3>1, <3>2 DEF Range
    <3>3. CASE i > Len(s)
      <4>1. i - Len(s) \in 1 .. Len(u) /\ u[i - Len(s)] = x
        BY <1>1, <1>2, <3>1, <3>3
      <4>2. QED BY <4>1 DEF Range
    <3>4. QED BY <1>1, <1>2, <3>2, <3>3
  <2>2. ASSUME x \in Range(s) PROVE x \in Range(a)
    BY <1>1, <1>2, <2>2 DEF Range
  <2>3. ASSUME x \in Range(u) PROVE x \in Range(a)
    <3>1. PICK i \in 1 .. Len(u) : u[i] = x
      BY <2>3 DEF Range
    <3>2. /\ i + Len(s) \in 1 .. Len(s) + Len(u)
          /\ ~(i + Len(s) <= Len(s)) /\ (i + Len(s)) - Len(s) = i
      BY <1>2
    <3>3. i + Len(s) \in DOMAIN a /\ a[i + Len(s)] = x
      BY <1>1, <1>2, <3>1, <3>2, Zenon
    <3>4. QED BY <3>3, Zenon DEF Range
  <2>4. QED BY <2>1, <2>2, <2>3, Zenon
<1>4. ASSUME Once(s, x), Once(u, x), ~(x \in Range(s) /\ x \in Range(u)) PROVE Once(a, x)
  <2>1. SUFFICES ASSUME NEW i \in DOMAIN a, NEW j \in DOMAIN a, a[i] = x, a[j] = x
                 PROVE  i = j
    BY Zenon DEF Once
  <2>2. CASE i <= Len(s) /\ j <= Len(s)
    BY <1>1, <1>2, <1>4, <2>1, <2>2 DEF Once
  <2>3. CASE i > Len(s) /\ j > Len(s)
    <3>1. i - Len(s) \in DOMAIN u /\ j - Len(s) \in DOMAIN u
      BY <1>2, <2>3
    <3>2. u[i - Len(s)] = x /\ u[j - Len(s)] = x
      BY <1>1, <1>2, <2>1, <2>3
    <3>3. i - Len(s) = j - Len(s)
      BY <1>4, <3>1, <3>2, Zenon DEF Once
    <3>4. QED BY <1>2, <3>3
  <2>4. ASSUME NEW m \in DOMAIN a, NEW n \in DOMAIN a, a[m] = x, a[n] = x,
               m <= Len(s), n > Len(s)
        PROVE  FALSE
    <3>1. x \in Range(s)
      BY <1>1, <1>2, <2>4 DEF Range
    <3>2. n - Len(s) \in 1 .. Len(u) /\ u[n - Len(s)] = x
      BY <1>1, <1>2, <2>4
    <3>3. QED BY <1>4, <3>1, <3>2 DEF Range
  <2>5. QED BY <1>2, <2>1, <2>2, <2>3, <2>4
<1>5. QED BY <1>1, <1>3, <1>4, Zenon DEF a

\* The list of children is handed over, and SIGKILL is sent.
LEMMA StopFacts ==
  ASSUME NEW k \in Table, NEW p \in Proc, NEW code \in Int
  PROVE  StopMakes(k, stop(k, p, code), p)
<1> DEFINE a == Adopted(k, p)
           s == Signalled(a, p, SIGKILL)
           r == [s[p] EXCEPT !.children = <<>>, !.state = "Stop", !.exit_code = code,
                             !.late = k[p].next_tid]
           j == [s EXCEPT ![p] = r]
<1> p \in AllProc /\ RootProc \in AllProc /\ p # RootProc /\ SIGKILL \in Sig
  BY ProcAssumption DEF AllProc, SIGKILL, Sig, MAX_SIG
<1>1. \A q \in AllProc : k[q] \in ProcessRecord
  BY Zenon DEF Table
<1>2. \A q \in AllProc :
        /\ a[q] \in ProcessRecord
        /\ a[q].parent = IF q # RootProc /\ q \in Range(k[p].children) THEN RootProc
                         ELSE k[q].parent
        /\ a[q].children = IF q = RootProc THEN k[RootProc].children \o k[p].children
                           ELSE k[q].children
        /\ a[q].state = k[q].state /\ a[q].exit_code = k[q].exit_code
        /\ a[q].tasks = k[q].tasks /\ a[q].next_tid = k[q].next_tid
        /\ a[q].late = k[q].late /\ a[q].stacks = k[q].stacks
  <2>1. SUFFICES ASSUME NEW q \in AllProc
                 PROVE
        /\ a[q] \in ProcessRecord
        /\ a[q].parent = IF q # RootProc /\ q \in Range(k[p].children) THEN RootProc
                         ELSE k[q].parent
        /\ a[q].children = IF q = RootProc THEN k[RootProc].children \o k[p].children
                           ELSE k[q].children
        /\ a[q].state = k[q].state /\ a[q].exit_code = k[q].exit_code
        /\ a[q].tasks = k[q].tasks /\ a[q].next_tid = k[q].next_tid
        /\ a[q].late = k[q].late /\ a[q].stacks = k[q].stacks
    BY Zenon
  <2>2. a[q] = IF q = RootProc THEN [k[q] EXCEPT !.children = @ \o k[p].children]
               ELSE IF q \in Range(k[p].children) THEN [k[q] EXCEPT !.parent = RootProc]
               ELSE k[q]
    BY Zenon DEF Adopted
  <2>3. k[RootProc].children \o k[p].children \in Seq(Proc)
    <3>1. k[RootProc].children \in Seq(Proc) /\ k[p].children \in Seq(Proc)
      BY <1>1, Zenon DEF ProcessRecord
    <3>2. QED BY <3>1, ConcatProperties, Zenon
  <2> HIDE DEF a
  <2>4. CASE q = RootProc
    <3> DEFINE l == k[RootProc].children \o k[p].children
    <3>1. a[q] = [k[q] EXCEPT !.children = l]
      BY <2>2, <2>4, Zenon
    <3> HIDE DEF l
    <3>2. l \in Seq(Proc)
      BY <2>3, Zenon DEF l
    <3>3. /\ a[q] \in ProcessRecord /\ a[q].children = l /\ a[q].parent = k[q].parent
          /\ a[q].state = k[q].state /\ a[q].exit_code = k[q].exit_code
          /\ a[q].tasks = k[q].tasks /\ a[q].next_tid = k[q].next_tid
          /\ a[q].late = k[q].late /\ a[q].stacks = k[q].stacks
      BY <1>1, <3>1, <3>2, Zenon DEF ProcessRecord
    <3>4. QED BY <2>4, <3>3, Zenon DEF l
  <2>5. CASE q # RootProc /\ q \in Range(k[p].children)
    <3>1. a[q] = [k[q] EXCEPT !.parent = RootProc]
      BY <2>2, <2>5, Zenon
    <3>2. /\ a[q] \in ProcessRecord /\ a[q].children = k[q].children /\ a[q].parent = RootProc
          /\ a[q].state = k[q].state /\ a[q].exit_code = k[q].exit_code
          /\ a[q].tasks = k[q].tasks /\ a[q].next_tid = k[q].next_tid
          /\ a[q].late = k[q].late /\ a[q].stacks = k[q].stacks
      BY <1>1, <3>1, Zenon DEF ProcessRecord
    <3>3. QED BY <2>5, <3>2, Zenon
  <2>6. CASE q # RootProc /\ q \notin Range(k[p].children)
    <3>1. a[q] = k[q]
      BY <2>2, <2>6, Zenon
    <3>2. QED BY <1>1, <2>6, <3>1, Zenon
  <2>7. QED BY <2>4, <2>5, <2>6, Zenon
<1>3. a \in Table
  BY <1>2, Zenon DEF Adopted, Table
<1> HIDE DEF a
<1>4. Alive(a, p) = Alive(k, p)
  BY <1>2, Zenon DEF Alive
<1>5. /\ s \in Table
      /\ \A o \in AllProc \ {p} : s[o] = a[o]
      /\ s[p].parent = a[p].parent /\ s[p].next_tid = a[p].next_tid
      /\ s[p].stacks = a[p].stacks
      /\ \A i \in Tid : s[p].tasks[i] =
            IF i \in Alive(a, p) THEN WithSignal(a[p].tasks[i], SIGKILL) ELSE a[p].tasks[i]
  BY <1>3, SignalledFacts DEF SignalMakes
<1>6. stop(k, p, code) = j
  BY <1>5, Zenon DEF stop, a, Table
<1> HIDE DEF s
<1>7. s[p] \in ProcessRecord /\ <<>> \in Seq(Proc) /\ k[p].next_tid \in 0 .. MaxTid + 1
  BY <1>1, <1>5, ProcAssumption DEF Table, ProcessRecord
<1>8. /\ r \in ProcessRecord /\ r.children = <<>> /\ r.state = "Stop" /\ r.late = k[p].next_tid
      /\ r.parent = s[p].parent /\ r.tasks = s[p].tasks /\ r.next_tid = s[p].next_tid
      /\ r.stacks = s[p].stacks
  BY <1>7, Zenon DEF ProcessRecord, ProcessState
<1> HIDE DEF r
<1>9. j \in Table /\ j[p] = r /\ \A q \in AllProc \ {p} : j[q] = s[q]
  BY <1>5, <1>8, Zenon DEF Table
<1> HIDE DEF j
<1>10. \A q \in AllProc \ {p} : j[q] = a[q]
  BY <1>5, <1>9, Zenon
<1>11. \A i \in Tid : j[p].tasks[i] =
         IF i \in Alive(k, p) THEN WithSignal(k[p].tasks[i], SIGKILL) ELSE k[p].tasks[i]
  BY <1>2, <1>4, <1>5, <1>8, <1>9, Zenon
<1>12. /\ j[p].parent = a[p].parent /\ j[p].next_tid = k[p].next_tid
       /\ j[p].stacks = k[p].stacks
  BY <1>2, <1>5, <1>8, <1>9, Zenon
<1>13. \A q \in AllProc \ {RootProc} :
         j[q].parent = IF q \in Range(k[p].children) THEN RootProc ELSE k[q].parent
  BY <1>2, <1>10, <1>12
<1>14. /\ j[RootProc].parent = k[RootProc].parent
       /\ j[RootProc].children = k[RootProc].children \o k[p].children
  <2>1. j[RootProc] = a[RootProc]
    BY <1>10, Zenon
  <2>2. QED BY <1>2, <2>1, Zenon
<1>15. \A q \in AllProc \ {p, RootProc} : j[q].children = k[q].children
  <2>1. SUFFICES ASSUME NEW q \in AllProc \ {p, RootProc}
                 PROVE  j[q].children = k[q].children
    BY Zenon
  <2>2. j[q] = a[q]
    BY <1>10, Zenon
  <2>3. a[q].children = k[q].children
    BY <1>2, Zenon
  <2>4. QED BY <2>2, <2>3, Zenon
<1>16. \A q \in AllProc : j[q].next_tid = k[q].next_tid /\ j[q].stacks = k[q].stacks
  BY <1>2, <1>10, <1>12
<1>17. \A q \in AllProc \ {p} : /\ j[q].state = k[q].state /\ j[q].late = k[q].late
                                 /\ j[q].exit_code = k[q].exit_code
                                 /\ j[q].tasks = k[q].tasks
  BY <1>2, <1>10
<1>18. j[p].children = <<>> /\ j[p].state = "Stop" /\ j[p].late = k[p].next_tid
  BY <1>8, <1>9, Zenon
<1>19. StopMakes(k, j, p)
  BY <1>9, <1>11, <1>13, <1>14, <1>15, <1>16, <1>17, <1>18, Zenon DEF StopMakes
<1>20. QED BY <1>6, <1>19, Zenon

\* The children of a process that stops are in one list at any time, and all
\* its threads are to be killed.
LEMMA StopKeeps ==
  ASSUME NEW k, NEW m, NEW p \in Proc, NEW t \in Tid, NEW code \in Int, TableInv(k, m),
         k[p].tasks[t].state = "Ready"
  PROVE  LET j == stop(k, p, code)
         IN  /\ TableInv(j, m) /\ CodesKept(k, j)
             /\ ThreadsKept(k, j, p, t) /\ j[p].tasks[t].state = "Ready"
<1> DEFINE j == stop(k, p, code)
<1> /\ k \in Table /\ m \subseteq Proc /\ Proc \subseteq AllProc /\ RootProc \in AllProc
    /\ p # RootProc /\ RootProc \notin Proc /\ p \in AllProc
  BY ProcAssumption, Zenon DEF TableInv, AllProc
<1> StopMakes(k, j, p)
  BY StopFacts, Zenon
<1>2. \A i \in Tid :
        /\ WithSignal(k[p].tasks[i], SIGKILL).state = k[p].tasks[i].state
        /\ WithSignal(k[p].tasks[i], SIGKILL).signals = k[p].tasks[i].signals \union {SIGKILL}
        /\ [WithSignal(k[p].tasks[i], SIGKILL) EXCEPT !.signals = k[p].tasks[i].signals] = k[p].tasks[i]
        /\ KeptThread(k[p].tasks[i]) => KeptThread(WithSignal(k[p].tasks[i], SIGKILL))
  BY SameThread, SignalledThread, Zenon
<1> HIDE DEF j
<1>3. \A i \in Tid :
        /\ j[p].tasks[i].state = k[p].tasks[i].state
        /\ i \in Alive(k, p) => SIGKILL \in j[p].tasks[i].signals
        /\ KeptThread(k[p].tasks[i]) => KeptThread(j[p].tasks[i])
  <2>1. SUFFICES ASSUME NEW i \in Tid
                 PROVE  /\ j[p].tasks[i].state = k[p].tasks[i].state
                        /\ i \in Alive(k, p) => SIGKILL \in j[p].tasks[i].signals
                        /\ KeptThread(k[p].tasks[i]) => KeptThread(j[p].tasks[i])
    BY Zenon
  <2>2. CASE i \in Alive(k, p)
    <3> DEFINE th == k[p].tasks[i]
               u == j[p].tasks[i]
    <3>1. /\ WithSignal(th, SIGKILL).state = th.state
          /\ WithSignal(th, SIGKILL).signals = th.signals \union {SIGKILL}
          /\ KeptThread(th) => KeptThread(WithSignal(th, SIGKILL))
      BY <1>2, Zenon
    <3>2. u = WithSignal(th, SIGKILL)
      BY <2>2, Zenon DEF StopMakes
    <3> HIDE DEF th, u
    <3>3. u.signals = th.signals \union {SIGKILL}
      BY <3>1, <3>2, Zenon
    <3>4. QED BY <3>1, <3>2, <3>3, Zenon DEF u, th
  <2>3. CASE i \notin Alive(k, p)
    <3>1. j[p].tasks[i] = k[p].tasks[i]
      BY <2>3, Zenon DEF StopMakes
    <3>2. QED BY <2>3, <3>1, Zenon
  <2>4. QED BY <2>2, <2>3, Zenon
<1>4. \A q \in AllProc, i \in Tid : j[q].tasks[i].state = k[q].tasks[i].state
  BY <1>3, Zenon DEF StopMakes
<1>5. \A q \in AllProc : Alive(j, q) = Alive(k, q)
  BY <1>4, Zenon DEF Alive
<1>6. t \in Alive(k, p)
  BY Zenon DEF Alive
<1>7. ~Dead(k, p) /\ k[p].state # "Zombie" /\ ~Dead(j, p) /\ k[p].stacks # {}
  <2>1. ~Dead(k, p)
    BY <1>6, Zenon DEF TableInv, GoneEmpty
  <2>2. k[p].state # "Zombie" /\ k[p].stacks # {}
    BY <1>6, <2>1, Zenon DEF TableInv, MemoryKept
  <2>3. QED BY <2>1, <2>2, Zenon DEF StopMakes, Dead
<1>8. \A q \in AllProc : Dead(j, q) <=> Dead(k, q)
  BY <1>7, Zenon DEF StopMakes, Dead
<1>9. \A q \in AllProc : k[q].children \in Seq(Proc)
  BY Zenon DEF Table, ProcessRecord
<1>10. \A x \in Proc, q \in AllProc : x \in Range(k[q].children) =>
         ~Dead(k, x) /\ k[x].parent = q /\ Once(k[q].children, x)
  BY Zenon DEF TableInv, ListedOnce
<1>11. \A x : x \in Range(j[RootProc].children) <=>
              x \in Range(k[RootProc].children) \/ x \in Range(k[p].children)
  <2>1. j[RootProc].children = k[RootProc].children \o k[p].children
    BY Zenon DEF StopMakes
  <2>2. QED BY <1>9, <2>1, ConcatMember, Zenon
<1>12. \A x \in Proc : j[x].parent = IF x \in Range(k[p].children) THEN RootProc ELSE k[x].parent
  BY Zenon DEF StopMakes
<1>13. RootStays(j)
  <2>1. RootStays(k)
    BY Zenon DEF TableInv
  <2>2. j[RootProc].state = k[RootProc].state
    BY Zenon DEF StopMakes
  <2>3. QED BY <1>4, <2>1, <2>2, Zenon DEF RootStays
<1>14. TidsFresh(j)
  <2>1. j[p].late <= j[p].next_tid
    <3>1. k[p].next_tid \in Int
      BY DEF Table, ProcessRecord
    <3>2. j[p].late = k[p].next_tid /\ j[p].next_tid = k[p].next_tid
      BY Zenon DEF StopMakes
    <3>3. QED BY <3>1, <3>2
  <2>2. \A q \in AllProc : j[q].next_tid = k[q].next_tid /\ (q # p => j[q].late = k[q].late)
    BY Zenon DEF StopMakes
  <2>3. TidsFresh(k)
    BY Zenon DEF TableInv
  <2>4. QED BY <1>4, <2>1, <2>2, <2>3 DEF TidsFresh
<1>15. GoneEmpty(j)
  <2>1. SUFFICES ASSUME NEW q \in AllProc, Dead(j, q)
                 PROVE  Alive(j, q) = {} /\ j[q].children = <<>>
    BY Zenon DEF GoneEmpty
  <2>2. Alive(j, q) = {} /\ k[q].children = <<>> /\ q # p
    BY <1>5, <1>7, <1>8, <2>1, Zenon DEF TableInv, GoneEmpty
  <2>3. q # RootProc
    BY <1>13, <2>1, Zenon DEF RootStays, Dead
  <2>4. QED BY <2>2, <2>3, Zenon DEF StopMakes
<1>16. Findable(j, m)
  <2>1. SUFFICES ASSUME NEW x \in Proc, ~Dead(j, x)
                 PROVE  j[x].parent \in AllProc /\ (x \in m \/ j[x].parent = RootProc)
    BY Zenon DEF Findable
  <2>2. k[x].parent \in AllProc /\ (x \in m \/ k[x].parent = RootProc)
    BY <1>8, <2>1, Zenon DEF TableInv, Findable
  <2>3. QED BY <1>12, <2>2, Zenon
<1>17. ListedOnce(j)
  <2>1. SUFFICES ASSUME NEW x \in Proc, NEW q \in AllProc, x \in Range(j[q].children)
                 PROVE  ~Dead(j, x) /\ j[x].parent = q /\ Once(j[q].children, x)
    BY Zenon DEF ListedOnce
  <2>2. q # p
    BY <2>1, EmptyRange, Zenon DEF StopMakes
  <2>3. CASE q # RootProc
    <3>1. x \in Range(k[q].children) /\ j[q].children = k[q].children
      BY <2>1, <2>2, <2>3, Zenon DEF StopMakes
    <3>2. ~Dead(k, x) /\ k[x].parent = q /\ Once(k[q].children, x)
      BY <1>10, <3>1, Zenon
    <3>3. x \notin Range(k[p].children)
      BY <1>10, <2>2, <3>2, Zenon
    <3>4. QED BY <1>8, <1>12, <3>1, <3>2, <3>3, Zenon
  <2>4. CASE q = RootProc
    <3>1. ~(x \in Range(k[RootProc].children) /\ x \in Range(k[p].children))
      BY <1>10, Zenon
    <3>2. ~Dead(k, x) /\ j[x].parent = RootProc
      BY <1>10, <1>11, <1>12, <2>1, <2>4, Zenon
    <3>3. Once(k[RootProc].children, x)
      BY <1>9, <1>10, AbsentOnce, Zenon
    <3>4. Once(k[p].children, x)
      BY <1>9, <1>10, AbsentOnce, Zenon
    <3>5. Once(j[RootProc].children, x)
      <4>1. Once(k[RootProc].children \o k[p].children, x)
        BY <1>9, <3>1, <3>3, <3>4, ConcatMember, Zenon
      <4>2. QED BY <4>1, Zenon DEF StopMakes
    <3>6. QED BY <1>8, <2>4, <3>2, <3>5, Zenon
  <2>5. QED BY <2>3, <2>4, Zenon
<1>18. Linked(j, m)
  <2>1. SUFFICES ASSUME NEW x \in Proc, ~Dead(j, x)
                 PROVE  \/ x \in Range(j[j[x].parent].children)
                        \/ j[j[x].parent].state = "Reaped" /\ x \in m
    BY Zenon DEF Linked
  <2>2. ~Dead(k, x) /\ k[x].parent \in AllProc
    BY <1>8, <2>1, Zenon DEF TableInv, Findable
  <2>3. \/ x \in Range(k[k[x].parent].children)
        \/ k[k[x].parent].state = "Reaped" /\ x \in m
    BY <2>2, Zenon DEF TableInv, Linked
  <2>4. CASE x \in Range(k[p].children)
    BY <1>11, <1>12, <2>4, Zenon
  <2>5. CASE x \notin Range(k[p].children)
    <3>1. j[x].parent = k[x].parent
      BY <1>12, <2>5, Zenon
    <3>2. k[x].parent # p
      BY <1>7, <2>3, <2>5, Zenon DEF Dead
    <3>3. CASE x \in Range(k[k[x].parent].children)
      <4>1. CASE k[x].parent = RootProc
        BY <1>11, <3>1, <3>3, <4>1, Zenon
      <4>2. CASE k[x].parent # RootProc
        <5>1. j[k[x].parent].children = k[k[x].parent].children
          BY <2>2, <3>2, <4>2, Zenon DEF StopMakes
        <5>2. QED BY <3>1, <3>3, <5>1, Zenon
      <4>3. QED BY <4>1, <4>2, Zenon
    <3>4. CASE k[k[x].parent].state = "Reaped" /\ x \in m
      <4>1. j[k[x].parent].state = k[k[x].parent].state
        BY <2>2, <3>2, Zenon DEF StopMakes
      <4>2. QED BY <3>1, <3>4, <4>1, Zenon
    <3>5. QED BY <2>3, <3>3, <3>4, Zenon
  <2>6. QED BY <2>4, <2>5, Zenon
<1>19. MemoryKept(j)
  <2>1. /\ j[p].state = "Zombie" <=> Alive(j, p) = {}
        /\ j[p].stacks # {}
    BY <1>5, <1>6, <1>7, Zenon DEF StopMakes
  <2>2. \A q \in Proc : q # p => j[q].state = k[q].state /\ j[q].stacks = k[q].stacks
    BY Zenon DEF StopMakes
  <2>3. MemoryKept(k)
    BY Zenon DEF TableInv
  <2>4. QED BY <1>5, <1>8, <2>1, <2>2, <2>3, Zenon DEF MemoryKept
<1>20. StopSent(j)
  <2>1. SUFFICES ASSUME NEW q \in Proc, j[q].state = "Stop", NEW i \in Alive(j, q)
                 PROVE  SIGKILL \in j[q].tasks[i].signals \/ i >= j[q].late
    BY Zenon DEF StopSent
  <2>2. i \in Alive(k, q) /\ i \in Tid
    BY <1>5, <2>1, Zenon DEF Alive
  <2>3. CASE q = p
    BY <1>3, <2>2, <2>3, Zenon
  <2>4. CASE q # p
    BY <2>1, <2>2, <2>4, Zenon DEF TableInv, StopMakes, StopSent
  <2>5. QED BY <2>3, <2>4, Zenon
<1>21. ContextsKept(j)
  BY <1>3, Zenon DEF TableInv, StopMakes, ContextsKept
<1>22. CodesKept(k, j)
  BY <1>7, Zenon DEF StopMakes, CodesKept
<1>23. ThreadsKept(k, j, p, t)
  <2>1. \A i \in Tid : [j[p].tasks[i] EXCEPT !.signals = k[p].tasks[i].signals] = k[p].tasks[i]
    <3>1. SUFFICES ASSUME NEW i \in Tid
                   PROVE  [j[p].tasks[i] EXCEPT !.signals = k[p].tasks[i].signals]
                            = k[p].tasks[i]
      BY Zenon
    <3>2. [k[p].tasks[i] EXCEPT !.signals = k[p].tasks[i].signals] = k[p].tasks[i]
      BY SameThread
    <3>3. \/ j[p].tasks[i] = WithSignal(k[p].tasks[i], SIGKILL)
          \/ j[p].tasks[i] = k[p].tasks[i]
      BY Zenon DEF StopMakes
    <3>4. QED BY <1>2, <3>2, <3>3, Zenon
  <2>2. SIGKILL \in j[p].tasks[t].signals
    BY <1>3, <1>6, Zenon
  <2>3. \A q \in AllProc, i \in Tid : q # p => j[q].tasks[i] = k[q].tasks[i]
    BY Zenon DEF StopMakes
  <2>4. \A q \in AllProc, i \in Tid :
           [k[q].tasks[i] EXCEPT !.signals = k[q].tasks[i].signals] = k[q].tasks[i]
    BY SameThread
  <2>5. \A q \in AllProc, i \in Tid :
           [j[q].tasks[i] EXCEPT !.signals = k[q].tasks[i].signals] = k[q].tasks[i]
    BY <2>1, <2>3, <2>4
  <2>6. QED BY <2>2, <2>5, Zenon DEF ThreadsKept
<1>24. TableInv(j, m)
  BY <1>13, <1>14, <1>15, <1>16, <1>17, <1>18, <1>19, <1>20, <1>21, Zenon DEF TableInv, StopMakes
<1>25. QED BY <1>3, <1>22, <1>23, <1>24, Zenon DEF j

----------------------------------------------------------------------------
(* Process::waitpid.                                                       *)

\* The indices of the elements that Vec::remove leaves in place and moves up.
LEMMA RemoveIndex ==
  ASSUME NEW l \in Nat, NEW n \in 1 .. l
  PROVE  /\ n + 1 <= l => l - (n + 1) + 1 = l - n
         /\ ~(n + 1 <= l) => l - n = 0
         /\ (n - 1) + (l - n) = l - 1
         /\ \A i \in 1 .. l - n : i \in 1 .. l - (n + 1) + 1 /\ n + 1 + i - 1 = n + i
         /\ \A i \in 1 .. l - 1 : i \in 1 .. (n - 1) + (l - n)
         /\ \A i \in 1 .. l - 1 : i >= n =>
               ~(i <= n - 1) /\ i - (n - 1) \in 1 .. l - n /\ n + (i - (n - 1)) = i + 1
OBVIOUS

\* reap takes one element out of a list.
LEMMA RemoveMember ==
  ASSUME NEW S, NEW s \in Seq(S), NEW n \in 1 .. Len(s), NEW x
  PROVE  /\ remove(s, n) \in Seq(S)
         /\ x \in Range(remove(s, n)) => x \in Range(s)
         /\ x \in Range(s) /\ x # s[n] => x \in Range(remove(s, n))
         /\ Once(s, x) => Once(remove(s, n), x)
         /\ Once(s, s[n]) => s[n] \notin Range(remove(s, n))
<1>1. /\ Len(s) \in Nat
      /\ DOMAIN s = 1 .. Len(s)
      /\ \A i \in 1 .. Len(s) : s[i] \in S
  BY LenProperties, Zenon
<1> DEFINE a == SubSeq(s, 1, n - 1)
           b == SubSeq(s, n + 1, Len(s))
           r == a \o b
<1>2. /\ a \in Seq(S)
      /\ Len(a) = n - 1
      /\ \A i \in 1 .. n - 1 : a[i] = s[i]
  <2>1. \A i \in 1 .. n - 1 : s[i] \in S
    BY <1>1
  <2>2. /\ a \in Seq(S)
        /\ Len(a) = IF 1 <= n - 1 THEN n - 1 - 1 + 1 ELSE 0
        /\ \A i \in 1 .. n - 1 - 1 + 1 : a[i] = s[1 + i - 1]
    BY <1>1, <2>1, SubSeqProperties
  <2> HIDE DEF a
  <2>3. QED BY <1>1, <2>2
<1>3. /\ b \in Seq(S)
      /\ Len(b) = Len(s) - n
      /\ \A i \in 1 .. Len(s) - n : b[i] = s[n + i]
  <2>1. \A i \in n + 1 .. Len(s) : s[i] \in S
    BY <1>1
  <2>2. /\ b \in Seq(S)
        /\ Len(b) = IF n + 1 <= Len(s) THEN Len(s) - (n + 1) + 1 ELSE 0
        /\ \A i \in 1 .. Len(s) - (n + 1) + 1 : b[i] = s[n + 1 + i - 1]
    BY <1>1, <2>1, SubSeqProperties
  <2> HIDE DEF b
  <2>3. Len(b) = Len(s) - n
    <3>1. CASE n + 1 <= Len(s)
      <4>1. Len(b) = Len(s) - (n + 1) + 1
        BY <2>2, <3>1, Zenon
      <4>2. QED BY <1>1, <3>1, <4>1, RemoveIndex
    <3>2. CASE ~(n + 1 <= Len(s))
      <4>1. Len(b) = 0
        BY <2>2, <3>2, Zenon
      <4>2. Len(s) - n = 0
        BY <1>1, <3>2, RemoveIndex, Zenon
      <4>3. QED BY <4>1, <4>2, Zenon
    <3>3. QED BY <3>1, <3>2, Zenon
  <2>4. ASSUME NEW i \in 1 .. Len(s) - n PROVE b[i] = s[n + i]
    <3>1. i \in 1 .. Len(s) - (n + 1) + 1 /\ n + 1 + i - 1 = n + i
      BY <1>1, RemoveIndex, Zenon
    <3>2. QED BY <2>2, <3>1, Zenon
  <2>5. QED BY <2>2, <2>3, <2>4, Zenon
<1> HIDE DEF a, b
<1>4. /\ r \in Seq(S)
      /\ Len(r) = Len(s) - 1
      /\ DOMAIN r = 1 .. Len(s) - 1
      /\ \A i \in 1 .. Len(s) - 1 : r[i] = IF i < n THEN s[i] ELSE s[i + 1]
  <2>1. /\ r \in Seq(S)
        /\ Len(r) = Len(a) + Len(b)
        /\ \A i \in 1 .. Len(a) + Len(b) : r[i] = IF i <= Len(a) THEN a[i] ELSE b[i - Len(a)]
    BY <1>2, <1>3, ConcatProperties, Zenon
  <2>2. DOMAIN r = 1 .. Len(r)
    BY <2>1, LenProperties, Zenon
  <2> HIDE DEF r
  <2>3. Len(r) = Len(s) - 1
    BY <1>1, <1>2, <1>3, <2>1, RemoveIndex
  <2>4. ASSUME NEW i \in 1 .. Len(s) - 1 PROVE r[i] = IF i < n THEN s[i] ELSE s[i + 1]
    <3>0. i \in 1 .. Len(a) + Len(b)
      BY <1>1, <1>2, <1>3, RemoveIndex
    <3>1. CASE i < n
      <4>1. i <= Len(a) /\ i \in 1 .. n - 1
        BY <1>2, <3>1
      <4>2. r[i] = a[i]
        BY <2>1, <3>0, <4>1, Zenon
      <4>3. QED BY <1>2, <3>1, <4>1, <4>2, Zenon
    <3>2. CASE i >= n
      <4>1. i - Len(a) \in 1 .. Len(s) - n /\ r[i] = b[i - Len(a)]
        <5>1. ~(i <= Len(a)) /\ i - Len(a) \in 1 .. Len(s) - n
          BY <1>1, <1>2, <3>2, RemoveIndex, Zenon
        <5>2. QED BY <2>1, <3>0, <5>1, Zenon
      <4>2. b[i - Len(a)] = s[i + 1]
        <5>1. n + (i - Len(a)) = i + 1
          BY <1>1, <1>2, <3>2, RemoveIndex
        <5>2. QED BY <1>3, <4>1, <5>1, Zenon
      <4>3. QED BY <3>2, <4>1, <4>2
    <3>3. QED BY <3>1, <3>2
  <2>5. QED BY <2>1, <2>2, <2>3, <2>4, Zenon
<1>5. remove(s, n) = r
  BY Zenon DEF remove, a, b
<1> HIDE DEF r
<1>6. ASSUME x \in Range(r) PROVE x \in Range(s)
  <2>1. PICK i \in 1 .. Len(s) - 1 : x = r[i]
    BY <1>4, <1>6, Zenon DEF Range
  <2>2. \E e \in 1 .. Len(s) : x = s[e]
    BY <1>1, <1>4, <2>1
  <2>3. QED BY <1>1, <2>2, Zenon DEF Range
<1>7. ASSUME x \in Range(s), x # s[n] PROVE x \in Range(r)
  <2>1. PICK i \in 1 .. Len(s) : s[i] = x
    BY <1>7 DEF Range
  <2>2. CASE i < n
    <3>1. i \in 1 .. Len(r) /\ r[i] = x
      BY <1>1, <1>4, <2>1, <2>2
    <3>2. QED BY <3>1 DEF Range
  <2>3. CASE i > n
    <3>1. i - 1 \in 1 .. Len(r) /\ r[i - 1] = x
      BY <1>1, <1>4, <2>1, <2>3
    <3>2. QED BY <3>1 DEF Range
  <2>4. QED BY <1>7, <2>1, <2>2, <2>3
<1>8. ASSUME Once(s, x) PROVE Once(r, x)
  <2>1. SUFFICES ASSUME NEW i \in DOMAIN r, NEW j \in DOMAIN r, r[i] = x, r[j] = x
                 PROVE  i = j
    BY Zenon DEF Once
  <2>2. PICK f \in DOMAIN s : s[f] = x /\ f = IF i < n THEN i ELSE i + 1
    BY <1>1, <1>4, <2>1
  <2>3. PICK g \in DOMAIN s : s[g] = x /\ g = IF j < n THEN j ELSE j + 1
    BY <1>1, <1>4, <2>1
  <2>4. f = g
    BY <1>8, <2>2, <2>3, Zenon DEF Once
  <2>5. QED BY <1>1, <1>4, <2>2, <2>3, <2>4
<1>9. ASSUME Once(s, s[n]), s[n] \in Range(r) PROVE FALSE
  <2>1. PICK i \in 1 .. Len(r) : r[i] = s[n]
    <3>1. DOMAIN r = 1 .. Len(r)
      BY <1>4, Zenon
    <3>2. QED BY <1>9, <3>1, Zenon DEF Range
  <2> DEFINE f == IF i < n THEN i ELSE i + 1
  <2>2. i \in 1 .. Len(s) - 1
    BY <1>4, <2>1, Zenon
  <2>3. f \in 1 .. Len(s) /\ f # n
    BY <1>1, <2>2
  <2>4. s[f] = s[n]
    BY <1>4, <2>1, <2>2, Zenon
  <2> HIDE DEF f
  <2>5. QED BY <1>1, <1>9, <2>3, <2>4, Zenon DEF Once
<1>10. QED BY <1>4, <1>5, <1>6, <1>7, <1>8, <1>9, Zenon

\* The parent takes it out of its list, and all its fields go.
LEMMA ReapFacts ==
  ASSUME NEW k \in Table, NEW p \in AllProc, NEW n \in 1 .. Len(k[p].children), NEW c \in Proc,
         c = k[p].children[n], c # p, Alive(k, c) = {}
  PROVE  ReapMakes(k, reap(k, p, n), p, n, c)
<1> DEFINE ts == [i \in Tid |-> IF i \in Alive(k, c) THEN k[c].tasks[i] ELSE NoThread]
           r == [Unborn EXCEPT !.state = "Reaped", !.parent = k[c].parent, !.tasks = ts]
           s == [k[p] EXCEPT !.children = remove(k[p].children, n)]
           j == [[k EXCEPT ![p] = s] EXCEPT ![c] = r]
<1>0. c \in AllProc
  BY Zenon DEF AllProc
<1>1. /\ k[p] \in ProcessRecord /\ k[c] \in ProcessRecord /\ k[p].children \in Seq(Proc)
      /\ k[c].parent \in AllProc \union {NoProc}
  BY <1>0, Zenon DEF Table, ProcessRecord
<1>2. NoThread \in Thread
  BY NewThreads, Zenon
<1>3. ts \in [Tid -> Thread] /\ \A i \in Tid : ts[i] = NoThread
  BY <1>2, Zenon
<1>4. reap(k, p, n) = j
  BY Zenon DEF reap, Table
<1> HIDE DEF ts
<1>6. /\ Unborn \in ProcessRecord /\ Unborn.children = <<>>
      /\ Unborn.next_tid = 1 /\ Unborn.late = 0
  BY UnbornRecord, Zenon
<1>7. /\ r \in ProcessRecord /\ r.state = "Reaped" /\ r.tasks = ts
      /\ r.children = <<>> /\ r.next_tid = 1 /\ r.late = 0
  <2>1. "Reaped" \in ProcessState
    BY Zenon DEF ProcessState
  <2> DEFINE u == Unborn
             par == k[c].parent
  <2>2. /\ u \in ProcessRecord /\ u.children = <<>> /\ u.next_tid = 1 /\ u.late = 0
        /\ par \in AllProc \union {NoProc} /\ ts \in [Tid -> Thread]
        /\ r = [u EXCEPT !.state = "Reaped", !.parent = par, !.tasks = ts]
    BY <1>1, <1>3, <1>6, Zenon
  <2> HIDE DEF u, par, r
  <2>3. QED BY <2>1, <2>2, Zenon DEF ProcessRecord
<1>8. remove(k[p].children, n) \in Seq(Proc)
  BY <1>1, RemoveMember, Zenon
<1>9. /\ s \in ProcessRecord /\ s.children = remove(k[p].children, n)
      /\ s.state = k[p].state /\ s.exit_code = k[p].exit_code
      /\ s.parent = k[p].parent /\ s.tasks = k[p].tasks
      /\ s.next_tid = k[p].next_tid /\ s.late = k[p].late /\ s.stacks = k[p].stacks
  BY <1>1, <1>8, Zenon DEF ProcessRecord
<1> HIDE DEF r, s
<1>10. j \in Table /\ j[p] = s /\ j[c] = r /\ \A q \in AllProc \ {p, c} : j[q] = k[q]
  BY <1>0, <1>7, <1>9, Zenon DEF Table
<1> HIDE DEF j
<1>11. ReapMakes(k, j, p, n, c)
  BY <1>3, <1>7, <1>9, <1>10, Zenon DEF ReapMakes
<1>12. QED BY <1>4, <1>11, Zenon

\* A child is reaped once, its own children are still found in PROC_MAP, and no
\* other process or thread is disturbed.
LEMMA ReapKeeps ==
  ASSUME NEW k, NEW m, NEW p \in AllProc, TableInv(k, m),
         NEW n \in DOMAIN k[p].children, NEW c, c = k[p].children[n],
         k[c].state = "Zombie", c # p
  PROVE  LET j == reap(k, p, n)
         IN  /\ TableInv(j, m \ {c}) /\ CodesKept(k, j)
             /\ \A t \in Tid : ThreadsKept(k, j, p, t) /\ j[p].tasks[t] = k[p].tasks[t]
<1> DEFINE j == reap(k, p, n)
           l == m \ {c}
<1> /\ k \in Table /\ m \subseteq Proc /\ Proc \subseteq AllProc /\ RootProc \in AllProc
    /\ RootProc \notin Proc
  BY ProcAssumption, Zenon DEF TableInv, AllProc
<1>1. \A q \in AllProc : k[q].children \in Seq(Proc)
  BY Zenon DEF Table, ProcessRecord
<1>2. n \in 1 .. Len(k[p].children) /\ c \in Proc /\ c \in Range(k[p].children)
  BY <1>1, LenProperties, Zenon DEF Range
<1>3. \A x \in Proc, q \in AllProc : x \in Range(k[q].children) =>
        ~Dead(k, x) /\ k[x].parent = q /\ Once(k[q].children, x)
  BY Zenon DEF TableInv, ListedOnce
<1>4. Alive(k, c) = {} /\ ~Dead(k, c) /\ k[c].parent = p
  BY <1>2, <1>3, Zenon DEF TableInv, MemoryKept
<1>5. ~Dead(k, p)
  BY <1>2, EmptyRange, Zenon DEF TableInv, GoneEmpty
<1> ReapMakes(k, j, p, n, c)
  BY <1>2, <1>4, ReapFacts, Zenon
<1> HIDE DEF j
<1>7. \A q \in AllProc \ {c} :
        /\ j[q].state = k[q].state /\ j[q].exit_code = k[q].exit_code
        /\ j[q].parent = k[q].parent /\ j[q].tasks = k[q].tasks
        /\ j[q].next_tid = k[q].next_tid /\ j[q].late = k[q].late /\ j[q].stacks = k[q].stacks
        /\ Alive(j, q) = Alive(k, q) /\ (Dead(j, q) <=> Dead(k, q))
  <2>1. \A q \in AllProc \ {c} :
          /\ j[q].state = k[q].state /\ j[q].exit_code = k[q].exit_code
          /\ j[q].parent = k[q].parent /\ j[q].tasks = k[q].tasks
          /\ j[q].next_tid = k[q].next_tid /\ j[q].late = k[q].late
          /\ j[q].stacks = k[q].stacks
    BY Zenon DEF ReapMakes
  <2>2. \A q \in AllProc \ {c} : Alive(j, q) = Alive(k, q) /\ (Dead(j, q) <=> Dead(k, q))
    BY <2>1, Zenon DEF Alive, Dead
  <2>3. QED BY <2>1, <2>2, Zenon
<1>8. Dead(j, c) /\ Alive(j, c) = {} /\ \A i \in Tid : j[c].tasks[i].state = "None"
  <2>1. NoThread.state = "None"
    BY Zenon DEF NoThread
  <2>2. \A i \in Tid : j[c].tasks[i].state = "None"
    BY <2>1, Zenon DEF ReapMakes
  <2>3. Alive(j, c) = {}
    BY <2>2, Zenon DEF Alive
  <2>4. QED BY <2>2, <2>3, Zenon DEF ReapMakes, Dead
<1>9. \A x \in Proc : x # c /\ x \in Range(k[p].children) => x \in Range(j[p].children)
  <2>1. j[p].children = remove(k[p].children, n)
    BY Zenon DEF ReapMakes
  <2>2. QED BY <1>1, <1>2, <2>1, RemoveMember
<1>10. c \notin Range(j[p].children)
  <2>1. Once(k[p].children, k[p].children[n])
    BY <1>2, <1>3, Zenon
  <2>2. k[p].children[n] \notin Range(remove(k[p].children, n))
    BY <1>1, <1>2, <2>1, RemoveMember, Zenon
  <2>3. QED BY <2>2, Zenon DEF ReapMakes
<1>11. \A x \in Proc : x \in Range(j[p].children) =>
         x \in Range(k[p].children) /\ Once(j[p].children, x)
  <2>1. SUFFICES ASSUME NEW x \in Proc, x \in Range(j[p].children)
                 PROVE  x \in Range(k[p].children) /\ Once(j[p].children, x)
    BY Zenon
  <2>2. x \in Range(k[p].children)
    <3>1. x \in Range(remove(k[p].children, n))
      BY <2>1, Zenon DEF ReapMakes
    <3>2. QED BY <1>1, <1>2, <3>1, RemoveMember, Zenon
  <2>3. Once(k[p].children, x)
    BY <1>3, <2>2, Zenon
  <2>4. Once(remove(k[p].children, n), x)
    BY <1>1, <1>2, <2>3, RemoveMember, Zenon
  <2>5. QED BY <2>2, <2>4, Zenon DEF ReapMakes
<1>12. RootStays(j)
  <2>1. RootStays(k) /\ RootProc \in AllProc \ {c}
    BY <1>2, Zenon DEF TableInv
  <2>2. QED BY <1>7, <2>1, Zenon DEF RootStays
<1>13. TidsFresh(j)
  <2>1. j[c].late = 0 /\ j[c].next_tid = 1
    BY Zenon DEF ReapMakes
  <2>2. j[c].late <= j[c].next_tid
    BY <2>1
  <2>3. TidsFresh(k)
    BY Zenon DEF TableInv
  <2>4. SUFFICES ASSUME NEW q \in AllProc
                 PROVE  /\ j[q].late <= j[q].next_tid
                        /\ \A i \in Tid : i >= j[q].next_tid => j[q].tasks[i].state = "None"
    BY Zenon DEF TidsFresh
  <2>5. CASE q = c
    BY <1>8, <2>2, <2>5, Zenon
  <2>6. CASE q # c
    <3>1. j[q].late = k[q].late /\ j[q].next_tid = k[q].next_tid /\ j[q].tasks = k[q].tasks
      BY <1>7, <2>6, Zenon
    <3>2. /\ k[q].late <= k[q].next_tid
          /\ \A i \in Tid : i >= k[q].next_tid => k[q].tasks[i].state = "None"
      BY <2>3, Zenon DEF TidsFresh
    <3>3. QED BY <3>1, <3>2
  <2>7. QED BY <2>5, <2>6, Zenon
<1>14. GoneEmpty(j)
  <2>1. SUFFICES ASSUME NEW q \in AllProc, Dead(j, q)
                 PROVE  Alive(j, q) = {} /\ j[q].children = <<>>
    BY Zenon DEF GoneEmpty
  <2>2. CASE q = c
    BY <1>8, <2>2, Zenon DEF ReapMakes
  <2>3. CASE q # c
    <3>1. Dead(k, q) /\ q # p
      BY <1>5, <1>7, <2>1, <2>3, Zenon
    <3>2. Alive(k, q) = {} /\ k[q].children = <<>>
      BY <3>1, Zenon DEF TableInv, GoneEmpty
    <3>3. j[q] = k[q]
      BY <2>3, <3>1, Zenon DEF ReapMakes
    <3>4. QED BY <1>7, <2>3, <3>2, <3>3, Zenon
  <2>4. QED BY <2>2, <2>3, Zenon
<1>15. Findable(j, l)
  <2>1. Findable(k, m)
    BY Zenon DEF TableInv
  <2>2. SUFFICES ASSUME NEW x \in Proc, ~Dead(j, x)
                 PROVE  j[x].parent \in AllProc /\ (x \in l \/ j[x].parent = RootProc)
    BY Zenon DEF Findable
  <2>3. x # c /\ ~Dead(k, x) /\ j[x].parent = k[x].parent
    BY <1>7, <1>8, <2>2, Zenon
  <2>4. QED BY <2>1, <2>3, Zenon DEF Findable
<1>16. ListedOnce(j)
  <2>1. SUFFICES ASSUME NEW x \in Proc, NEW q \in AllProc, x \in Range(j[q].children)
                 PROVE  ~Dead(j, x) /\ j[x].parent = q /\ Once(j[q].children, x)
    BY Zenon DEF ListedOnce
  <2>2. q # c
    BY <2>1, EmptyRange, Zenon DEF ReapMakes
  <2>3. CASE q = p
    <3>1. x # c /\ x \in Range(k[p].children) /\ Once(j[p].children, x)
      BY <1>10, <1>11, <2>1, <2>3, Zenon
    <3>2. QED BY <1>3, <1>7, <2>3, <3>1, Zenon
  <2>4. CASE q # p
    <3>1. j[q].children = k[q].children /\ x \in Range(k[q].children)
      BY <2>1, <2>2, <2>4, Zenon DEF ReapMakes
    <3>2. x # c
      BY <1>3, <1>4, <2>4, <3>1, Zenon
    <3>3. QED BY <1>3, <1>7, <3>1, <3>2, Zenon
  <2>5. QED BY <2>3, <2>4, Zenon
<1>17. Linked(j, l)
  <2>1. SUFFICES ASSUME NEW x \in Proc, ~Dead(j, x)
                 PROVE  \/ x \in Range(j[j[x].parent].children)
                        \/ j[j[x].parent].state = "Reaped" /\ x \in l
    BY Zenon DEF Linked
  <2> DEFINE q == k[x].parent
  <2>2. x # c /\ ~Dead(k, x) /\ j[x].parent = q
    BY <1>7, <1>8, <2>1, Zenon
  <2>3. q \in AllProc /\ (x \in m \/ q = RootProc)
    BY <2>2, Zenon DEF TableInv, Findable
  <2>4. x \in Range(k[q].children) \/ (k[q].state = "Reaped" /\ x \in m)
    BY <2>2, Zenon DEF TableInv, Linked
  <2> HIDE DEF q
  <2>5. CASE q = c
    <3>1. j[q].state = "Reaped" /\ x \in m
      BY <1>2, <2>3, <2>5, Zenon DEF ReapMakes
    <3>2. QED BY <2>2, <3>1, Zenon
  <2>6. CASE q # c /\ x \in Range(k[q].children)
    <3>1. CASE q = p
      BY <1>9, <2>2, <2>6, <3>1, Zenon
    <3>2. CASE q # p
      BY <2>2, <2>3, <2>6, <3>2, Zenon DEF ReapMakes
    <3>3. QED BY <3>1, <3>2, Zenon
  <2>7. CASE q # c /\ k[q].state = "Reaped" /\ x \in m
    BY <1>7, <2>2, <2>3, <2>7, Zenon
  <2>8. QED BY <2>4, <2>5, <2>6, <2>7, Zenon
<1>18. MemoryKept(j)
  <2>1. MemoryKept(k)
    BY Zenon DEF TableInv
  <2>2. SUFFICES ASSUME NEW x \in Proc, ~Dead(j, x)
                 PROVE  /\ j[x].state = "Zombie" <=> Alive(j, x) = {}
                        /\ j[x].state # "Zombie" => j[x].stacks # {}
    BY Zenon DEF MemoryKept
  <2>3. /\ ~Dead(k, x) /\ j[x].state = k[x].state
        /\ j[x].stacks = k[x].stacks /\ Alive(j, x) = Alive(k, x)
    BY <1>7, <1>8, <2>2, Zenon
  <2>4. QED BY <2>1, <2>3, Zenon DEF MemoryKept
<1>19. StopSent(j)
  <2>1. StopSent(k)
    BY Zenon DEF TableInv
  <2>2. j[c].state # "Stop"
    BY Zenon DEF ReapMakes
  <2>3. QED BY <1>7, <2>1, <2>2 DEF StopSent
<1>20. ContextsKept(j)
  <2>1. \A i \in Tid : KeptThread(j[c].tasks[i])
    <3>1. KeptThread(NoThread)
      BY NewThreads, Zenon
    <3>2. QED BY <3>1, Zenon DEF ReapMakes
  <2>2. QED BY <1>7, <2>1, Zenon DEF TableInv, ContextsKept
<1>21. CodesKept(k, j)
  BY <1>7, Zenon DEF CodesKept, ReapMakes
<1>22. \A t \in Tid : ThreadsKept(k, j, p, t) /\ j[p].tasks[t] = k[p].tasks[t]
  <2>1. \A q \in AllProc, i \in Tid : k[q].tasks[i].state = "Ready" => q # c
    BY <1>4, Zenon DEF Alive
  <2>2. QED BY <1>7, <2>1, SameThread DEF ThreadsKept
<1>23. TableInv(j, l)
  <2>1. j \in Table
    BY Zenon DEF ReapMakes
  <2>2. QED
    BY <2>1, <1>12, <1>13, <1>14, <1>15, <1>16, <1>17, <1>18, <1>19, <1>20, Zenon DEF TableInv
<1>24. QED BY <1>21, <1>22, <1>23, Zenon DEF j
=============================================================================
