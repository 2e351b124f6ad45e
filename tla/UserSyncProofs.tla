--------------------------- MODULE UserSyncProofs ---------------------------
(***************************************************************************)
(* The invariants of UserSync, and that it implements TaskManager, for any *)
(* set of threads, mutexes, semaphores and condition variables: facts      *)
(* about the wait queues, then one lemma for each kind of call, which      *)
(* keeps the inductive invariant SyncInv and is a step of the scheduler.   *)
(***************************************************************************)
EXTENDS UserSync, TaskManagerProofs

\* An object is untouched until it is created, and the bound on credit.
CreatedFirst ==
  /\ \A m \in Mutex \ created : ~locked[m]
  /\ \A s \in Semaphore \ created : wait_queue[s] = <<>>
  /\ \A t \in Task : relock[t] # NoMutex => relock[t] \in created
  /\ \A s \in Semaphore : credit[s] <= MaxCount

\* The inductive invariant.
SyncInv ==
  /\ SchedInv
  /\ SyncTypeOK
  /\ WaitsOnce
  /\ MutexSafe
  /\ SemaphoreSafe
  /\ CreatedFirst

----------------------------------------------------------------------------
(* Where threads wait.                                                     *)

\* Taking the first waiter out of a queue.
LEMMA PopWaits ==
  ASSUME NEW wq \in [Queue -> Seq(UserTask)], NEW tm, NEW B, WaitPlaces(wq, tm, B),
         NEW q \in Queue, wq[q] # <<>>
  PROVE  /\ [wq EXCEPT ![q] = Tail(@)] \in [Queue -> Seq(UserTask)]
         /\ Head(wq[q]) \in UserTask /\ Head(wq[q]) \in B
         /\ WaitPlaces([wq EXCEPT ![q] = Tail(@)], tm, B \ {Head(wq[q])})
<1> DEFINE wq2 == [wq EXCEPT ![q] = Tail(@)]
           h   == Head(wq[q])
           n   == Len(wq[q])
<1>1. wq[q] \in Seq(UserTask) /\ n \in Nat \ {0} /\ DOMAIN wq[q] = 1 .. n
  OBVIOUS
<1>2. /\ wq2 \in [Queue -> Seq(UserTask)]
      /\ h = wq[q][1] /\ h \in UserTask
      /\ DOMAIN wq2[q] = 1 .. n - 1
      /\ \A i \in 1 .. n - 1 : wq2[q][i] = wq[q][i + 1]
      /\ \A p \in Queue : p # q => wq2[p] = wq[p]
  BY <1>1
<1> HIDE DEF wq2
<1>3. h \in B
  <2>1. h \in Task
    BY <1>2, Zenon DEF UserTask
  <2>2. InQueue(wq, h)
    <3>1. 1 \in DOMAIN wq[q]
      BY <1>1
    <3> QED BY <1>2, <3>1, Zenon DEF InQueue
  <2> QED BY <2>1, <2>2, Zenon DEF WaitPlaces
<1>4. ASSUME NEW p \in Queue, NEW i \in DOMAIN wq2[p]
      PROVE  \E k \in DOMAIN wq[p] : /\ wq2[p][i] = wq[p][k]
                                     /\ k = IF p = q THEN i + 1 ELSE i
  BY <1>1, <1>2
<1>5. ASSUME NEW p \in Queue, NEW r \in Queue,
             NEW i \in DOMAIN wq2[p], NEW j \in DOMAIN wq2[r], wq2[p][i] = wq2[r][j]
      PROVE  p = r /\ i = j
  <2>1. PICK k \in DOMAIN wq[p] : wq2[p][i] = wq[p][k] /\ k = IF p = q THEN i + 1 ELSE i
    BY <1>4, Zenon
  <2>2. PICK l \in DOMAIN wq[r] : wq2[r][j] = wq[r][l] /\ l = IF r = q THEN j + 1 ELSE j
    BY <1>4
  <2>3. p = r /\ k = l
    <3>1. wq[p][k] = wq[r][l]
      BY Zenon, <1>5, <2>1, <2>2
    <3> QED BY <3>1 DEF WaitPlaces
  <2>4. CASE p = q
    BY <1>2, <2>1, <2>2, <2>3, <2>4
  <2>5. CASE p # q
    BY <2>1, <2>2, <2>3, <2>5, Zenon
  <2> QED BY <2>4, <2>5, Zenon
<1>6. ASSUME NEW t \in Task
      PROVE  InQueue(wq2, t) <=> InQueue(wq, t) /\ t # h
  <2>1. ASSUME InQueue(wq2, t)
        PROVE  InQueue(wq, t) /\ t # h
    <3>1. PICK p \in Queue : \E i \in DOMAIN wq2[p] : wq2[p][i] = t
      BY <2>1 DEF InQueue
    <3>2. PICK i \in DOMAIN wq2[p] : wq2[p][i] = t
      BY <3>1, Zenon
    <3>3. PICK k \in DOMAIN wq[p] : wq2[p][i] = wq[p][k] /\ k = IF p = q THEN i + 1 ELSE i
      BY <1>4, Zenon
    <3>4. ~(p = q /\ k = 1)
      BY <1>2, <3>3
    <3>5. t # h
      BY <1>1, <1>2, <3>2, <3>3, <3>4 DEF WaitPlaces
    <3> QED BY <3>2, <3>3, <3>5 DEF InQueue
  <2>2. ASSUME InQueue(wq, t), t # h
        PROVE  InQueue(wq2, t)
    <3>1. PICK p \in Queue : \E k \in DOMAIN wq[p] : wq[p][k] = t
      BY <2>2, Zenon DEF InQueue
    <3>2. PICK k \in DOMAIN wq[p] : wq[p][k] = t
      BY <3>1
    <3>3. CASE p # q
      BY <1>2, <3>2, <3>3, Zenon DEF InQueue
    <3>4. CASE p = q
      <4>1. k \in 1 .. n /\ k # 1
        BY <1>1, <1>2, <2>2, <3>2, <3>4, Zenon
      <4>2. k - 1 \in 1 .. n - 1 /\ (k - 1) + 1 = k
        BY <1>1, <4>1
      <4>3. wq2[q][k - 1] = t /\ k - 1 \in DOMAIN wq2[q]
        BY <1>2, <3>2, <3>4, <4>2, Zenon
      <4> QED BY <4>3 DEF InQueue
    <3> QED BY <3>3, <3>4, Zenon
  <2> QED BY <2>1, <2>2
<1>7. \A t \in Task : ~(InQueue(wq2, t) /\ InTimers(tm, t))
  BY <1>6 DEF WaitPlaces
<1>8. InQueue(wq, h) /\ h \in Task
  BY <1>1, <1>2 DEF InQueue, UserTask
<1>9. \A t \in Task : t \in B \ {h} <=> InQueue(wq2, t) \/ InTimers(tm, t)
  BY <1>6, <1>8, Zenon DEF WaitPlaces
<1>10. \A x, y \in tm : x.task = y.task => x = y
  BY DEF WaitPlaces
<1>11. WaitPlaces(wq2, tm, B \ {h})
  BY <1>5, <1>7, <1>9, <1>10, Zenon DEF WaitPlaces
<1> QED
  BY <1>2, <1>3, <1>11 DEF wq2

\* Putting a thread that does not wait yet at the end of a queue.
LEMMA PushWaits ==
  ASSUME NEW wq \in [Queue -> Seq(UserTask)], NEW tm, NEW B, WaitPlaces(wq, tm, B),
         NEW q \in Queue, NEW u \in UserTask, u \notin B
  PROVE  /\ [wq EXCEPT ![q] = Append(@, u)] \in [Queue -> Seq(UserTask)]
         /\ WaitPlaces([wq EXCEPT ![q] = Append(@, u)], tm, B \union {u})
<1> DEFINE wq2 == [wq EXCEPT ![q] = Append(@, u)]
           n   == Len(wq[q])
<1>1. /\ wq2 \in [Queue -> Seq(UserTask)]
      /\ n \in Nat /\ DOMAIN wq[q] = 1 .. n
      /\ DOMAIN wq2[q] = 1 .. n + 1
      /\ wq2[q][n + 1] = u
      /\ \A i \in 1 .. n : wq2[q][i] = wq[q][i]
      /\ \A p \in Queue : p # q => wq2[p] = wq[p]
  <2>1. wq[q] \in Seq(UserTask) /\ wq2[q] = Append(wq[q], u)
    BY Zenon
  <2> QED BY <2>1
<1> HIDE DEF wq2
<1>2. u \in Task /\ ~InQueue(wq, u) /\ ~InTimers(tm, u)
  BY Zenon DEF WaitPlaces, UserTask
<1>3. ASSUME NEW p \in Queue, NEW i \in DOMAIN wq2[p]
      PROVE  \/ p = q /\ i = n + 1 /\ wq2[p][i] = u
             \/ i \in DOMAIN wq[p] /\ wq2[p][i] = wq[p][i] /\ wq[p][i] # u
  <2>1. \A k \in DOMAIN wq[p] : wq[p][k] # u
    BY <1>2, Zenon DEF InQueue
  <2> QED BY <1>1, <2>1
<1>4. ASSUME NEW p \in Queue, NEW r \in Queue,
             NEW i \in DOMAIN wq2[p], NEW j \in DOMAIN wq2[r], wq2[p][i] = wq2[r][j]
      PROVE  p = r /\ i = j
  <2>1. CASE wq2[p][i] = u
    <3>1. p = q /\ i = n + 1
      BY <1>3, <2>1, Zenon
    <3>2. r = q /\ j = n + 1
      <4>1. wq2[r][j] = u
        BY <1>4, <2>1, Zenon
      <4> QED BY Zenon, <1>3, <4>1
    <3> QED BY <3>1, <3>2
  <2>2. CASE wq2[p][i] # u
    BY <1>3, <1>4, <2>2 DEF WaitPlaces
  <2> QED BY <2>1, <2>2, Zenon
<1>5. ASSUME NEW t \in Task
      PROVE  InQueue(wq2, t) <=> InQueue(wq, t) \/ t = u
  <2>1. InQueue(wq2, t) => InQueue(wq, t) \/ t = u
    BY <1>3 DEF InQueue
  <2>2. \A p \in Queue : \A i \in DOMAIN wq[p] : i \in DOMAIN wq2[p] /\ wq2[p][i] = wq[p][i]
    <3> SUFFICES ASSUME NEW p \in Queue, NEW i \in DOMAIN wq[p]
                 PROVE  i \in DOMAIN wq2[p] /\ wq2[p][i] = wq[p][i]
      BY Zenon
    <3>1. CASE p = q
      BY <1>1, <3>1
    <3>2. CASE p # q
      BY <1>1, <3>2, Zenon
    <3> QED BY <3>1, <3>2
  <2>3. InQueue(wq, t) => InQueue(wq2, t)
    BY <2>2, Zenon DEF InQueue
  <2>4. n + 1 \in DOMAIN wq2[q]
    BY <1>1
  <2>5. t = u => InQueue(wq2, t)
    BY <1>1, <2>4 DEF InQueue
  <2> QED BY <2>1, <2>3, <2>5, Zenon
<1>6. \A t \in Task : ~(InQueue(wq2, t) /\ InTimers(tm, t))
  BY <1>2, <1>5, Zenon DEF WaitPlaces
<1>7. \A t \in Task : t \in B \union {u} <=> InQueue(wq2, t) \/ InTimers(tm, t)
  BY <1>2, <1>5 DEF WaitPlaces
<1>8. \A x, y \in tm : x.task = y.task => x = y
  BY Zenon DEF WaitPlaces
<1>9. WaitPlaces(wq2, tm, B \union {u})
  BY <1>4, <1>6, <1>7, <1>8, Zenon DEF WaitPlaces
<1> QED
  BY <1>1, <1>9 DEF wq2

\* Adding a timer for a thread that does not wait yet.
LEMMA TimerWaits ==
  ASSUME NEW wq, NEW tm, NEW B, WaitPlaces(wq, tm, B), NEW x, x.task \in Task, x.task \notin B
  PROVE  WaitPlaces(wq, tm \union {x}, B \union {x.task})
<1>1. \A t \in Task : InTimers(tm \union {x}, t) <=> InTimers(tm, t) \/ t = x.task
  BY Zenon DEF InTimers
<1>2. ~InTimers(tm, x.task) /\ ~InQueue(wq, x.task)
  BY Zenon DEF WaitPlaces
<1>3. \A y, z \in tm \union {x} : y.task = z.task => y = z
  BY <1>2 DEF WaitPlaces, InTimers
<1>4. \A p, q \in Queue : \A i \in DOMAIN wq[p], j \in DOMAIN wq[q] :
        wq[p][i] = wq[q][j] => p = q /\ i = j
  BY DEF WaitPlaces
<1>5. \A t \in Task : ~(InQueue(wq, t) /\ InTimers(tm \union {x}, t))
  BY <1>1, <1>2, Zenon DEF WaitPlaces
<1>6. \A t \in Task : t \in B \union {x.task} <=> InQueue(wq, t) \/ InTimers(tm \union {x}, t)
  BY <1>1 DEF WaitPlaces
<1> QED
  BY <1>3, <1>4, <1>5, <1>6 DEF WaitPlaces

\* Removing timers.
LEMMA DropTimers ==
  ASSUME NEW wq, NEW tm, NEW B, WaitPlaces(wq, tm, B), NEW D, D \subseteq tm
  PROVE  WaitPlaces(wq, tm \ D, B \ {x.task : x \in D})
<1>1. \A t \in Task : InTimers(tm \ D, t) <=> InTimers(tm, t) /\ t \notin {x.task : x \in D}
  BY DEF WaitPlaces, InTimers
<1>2. \A t \in Task : t \in {x.task : x \in D} => InTimers(tm, t)
  BY DEF InTimers
<1>3. \A y, z \in tm \ D : y.task = z.task => y = z
  BY Zenon DEF WaitPlaces
<1>4. \A p, q \in Queue : \A i \in DOMAIN wq[p], j \in DOMAIN wq[q] :
        wq[p][i] = wq[q][j] => p = q /\ i = j
  BY Zenon DEF WaitPlaces
<1>5. \A t \in Task : ~(InQueue(wq, t) /\ InTimers(tm \ D, t))
  BY <1>1, Zenon DEF WaitPlaces
<1>6. \A t \in Task : t \in B \ {x.task : x \in D} <=> InQueue(wq, t) \/ InTimers(tm \ D, t)
  BY <1>1, <1>2 DEF WaitPlaces
<1> QED
  BY Zenon, <1>3, <1>4, <1>5, <1>6 DEF WaitPlaces

\* A queue is never longer than there are tasks.
LEMMA QueueBound ==
  ASSUME NEW wq \in [Queue -> Seq(UserTask)], NEW tm, NEW B, WaitPlaces(wq, tm, B),
         NEW q \in Queue
  PROVE  Len(wq[q]) \in Nat /\ Len(wq[q]) <= Cardinality(Task)
<1>1. /\ wq[q] \in Seq(UserTask)
      /\ Len(wq[q]) \in Nat
      /\ DOMAIN wq[q] = 1 .. Len(wq[q])
  OBVIOUS
<1>2. wq[q] \in [1 .. Len(wq[q]) -> Task]
  BY <1>1 DEF UserTask
<1>3. \A i, j \in 1 .. Len(wq[q]) : wq[q][i] = wq[q][j] => i = j
  BY <1>1, Zenon DEF WaitPlaces
<1>4. wq[q] \in Injection(1 .. Len(wq[q]), Task)
  BY <1>1, <1>2, <1>3, Zenon DEF Injection, IsInjective
<1>5. Cardinality(1 .. Len(wq[q])) <= Cardinality(Task)
  BY <1>4, TaskAssumption, FS_Injection
<1>6. Cardinality(1 .. Len(wq[q])) = Len(wq[q])
  <2>1. \A k \in Nat : Cardinality(1 .. k) = k
    BY FS_Interval
  <2> QED BY <1>1, <2>1, Zenon
<1> QED
  BY <1>1, <1>5, <1>6, Zenon

----------------------------------------------------------------------------
(* What the calls do to the scheduler.                                     *)

\* A thread that is in a system call is not among the waiting ones.
LEMMA CallerRuns ==
  ASSUME SchedInv, InSyscall
  PROVE  current_task \in UserTask /\ current_task \in Task /\ current_task \notin Blocked
BY Zenon DEF InSyscall, UserTask, Blocked

\* block_current after resuming ts.
LEMMA BlockStep ==
  ASSUME SchedInv, InSyscall, NEW ts \in Seq(Task), CanResume(ts), block_current(ts)
  PROVE  SchedInv' /\ Next /\ Blocked' = (Blocked \ Listed(ts)) \union {current_task}
<1>1. ts \in WakeLists
  BY CanResumeWakeList
<1>2. Next
  BY <1>1, Zenon DEF Next, SyscallBlock
<1>3. resched([Resumed(ts) EXCEPT ![current_task] = "Blocking"], Requeued(ts))
  BY DEF block_current
<1>4. status = "running" /\ current_task # Root /\ state[current_task] = "Running"
  BY DEF InSyscall, UserTask
<1> QED
  BY Zenon, <1>2, <1>3, <1>4, LeaveKeepsInv

\* A call that resumes ts and returns.
LEMMA ResumeStep ==
  ASSUME SchedInv, InSyscall, NEW ts \in Seq(Task), CanResume(ts), resume(ts)
  PROVE  SchedInv' /\ Next /\ Blocked' = Blocked \ Listed(ts)
<1>1. ts \in WakeLists
  BY CanResumeWakeList, Zenon
<1>2. Next
  BY <1>1 DEF Next, SyscallResume
<1>3. SchedInv'
  BY <1>2, NextKeepsInv, Zenon
<1>4. Blocked' = Blocked \ Listed(ts)
  BY DEF resume, Resumed, Blocked, Listed, CanResume
<1> QED
  BY <1>2, <1>3, <1>4, Zenon

\* A call that yields.
LEMMA YieldStep ==
  ASSUME SchedInv, InSyscall, yield_current(<<>>)
  PROVE  SchedInv' /\ Next /\ Blocked' = Blocked
<1>1. <<>> \in Seq(Task) /\ CanResume(<<>>) /\ Listed(<<>>) = {}
  BY DEF CanResume, Listed
<1>2. Next
  BY Zenon DEF Next, SyscallYield
<1>3. status = "running" /\ current_task # Idle
  BY Zenon DEF InSyscall, UserTask
<1> QED
  BY Zenon, <1>1, <1>2, <1>3, YieldKeepsInv

\* A user or kernel task that exits wakes and blocks nobody.
LEMMA ExitStep ==
  ASSUME SchedInv, exit_current, status = "running", current_task # Root,
         state[current_task] \in {"Running", "Zombie"}
  PROVE  Blocked' = Blocked
<1>1. <<>> \in Seq(Task) /\ CanResume(<<>>) /\ Listed(<<>>) = {}
  BY DEF CanResume, Listed
<1>2. Resumed(<<>>) = state /\ Requeued(<<>>) = ready_queue
  BY DEF Resumed, Requeued, SchedInv, TypeOK
<1>3. resched([Resumed(<<>>) EXCEPT ![current_task] = "Zombie"], Requeued(<<>>))
  BY <1>2, Zenon DEF exit_current
<1>4. Blocked' = (Blocked \ Listed(<<>>)) \union
                   (IF "Zombie" = "Blocking" THEN {current_task} ELSE {})
  <2>1. "Zombie" \in {"Blocking", "Zombie"} /\ (state[current_task] = "Running" \/ "Zombie" = "Zombie")
    BY Zenon
  <2> QED BY <1>1, <1>3, <2>1, LeaveKeepsInv, Zenon
<1> QED
  BY <1>1, <1>4

\* The first waiter of a queue can be resumed, and then waits nowhere.
LEMMA PopStep ==
  ASSUME SyncInv, NEW q \in Queue
  PROVE  /\ First(q) \in Seq(UserTask) /\ First(q) \in Seq(Task) /\ CanResume(First(q))
         /\ pop_front(q) \in [Queue -> Seq(UserTask)]
         /\ WaitPlaces(pop_front(q), timers, Blocked \ Listed(First(q)))
         /\ \A p \in Queue : p # q => pop_front(q)[p] = wait_queue[p]
<1>1. wait_queue \in [Queue -> Seq(UserTask)] /\ WaitPlaces(wait_queue, timers, Blocked)
  BY Zenon DEF SyncInv, SyncTypeOK, WaitsOnce
<1>2. CASE wait_queue[q] = <<>>
  <2>1. First(q) = <<>> /\ pop_front(q) = wait_queue
    BY <1>2 DEF First, pop_front
  <2>2. Listed(<<>>) = {} /\ CanResume(<<>>) /\ <<>> \in Seq(Task) /\ <<>> \in Seq(UserTask)
    BY DEF Listed, CanResume
  <2>3. Blocked \ {} = Blocked
    BY Zenon
  <2> QED BY Zenon, <1>1, <2>1, <2>2, <2>3
<1>3. CASE wait_queue[q] # <<>>
  <2> DEFINE h == Head(wait_queue[q])
  <2>1. First(q) = <<h>> /\ pop_front(q) = [wait_queue EXCEPT ![q] = Tail(@)]
    BY <1>3 DEF First, pop_front
  <2>2. /\ pop_front(q) \in [Queue -> Seq(UserTask)]
        /\ h \in UserTask /\ h \in Blocked
        /\ WaitPlaces(pop_front(q), timers, Blocked \ {h})
    <3>1. /\ [wait_queue EXCEPT ![q] = Tail(@)] \in [Queue -> Seq(UserTask)]
          /\ Head(wait_queue[q]) \in UserTask /\ Head(wait_queue[q]) \in Blocked
          /\ WaitPlaces([wait_queue EXCEPT ![q] = Tail(@)], timers,
                        Blocked \ {Head(wait_queue[q])})
      BY <1>1, <1>3, PopWaits, Zenon
    <3> QED BY <2>1, <3>1, Zenon
  <2> HIDE DEF h
  <2>3. <<h>> \in Seq(UserTask) /\ <<h>> \in Seq(Task) /\ CanResume(<<h>>)
    BY <2>2 DEF CanResume, Blocked, UserTask
  <2>4. Listed(<<h>>) = {h}
    BY DEF Listed
  <2>5. \A p \in Queue : p # q => pop_front(q)[p] = wait_queue[p]
    BY <1>1, <2>1, Zenon
  <2> QED BY Zenon, <2>1, <2>2, <2>3, <2>4, <2>5
<1> QED
  BY <1>2, <1>3

----------------------------------------------------------------------------
(* Frames: steps that leave a kind of object alone.                        *)

\* Mutexes are safe when only the queues of locked ones change.
LEMMA MutexFrame ==
  ASSUME MutexSafe, UNCHANGED mutexVars,
         \A m \in MutexBlocking : wait_queue'[m] = wait_queue[m] \/ locked[m]
  PROVE  MutexSafe'
BY Zenon DEF MutexSafe, mutexVars

\* Threads wait where they waited when no queue and no timer changes.
LEMMA WaitFrame ==
  ASSUME WaitsOnce, wait_queue' = wait_queue, timers' = timers, Blocked' = Blocked
  PROVE  WaitsOnce'
BY DEF WaitsOnce, WaitPlaces, InQueue, InTimers

\* Semaphores are safe when neither their counts nor their queues change.
LEMMA SemFrame ==
  ASSUME SemaphoreSafe, UNCHANGED semVars,
         \A s \in Semaphore : wait_queue'[s] = wait_queue[s]
  PROVE  SemaphoreSafe'
BY DEF SemaphoreSafe, semVars

\* A step that changes neither objects nor timers and blocks nobody.
LEMMA SyncFrame ==
  ASSUME SyncInv, SchedInv', Blocked' = Blocked, UNCHANGED syncVars
  PROVE  SyncInv'
<1>1. TypeOK'
  BY Zenon DEF SchedInv
<1>2. SyncTypeOK'
  BY <1>1 DEF SyncInv, SyncTypeOK, syncVars
<1>3. WaitsOnce'
  BY WaitFrame DEF SyncInv, syncVars
<1>4. MutexSafe'
  BY MutexFrame, Zenon DEF SyncInv, syncVars, mutexVars
<1>5. SemaphoreSafe'
  BY SemFrame DEF SyncInv, syncVars, semVars
<1>6. CreatedFirst'
  BY DEF SyncInv, CreatedFirst, syncVars
<1> QED
  BY <1>2, <1>3, <1>4, <1>5, <1>6, Zenon DEF SyncInv

----------------------------------------------------------------------------
(* The calls, one by one.                                                  *)

\* Creating an object.
LEMMA CreateStep ==
  ASSUME SyncInv,
         \/ \E m \in Mutex : sys_mutex_create(m)
         \/ \E s \in Semaphore, n \in ResCount : sys_semaphore_create(s, n)
         \/ \E c \in Condvar : sys_condvar_create(c)
  PROVE  SyncInv' /\ UNCHANGED schedVars
<1>1. /\ UNCHANGED <<schedVars, wait_queue, relock, timers, now, held>>
      /\ created \subseteq created'
  BY DEF sys_mutex_create, sys_semaphore_create, sys_condvar_create, timeVars, mutexVars
<1>2. SchedInv' /\ Blocked' = Blocked
  BY <1>1, NextKeepsInv DEF SyncInv, schedVars, Blocked
<1>3. WaitsOnce'
  BY <1>1, <1>2, WaitFrame, Zenon DEF SyncInv
<1>4. CASE \E m \in Mutex : sys_mutex_create(m)
  <2>1. PICK m \in Mutex : sys_mutex_create(m)
    BY <1>4, Zenon
  <2>2. ~locked[m] /\ locked \in [Mutex -> BOOLEAN]
    BY <2>1 DEF sys_mutex_create, SyncInv, CreatedFirst, SyncTypeOK
  <2>3. locked' = locked /\ created' = created \union {m} /\ UNCHANGED semVars
    BY <2>1, <2>2 DEF sys_mutex_create, semVars
  <2>4. MutexSafe'
    BY <1>1, <2>3, MutexFrame, Zenon DEF SyncInv, mutexVars
  <2>5. SemaphoreSafe'
    BY <1>1, <2>3, SemFrame DEF SyncInv
  <2>6. SyncTypeOK' /\ CreatedFirst'
    BY <1>1, <1>2, <2>3, Zenon DEF SyncInv, SchedInv, SyncTypeOK, CreatedFirst, semVars
  <2> QED BY <1>1, <1>2, <1>3, <2>4, <2>5, <2>6 DEF SyncInv
<1>5. CASE \E s \in Semaphore, n \in ResCount : sys_semaphore_create(s, n)
  <2>1. PICK s \in Semaphore, n \in ResCount : sys_semaphore_create(s, n)
    BY <1>5, Zenon
  <2>2. n \in 0 .. MaxCount /\ MaxCount < Half /\ Half \in Nat /\ MaxCount \in Nat
    BY SyncAssumption
  <2>3. AsIsize(n) = n /\ n \in -Half .. Half - 1
    BY <2>2 DEF AsIsize
  <2>4. /\ s \in Semaphore \ created
        /\ created' = created \union {s} /\ UNCHANGED mutexVars
        /\ count' = [count EXCEPT ![s] = n]
        /\ credit' = [credit EXCEPT ![s] = n]
    BY <2>1, <2>3, Zenon DEF sys_semaphore_create
  <2>5. wait_queue[s] = <<>> /\ Len(<<>>) = 0
    BY <2>4, Zenon DEF SyncInv, CreatedFirst
  <2>6. /\ count \in [Semaphore -> -Half .. Half - 1]
        /\ credit \in [Semaphore -> Int]
    BY DEF SyncInv, SyncTypeOK
  <2>7. /\ count' \in [Semaphore -> -Half .. Half - 1]
        /\ credit' \in [Semaphore -> Int]
        /\ count'[s] = n /\ credit'[s] = n
        /\ \A r \in Semaphore : r # s => count'[r] = count[r] /\ credit'[r] = credit[r]
    BY <2>2, <2>3, <2>4, <2>6
  <2>8. SemaphoreSafe'
    <3>1. credit'[s] >= 0 /\ count'[s] = credit'[s] - Len(wait_queue'[s])
      BY <1>1, <2>2, <2>5, <2>7
    <3>2. credit'[s] > 0 => wait_queue'[s] = <<>>
      BY <1>1, <2>5, Zenon
    <3>3. \A r \in Semaphore : r # s =>
            /\ credit'[r] >= 0
            /\ count'[r] = credit'[r] - Len(wait_queue'[r])
            /\ credit'[r] > 0 => wait_queue'[r] = <<>>
      BY <1>1, <2>7 DEF SyncInv, SemaphoreSafe
    <3> QED BY <3>1, <3>2, <3>3, Zenon DEF SemaphoreSafe
  <2>9. MutexSafe'
    BY <1>1, <2>4, MutexFrame DEF SyncInv
  <2>10. SyncTypeOK'
    BY <1>1, <1>2, <2>4, <2>7, Zenon DEF SyncInv, SchedInv, SyncTypeOK, Queue, mutexVars
  <2>11. CreatedFirst'
    <3>1. locked' = locked /\ relock' = relock /\ wait_queue' = wait_queue
      BY <1>1, <2>4, Zenon DEF mutexVars
    <3>2. \A r \in Semaphore : credit'[r] <= MaxCount
      BY <2>2, <2>7 DEF SyncInv, CreatedFirst
    <3> QED BY Zenon, <1>1, <3>1, <3>2 DEF SyncInv, CreatedFirst
  <2> QED BY <1>1, <1>2, <1>3, <2>8, <2>9, <2>10, <2>11 DEF SyncInv
<1>6. CASE \E c \in Condvar : sys_condvar_create(c)
  <2>1. PICK c \in Condvar : sys_condvar_create(c)
    BY <1>6
  <2>2. created' = created \union {c} /\ UNCHANGED <<semVars, mutexVars>>
    BY <2>1 DEF sys_condvar_create
  <2>3. MutexSafe' /\ SemaphoreSafe'
    BY <1>1, <2>2, MutexFrame, SemFrame, Zenon DEF SyncInv
  <2>4. SyncTypeOK' /\ CreatedFirst'
    BY <1>1, <1>2, <2>2 DEF SyncInv, SchedInv, SyncTypeOK, CreatedFirst, semVars, mutexVars, Queue
  <2> QED BY <1>1, <1>2, <1>3, <2>3, <2>4, Zenon DEF SyncInv
<1> QED
  BY <1>4, <1>5, <1>6, Zenon

\* One pass of lock(), first or repeated.
LEMMA LockStep ==
  ASSUME SyncInv, InSyscall, NEW m \in Mutex, m \in created, lock(m)
  PROVE  SyncInv' /\ [Next]_schedVars
<1>1. /\ current_task \in UserTask /\ current_task \in Task /\ current_task \notin Blocked
      /\ SchedInv
  BY CallerRuns DEF SyncInv
<1>2. UNCHANGED <<created, count, credit, timers, now>>
  BY Zenon DEF lock, semVars, timeVars
<1>3. /\ relock' \in [Task -> Mutex \union {NoMutex}]
      /\ \A t \in Task : relock'[t] # NoMutex => relock'[t] \in created
  BY Zenon, <1>1 DEF lock, SyncInv, SyncTypeOK, CreatedFirst
<1>4. CASE ~locked[m]
  <2>1. /\ locked' = [locked EXCEPT ![m] = TRUE]
        /\ held' = [held EXCEPT ![current_task] = @ \union {m}]
        /\ UNCHANGED <<schedVars, wait_queue>>
    BY <1>4 DEF lock
  <2>2. SchedInv' /\ Blocked' = Blocked
    BY <1>1, <2>1, NextKeepsInv DEF schedVars, Blocked
  <2>3. /\ locked \in [Mutex -> BOOLEAN] /\ held \in [Task -> SUBSET Mutex]
        /\ \A t \in Task : m \notin held[t]
    BY <1>4, Zenon DEF SyncInv, SyncTypeOK, MutexSafe
  <2>4. /\ locked' \in [Mutex -> BOOLEAN] /\ held' \in [Task -> SUBSET Mutex]
        /\ locked'[m] /\ \A k \in Mutex : k # m => locked'[k] = locked[k]
        /\ \A t \in Task : m \in held'[t] <=> t = current_task
        /\ \A t \in Task, k \in Mutex : k # m => (k \in held'[t] <=> k \in held[t])
    BY <1>1, <2>1, <2>3
  <2>5. MutexSafe'
    <3>1. MutexSafe
      BY Zenon DEF SyncInv
    <3>2. \A k \in Mutex : k # m =>
            /\ \A t, u \in Task : k \in held'[t] /\ k \in held'[u] => t = u
            /\ locked'[k] <=> \E t \in Task : k \in held'[t]
            /\ k \in MutexBlocking /\ ~locked'[k] => wait_queue'[k] = <<>>
      BY <2>1, <2>4, <3>1, Zenon DEF MutexSafe
    <3>3. \A t, u \in Task : m \in held'[t] /\ m \in held'[u] => t = u
      BY <2>4, Zenon
    <3>4. locked'[m] /\ \E t \in Task : m \in held'[t]
      BY <1>1, <2>4, Zenon
    <3>5. SUFFICES ASSUME NEW k \in Mutex
                   PROVE  /\ \A t, u \in Task : k \in held'[t] /\ k \in held'[u] => t = u
                          /\ locked'[k] <=> \E t \in Task : k \in held'[t]
                          /\ k \in MutexBlocking /\ ~locked'[k] => wait_queue'[k] = <<>>
      BY Zenon DEF MutexSafe
    <3>6. CASE k = m
      BY <3>3, <3>4, <3>6, Zenon
    <3>7. QED BY <3>2, <3>6, Zenon
  <2>6. SemaphoreSafe'
    BY <1>2, <2>1, SemFrame, Zenon DEF SyncInv, semVars
  <2>7. WaitsOnce'
    BY <1>2, <2>1, <2>2, WaitFrame, Zenon DEF SyncInv
  <2>8. SyncTypeOK'
    BY <1>2, <1>3, <2>1, <2>2, <2>4 DEF SyncInv, SchedInv, SyncTypeOK
  <2>9. CreatedFirst'
    BY Zenon, <1>2, <1>3, <2>1, <2>4 DEF SyncInv, CreatedFirst
  <2> QED BY <2>1, <2>2, <2>5, <2>6, <2>7, <2>8, <2>9 DEF SyncInv
<1>5. CASE locked[m] /\ m \in MutexSpin
  <2>1. yield_current(<<>>) /\ UNCHANGED <<mutexVars, wait_queue>>
    BY <1>5, SyncAssumption, Zenon DEF lock
  <2>2. SchedInv' /\ Next /\ Blocked' = Blocked
    BY <1>1, <2>1, YieldStep
  <2>3. MutexSafe' /\ SemaphoreSafe'
    BY <1>2, <2>1, MutexFrame, SemFrame, Zenon DEF SyncInv, semVars
  <2>4. WaitsOnce'
    BY <1>2, <2>1, <2>2, WaitFrame DEF SyncInv
  <2>5. SyncTypeOK' /\ CreatedFirst'
    BY Zenon, <1>2, <1>3, <2>1, <2>2 DEF SyncInv, SchedInv, SyncTypeOK, CreatedFirst, mutexVars
  <2> QED BY <2>2, <2>3, <2>4, <2>5 DEF SyncInv
<1>6. CASE locked[m] /\ m \in MutexBlocking
  <2>1. block_current(<<>>) /\ push_back(m) /\ UNCHANGED mutexVars
    BY <1>6, SyncAssumption, Zenon DEF lock
  <2>2. <<>> \in Seq(Task) /\ CanResume(<<>>) /\ Listed(<<>>) = {}
    BY DEF CanResume, Listed
  <2>3. SchedInv' /\ Next /\ Blocked' = Blocked \union {current_task}
    BY Zenon, <1>1, <2>1, <2>2, BlockStep
  <2>4. m \in Queue /\ wait_queue' = [wait_queue EXCEPT ![m] = Append(@, current_task)]
    BY <1>6, <2>1, Zenon DEF push_back, Queue
  <2>5. wait_queue' \in [Queue -> Seq(UserTask)] /\ WaitsOnce'
    <3>1. wait_queue \in [Queue -> Seq(UserTask)] /\ WaitPlaces(wait_queue, timers, Blocked)
      BY DEF SyncInv, SyncTypeOK, WaitsOnce
    <3>2. /\ [wait_queue EXCEPT ![m] = Append(@, current_task)] \in [Queue -> Seq(UserTask)]
          /\ WaitPlaces([wait_queue EXCEPT ![m] = Append(@, current_task)], timers,
                        Blocked \union {current_task})
      BY <1>1, <2>4, <3>1, PushWaits, Zenon
    <3>3. WaitPlaces(wait_queue', timers', Blocked')
      BY <1>2, <2>3, <2>4, <3>2, Zenon
    <3> QED BY Zenon, <2>4, <3>2, <3>3 DEF WaitsOnce, WaitPlaces, InQueue, InTimers
  <2>6. \A q \in Queue : q # m => wait_queue'[q] = wait_queue[q]
    BY <2>4 DEF SyncInv, SyncTypeOK
  <2>7. MutexSafe'
    BY <1>6, <2>1, <2>6, MutexFrame DEF SyncInv, Queue
  <2>8. m \notin Semaphore
    BY SyncAssumption
  <2>9. SemaphoreSafe'
    BY <1>2, <2>6, <2>8, SemFrame DEF SyncInv, semVars, Queue
  <2>10. SyncTypeOK'
    BY <1>2, <1>3, <2>1, <2>3, <2>5 DEF SyncInv, SchedInv, SyncTypeOK, mutexVars
  <2>11. CreatedFirst'
    BY Zenon, <1>2, <1>3, <2>1, <2>6, <2>8 DEF SyncInv, CreatedFirst, mutexVars, Queue
  <2> QED BY <2>3, <2>5, <2>7, <2>9, <2>10, <2>11 DEF SyncInv
<1> QED
  BY <1>4, <1>5, <1>6, Zenon DEF Mutex

\* The owner of a mutex changes hands or goes; the queue shrinks accordingly.
LEMMA UnlockEffect ==
  ASSUME SyncInv, InSyscall, NEW m \in held[current_task], unlock(m)
  PROVE  /\ m \in Mutex
         /\ NextOwner(m) \in Seq(Task) /\ CanResume(NextOwner(m))
         /\ locked' \in [Mutex -> BOOLEAN] /\ held' \in [Task -> SUBSET Mutex]
         /\ \A k \in Mutex \ created : ~locked'[k]
         /\ (\A q \in MutexBlocking :
               wait_queue'[q] = IF q = m THEN pop_front(m)[q] ELSE wait_queue[q]) => MutexSafe'
<1>1. /\ current_task \in UserTask /\ current_task \in Task /\ current_task \notin Blocked
  BY Zenon, CallerRuns DEF SyncInv
<1>2. /\ locked \in [Mutex -> BOOLEAN] /\ held \in [Task -> SUBSET Mutex]
      /\ m \in Mutex /\ locked[m] /\ m \in created
      /\ \A t \in Task : m \in held[t] => t = current_task
  BY <1>1 DEF SyncInv, SyncTypeOK, MutexSafe, CreatedFirst
<1>3. NextOwner(m) \in Seq(Task) /\ CanResume(NextOwner(m))
  <2>1. CASE m \in MutexBlocking
    <3>1. NextOwner(m) = First(m) /\ m \in Queue
      BY <2>1 DEF NextOwner, Queue
    <3>2. First(m) \in Seq(Task) /\ CanResume(First(m))
      BY <3>1, PopStep, Zenon
    <3> QED BY <3>1, <3>2, Zenon
  <2>2. CASE m \notin MutexBlocking
    <3>1. NextOwner(m) = <<>>
      BY <2>2 DEF NextOwner
    <3>2. <<>> \in Seq(Task) /\ CanResume(<<>>)
      BY DEF CanResume
    <3> QED BY Zenon, <3>1, <3>2
  <2> QED BY Zenon, <2>1, <2>2
<1>4. /\ locked' = [locked EXCEPT ![m] = NextOwner(m) # <<>>]
      /\ held' = [t \in Task |-> IF NextOwner(m) = <<t>> THEN held[t] \union {m}
                                ELSE IF t = current_task THEN held[t] \ {m} ELSE held[t]]
  BY Zenon DEF unlock
<1>5. /\ locked' \in [Mutex -> BOOLEAN]
      /\ held' \in [Task -> SUBSET Mutex]
      /\ locked'[m] <=> NextOwner(m) # <<>>
      /\ \A k \in Mutex : k # m => locked'[k] = locked[k]
      /\ \A t \in Task, k \in Mutex : k # m => (k \in held'[t] <=> k \in held[t])
  <2>1. (NextOwner(m) # <<>>) \in BOOLEAN
    OBVIOUS
  <2>2. /\ locked' \in [Mutex -> BOOLEAN]
        /\ locked'[m] <=> NextOwner(m) # <<>>
        /\ \A k \in Mutex : k # m => locked'[k] = locked[k]
    BY <1>2, <1>4, <2>1, Zenon
  <2>3. \A t \in Task : /\ held'[t] \subseteq held[t] \union {m}
                        /\ held[t] \ {m} \subseteq held'[t]
    BY <1>4, Zenon
  <2>4. \A t \in Task : held'[t] \subseteq Mutex
    BY <1>2, <2>3
  <2>5. held' \in [Task -> SUBSET Mutex]
    BY <1>4, <2>4, Zenon
  <2> QED BY <2>2, <2>3, <2>5, Zenon
<1>6. \A k \in Mutex \ created : ~locked'[k]
  BY <1>2, <1>5 DEF SyncInv, CreatedFirst
<1>7. ASSUME \A q \in MutexBlocking :
               wait_queue'[q] = IF q = m THEN pop_front(m)[q] ELSE wait_queue[q]
      PROVE  MutexSafe'
  <2>1. \A k \in Mutex : k # m =>
          /\ \A t, u \in Task : k \in held'[t] /\ k \in held'[u] => t = u
          /\ locked'[k] <=> \E t \in Task : k \in held'[t]
          /\ k \in MutexBlocking /\ ~locked'[k] => wait_queue'[k] = <<>>
    BY Zenon, <1>5, <1>7 DEF SyncInv, MutexSafe
  <2>2. CASE NextOwner(m) = <<>>
    <3>1. \A t \in Task : m \notin held'[t]
      <4>1. \A t \in Task : <<>> # <<t>>
        OBVIOUS
      <4> QED BY <1>2, <1>4, <2>2, <4>1, Zenon
    <3>2. m \in MutexBlocking => wait_queue'[m] = <<>>
      BY <1>7, <2>2 DEF NextOwner, First, pop_front
    <3> QED BY <1>5, <2>1, <2>2, <3>1, <3>2 DEF MutexSafe
  <2>3. CASE NextOwner(m) # <<>>
    <3>1. PICK h \in Task : NextOwner(m) = <<h>>
      BY <1>3, <2>3 DEF NextOwner, First
    <3>2. h # current_task
      <4>1. state[h] = "Blocking"
        BY <1>3, <3>1 DEF CanResume
      <4> QED BY <1>1, <4>1, Zenon DEF Blocked
    <3>3. \A t \in Task : NextOwner(m) = <<t>> <=> t = h
      BY <3>1
    <3>4. \A t \in Task : m \in held'[t] <=> t = h
      BY <1>2, <1>4, <3>2, <3>3, Zenon
    <3>5. \A t, u \in Task : m \in held'[t] /\ m \in held'[u] => t = u
      BY <3>4, Zenon
    <3>6. locked'[m] /\ \E t \in Task : m \in held'[t]
      BY <1>5, <2>3, <3>4, Zenon
    <3>7. SUFFICES ASSUME NEW k \in Mutex
                   PROVE  /\ \A t, u \in Task : k \in held'[t] /\ k \in held'[u] => t = u
                          /\ locked'[k] <=> \E t \in Task : k \in held'[t]
                          /\ k \in MutexBlocking /\ ~locked'[k] => wait_queue'[k] = <<>>
      BY Zenon DEF MutexSafe
    <3>8. CASE k = m
      BY <3>5, <3>6, <3>8, Zenon
    <3> QED BY <2>1, <3>8, Zenon
  <2> QED BY <2>2, <2>3, Zenon
<1> QED
  BY Zenon, <1>2, <1>3, <1>5, <1>6, <1>7

\* Unlocking a mutex.
LEMMA UnlockStep ==
  ASSUME SyncInv, NEW m \in Mutex, sys_mutex_unlock(m)
  PROVE  SyncInv' /\ [Next]_schedVars
<1>1. /\ InSyscall /\ m \in held[current_task] /\ unlock(m) /\ resume(NextOwner(m))
      /\ wait_queue' = IF m \in MutexBlocking THEN pop_front(m) ELSE wait_queue
      /\ UNCHANGED <<created, count, credit, relock, timers, now>>
  BY Zenon DEF sys_mutex_unlock, InUser, semVars, timeVars
<1>2. SchedInv
  BY DEF SyncInv
<1>3. /\ NextOwner(m) \in Seq(Task) /\ CanResume(NextOwner(m))
      /\ locked' \in [Mutex -> BOOLEAN] /\ held' \in [Task -> SUBSET Mutex]
      /\ \A k \in Mutex \ created : ~locked'[k]
      /\ (\A q \in MutexBlocking :
               wait_queue'[q] = IF q = m THEN pop_front(m)[q] ELSE wait_queue[q]) => MutexSafe'
  BY Zenon, <1>1, UnlockEffect
<1>4. SchedInv' /\ Next /\ Blocked' = Blocked \ Listed(NextOwner(m))
  BY Zenon, <1>1, <1>2, <1>3, ResumeStep
<1>5. /\ wait_queue' \in [Queue -> Seq(UserTask)]
      /\ WaitPlaces(wait_queue', timers, Blocked \ Listed(NextOwner(m)))
      /\ \A q \in Queue : q # m => wait_queue'[q] = wait_queue[q]
  <2>1. CASE m \in MutexBlocking
    <3>1. NextOwner(m) = First(m) /\ wait_queue' = pop_front(m) /\ m \in Queue
      BY Zenon, <1>1, <2>1 DEF NextOwner, Queue
    <3> QED BY <3>1, PopStep
  <2>2. CASE m \notin MutexBlocking
    <3>1. wait_queue' = wait_queue /\ Listed(NextOwner(m)) = {}
      BY <1>1, <2>2 DEF NextOwner, Listed
    <3>2. Blocked \ {} = Blocked
      BY Zenon
    <3> QED BY <3>1, <3>2 DEF SyncInv, SyncTypeOK, WaitsOnce
  <2> QED BY <2>1, <2>2
<1>6. WaitsOnce'
  <2>1. WaitPlaces(wait_queue', timers', Blocked')
    BY Zenon, <1>1, <1>4, <1>5
  <2> QED BY <2>1, Zenon DEF WaitsOnce, WaitPlaces, InQueue, InTimers
<1>7. MutexSafe'
  <2>1. \A q \in MutexBlocking :
          wait_queue'[q] = IF q = m THEN pop_front(m)[q] ELSE wait_queue[q]
    BY Zenon, <1>1, <1>5 DEF Queue
  <2> QED BY Zenon, <1>3, <2>1
<1>8. m \notin Semaphore
  BY SyncAssumption, Zenon
<1>9. SemaphoreSafe'
  BY Zenon, <1>1, <1>5, <1>8, SemFrame DEF SyncInv, semVars, Queue
<1>10. SyncTypeOK'
  BY Zenon, <1>1, <1>3, <1>4, <1>5 DEF SyncInv, SchedInv, SyncTypeOK
<1>11. CreatedFirst'
  BY Zenon, <1>1, <1>3, <1>5, <1>8 DEF SyncInv, CreatedFirst, Queue
<1> QED
  BY <1>4, <1>6, <1>7, <1>9, <1>10, <1>11 DEF SyncInv

----------------------------------------------------------------------------
(* Semaphores, condition variables, sleeps and the timer.                  *)

\* Semaphores are safe when one of them gets a consistent count and queue.
LEMMA SemUpdate ==
  ASSUME SyncInv, NEW s \in Semaphore, NEW c \in -Half .. Half - 1, NEW k \in 0 .. MaxCount,
         count' = [count EXCEPT ![s] = c], credit' = [credit EXCEPT ![s] = k],
         \A q \in Queue : q # s => wait_queue'[q] = wait_queue[q],
         c = k - Len(wait_queue'[s]), k > 0 => wait_queue'[s] = <<>>
  PROVE  /\ SemaphoreSafe'
         /\ count' \in [Semaphore -> -Half .. Half - 1]
         /\ credit' \in [Semaphore -> Int]
         /\ \A r \in Semaphore : credit'[r] <= MaxCount
<1>1. count \in [Semaphore -> -Half .. Half - 1] /\ credit \in [Semaphore -> Int]
  BY Zenon DEF SyncInv, SyncTypeOK
<1>2. MaxCount \in Nat /\ k \in Int
  BY SyncAssumption
<1>3. /\ count' \in [Semaphore -> -Half .. Half - 1] /\ credit' \in [Semaphore -> Int]
      /\ count'[s] = c /\ credit'[s] = k
      /\ \A r \in Semaphore : r # s => count'[r] = count[r] /\ credit'[r] = credit[r]
  BY <1>1, <1>2, Zenon
<1>4. \A r \in Semaphore : r # s => wait_queue'[r] = wait_queue[r]
  BY Zenon DEF Queue
<1>5. \A r \in Semaphore : r # s =>
        /\ credit'[r] >= 0
        /\ count'[r] = credit'[r] - Len(wait_queue'[r])
        /\ credit'[r] > 0 => wait_queue'[r] = <<>>
        /\ credit'[r] <= MaxCount
  BY <1>3, <1>4 DEF SyncInv, SemaphoreSafe, CreatedFirst
<1>6. /\ credit'[s] >= 0 /\ credit'[s] <= MaxCount
      /\ count'[s] = credit'[s] - Len(wait_queue'[s])
      /\ credit'[s] > 0 => wait_queue'[s] = <<>>
  BY <1>2, <1>3
<1> QED
  BY <1>3, <1>5, <1>6 DEF SemaphoreSafe

\* What is known of a semaphore before a call: count is exact.
LEMMA SemFacts ==
  ASSUME SyncInv, NEW s \in Semaphore
  PROVE  /\ s \in Queue /\ s \notin Mutex
         /\ wait_queue[s] \in Seq(UserTask) /\ Len(wait_queue[s]) \in Nat
         /\ credit[s] \in 0 .. MaxCount
         /\ count[s] = credit[s] - Len(wait_queue[s])
         /\ count[s] - 1 >= -Half
         /\ MaxCount \in Nat /\ Half \in Nat /\ MaxCount < Half
<1>1. s \in Queue /\ s \notin Mutex
  BY SyncAssumption DEF Queue
<1>2. Len(wait_queue[s]) \in Nat /\ Len(wait_queue[s]) <= Cardinality(Task)
  <2>1. wait_queue \in [Queue -> Seq(UserTask)] /\ WaitPlaces(wait_queue, timers, Blocked)
    BY DEF SyncInv, SyncTypeOK, WaitsOnce
  <2> QED BY <1>1, <2>1, QueueBound, Zenon
<1>3. MaxCount \in Nat /\ Half \in Nat /\ MaxCount < Half /\ Cardinality(Task) < Half
  BY SyncAssumption
<1>4. Cardinality(Task) \in Nat
  BY TaskAssumption, FS_CardinalityType, Zenon
<1>5. /\ wait_queue[s] \in Seq(UserTask) /\ credit[s] \in Int
      /\ credit[s] >= 0 /\ credit[s] <= MaxCount
      /\ count[s] = credit[s] - Len(wait_queue[s])
  BY <1>1 DEF SyncInv, SyncTypeOK, SemaphoreSafe, CreatedFirst
<1> QED
  BY <1>1, <1>2, <1>3, <1>4, <1>5

\* A unit is put in: it goes to the first waiter or becomes available.
LEMMA UpStep ==
  ASSUME SyncInv, NEW s \in Semaphore, sys_semaphore_up(s)
  PROVE  SyncInv' /\ [Next]_schedVars
<1> DEFINE c     == AsIsize(count[s] + 1)
           woken == IF c <= 0 THEN First(s) ELSE <<>>
<1>1. /\ InSyscall /\ resume(woken) /\ s \in created
      /\ credit[s] < MaxCount
      /\ count' = [count EXCEPT ![s] = c]
      /\ credit' = [credit EXCEPT ![s] = @ + 1 - Len(woken)]
      /\ wait_queue' = IF c <= 0 THEN pop_front(s) ELSE wait_queue
      /\ UNCHANGED <<created, mutexVars, relock, timers, now>>
  BY DEF sys_semaphore_up, InUser, timeVars
<1>2. SchedInv
  BY Zenon DEF SyncInv
<1>3. /\ s \in Queue /\ s \notin Mutex
      /\ wait_queue[s] \in Seq(UserTask) /\ Len(wait_queue[s]) \in Nat
      /\ credit[s] \in 0 .. MaxCount
      /\ count[s] = credit[s] - Len(wait_queue[s])
      /\ count[s] - 1 >= -Half
      /\ MaxCount \in Nat /\ Half \in Nat /\ MaxCount < Half
  BY SemFacts, Zenon
<1>4. c = count[s] + 1 /\ c \in -Half .. Half - 1
  <2>1. count[s] + 1 \in -Half .. Half - 1
    BY <1>1, <1>3
  <2> QED BY <1>3, <2>1 DEF AsIsize
<1>5. woken = First(s) /\ wait_queue' = pop_front(s)
  <2>1. CASE wait_queue[s] = <<>>
    BY <1>1, <2>1 DEF First, pop_front
  <2>2. CASE wait_queue[s] # <<>>
    <3>1. Len(wait_queue[s]) > 0 /\ ~(credit[s] > 0)
      BY <1>3, <2>2 DEF SyncInv, SemaphoreSafe
    <3>2. c <= 0
      BY <1>3, <1>4, <3>1
    <3> QED BY <1>1, <3>2, Zenon
  <2> QED BY <2>1, <2>2, Zenon
<1> HIDE DEF c, woken
<1>6. /\ First(s) \in Seq(Task) /\ CanResume(First(s))
      /\ pop_front(s) \in [Queue -> Seq(UserTask)]
      /\ WaitPlaces(pop_front(s), timers, Blocked \ Listed(First(s)))
      /\ \A p \in Queue : p # s => pop_front(s)[p] = wait_queue[p]
  BY <1>3, PopStep, Zenon
<1>7. SchedInv' /\ Next /\ Blocked' = Blocked \ Listed(First(s))
  BY <1>1, <1>2, <1>5, <1>6, ResumeStep
<1>8. WaitsOnce'
  <2>1. WaitPlaces(wait_queue', timers', Blocked')
    BY <1>1, <1>5, <1>6, <1>7, Zenon
  <2> QED BY <2>1, Zenon DEF WaitsOnce, WaitPlaces, InQueue, InTimers
<1>9. /\ credit[s] + 1 - Len(First(s)) \in 0 .. MaxCount
      /\ c = (credit[s] + 1 - Len(First(s))) - Len(wait_queue'[s])
      /\ credit[s] + 1 - Len(First(s)) > 0 => wait_queue'[s] = <<>>
  <2>1. CASE wait_queue[s] = <<>>
    <3>1. First(s) = <<>> /\ wait_queue'[s] = <<>> /\ Len(<<>>) = 0
      BY <1>5, <2>1, Zenon DEF First, pop_front
    <3> QED BY <1>1, <1>3, <1>4, <2>1, <3>1
  <2>2. CASE wait_queue[s] # <<>>
    <3>1. /\ First(s) = <<Head(wait_queue[s])>>
          /\ wait_queue'[s] = Tail(wait_queue[s])
      BY <1>3, <1>5, <2>2, Zenon DEF First, pop_front, SyncInv, SyncTypeOK
    <3>2. Len(First(s)) = 1 /\ Len(wait_queue'[s]) = Len(wait_queue[s]) - 1
      BY <1>3, <2>2, <3>1
    <3>3. credit[s] = 0
      BY <1>3, <2>2 DEF SyncInv, SemaphoreSafe
    <3> QED BY <1>3, <1>4, <3>2, <3>3
  <2> QED BY <2>1, <2>2, Zenon
<1>10. credit' = [credit EXCEPT ![s] = credit[s] + 1 - Len(First(s))]
  BY <1>1, <1>5, Zenon
<1>11. \A q \in Queue : q # s => wait_queue'[q] = wait_queue[q]
  BY <1>5, <1>6
<1>12. /\ SemaphoreSafe'
       /\ count' \in [Semaphore -> -Half .. Half - 1]
       /\ credit' \in [Semaphore -> Int]
       /\ \A r \in Semaphore : credit'[r] <= MaxCount
  <2> DEFINE k == credit[s] + 1 - Len(First(s))
  <2>1. /\ k \in 0 .. MaxCount /\ c = k - Len(wait_queue'[s])
        /\ k > 0 => wait_queue'[s] = <<>>
        /\ credit' = [credit EXCEPT ![s] = k] /\ count' = [count EXCEPT ![s] = c]
    BY <1>1, <1>9, <1>10, Zenon
  <2> HIDE DEF k
  <2> QED BY <1>4, <1>11, <2>1, SemUpdate, Zenon
<1>13. MutexSafe'
  BY <1>1, <1>3, <1>11, MutexFrame, Zenon DEF SyncInv, Queue, Mutex
<1>14. SyncTypeOK'
  BY <1>1, <1>5, <1>6, <1>7, <1>12 DEF SyncInv, SchedInv, SyncTypeOK, mutexVars
<1>15. CreatedFirst'
  BY Zenon, <1>1, <1>11, <1>12 DEF SyncInv, CreatedFirst, mutexVars, Queue
<1> QED
  BY <1>7, <1>8, <1>12, <1>13, <1>14, <1>15 DEF SyncInv

\* A unit is taken, or the caller queues for one.
LEMMA DownStep ==
  ASSUME SyncInv, NEW s \in Semaphore, sys_semaphore_down(s)
  PROVE  SyncInv' /\ [Next]_schedVars
<1> DEFINE c == AsIsize(count[s] - 1)
<1>1. /\ InSyscall /\ s \in created
      /\ count' = [count EXCEPT ![s] = c]
      /\ IF c < 0
         THEN push_back(s) /\ block_current(<<>>) /\ UNCHANGED credit
         ELSE /\ credit' = [credit EXCEPT ![s] = @ - 1]
              /\ UNCHANGED <<schedVars, wait_queue>>
      /\ UNCHANGED <<created, mutexVars, relock, timers, now>>
  BY DEF sys_semaphore_down, InUser, timeVars
<1>2. /\ SchedInv
      /\ current_task \in UserTask /\ current_task \in Task /\ current_task \notin Blocked
  BY <1>1, CallerRuns DEF SyncInv
<1>3. /\ s \in Queue /\ s \notin Mutex
      /\ wait_queue[s] \in Seq(UserTask) /\ Len(wait_queue[s]) \in Nat
      /\ credit[s] \in 0 .. MaxCount
      /\ count[s] = credit[s] - Len(wait_queue[s])
      /\ count[s] - 1 >= -Half
      /\ MaxCount \in Nat /\ Half \in Nat /\ MaxCount < Half
  BY SemFacts, Zenon
<1>4. c = count[s] - 1 /\ c \in -Half .. Half - 1
  BY <1>3 DEF AsIsize
<1> HIDE DEF c
<1>5. wait_queue \in [Queue -> Seq(UserTask)] /\ WaitPlaces(wait_queue, timers, Blocked)
  BY Zenon DEF SyncInv, SyncTypeOK, WaitsOnce
<1>6. credit \in [Semaphore -> Int] /\ (credit[s] > 0 => wait_queue[s] = <<>>)
  BY Zenon DEF SyncInv, SyncTypeOK, SemaphoreSafe
<1>7. CASE c < 0
  <2>1. /\ block_current(<<>>) /\ credit' = credit
        /\ wait_queue' = [wait_queue EXCEPT ![s] = Append(@, current_task)]
    BY <1>1, <1>7 DEF push_back
  <2>2. <<>> \in Seq(Task) /\ CanResume(<<>>) /\ Listed(<<>>) = {}
    BY DEF CanResume, Listed
  <2>3. SchedInv' /\ Next /\ Blocked' = Blocked \union {current_task}
    <3>1. Blocked' = (Blocked \ {}) \union {current_task} /\ SchedInv' /\ Next
      BY <1>1, <1>2, <2>1, <2>2, BlockStep, Zenon
    <3> QED BY <3>1, Zenon
  <2>4. /\ [wait_queue EXCEPT ![s] = Append(@, current_task)] \in [Queue -> Seq(UserTask)]
        /\ WaitPlaces([wait_queue EXCEPT ![s] = Append(@, current_task)], timers,
                      Blocked \union {current_task})
    BY <1>2, <1>3, <1>5, PushWaits, Zenon
  <2>5. wait_queue' \in [Queue -> Seq(UserTask)] /\ WaitPlaces(wait_queue', timers', Blocked')
    BY <1>1, <2>1, <2>3, <2>4, Zenon
  <2>6. /\ \A q \in Queue : q # s => wait_queue'[q] = wait_queue[q]
        /\ wait_queue'[s] = Append(wait_queue[s], current_task)
    BY <1>3, <1>5, <2>1
  <2>7. credit[s] = 0
    <3>1. CASE credit[s] > 0
      <4>1. Len(wait_queue[s]) = 0
        BY <1>6, <3>1
      <4> QED BY <1>3, <1>4, <1>7, <3>1, <4>1
    <3> QED BY <1>3, <3>1
  <2>8. /\ 0 \in 0 .. MaxCount /\ c = 0 - Len(wait_queue'[s])
        /\ 0 > 0 => wait_queue'[s] = <<>>
    <3>1. Len(wait_queue'[s]) = Len(wait_queue[s]) + 1
      BY <1>2, <1>3, <2>6
    <3> QED BY <1>3, <1>4, <2>7, <3>1
  <2>9. credit' = [credit EXCEPT ![s] = 0]
    BY <1>6, <2>1, <2>7, Zenon
  <2>10. /\ SemaphoreSafe'
         /\ count' \in [Semaphore -> -Half .. Half - 1]
         /\ credit' \in [Semaphore -> Int]
         /\ \A r \in Semaphore : credit'[r] <= MaxCount
    BY <1>1, <1>4, <2>6, <2>8, <2>9, SemUpdate, Zenon
  <2>11. MutexSafe'
    BY <1>1, <1>3, <2>6, MutexFrame, Zenon DEF SyncInv, Queue, Mutex
  <2>12. WaitsOnce'
    BY <2>5 DEF WaitsOnce, WaitPlaces, InQueue, InTimers
  <2>13. SyncTypeOK'
    BY <1>1, <2>3, <2>5, <2>10 DEF SyncInv, SchedInv, SyncTypeOK, mutexVars
  <2>14. CreatedFirst'
    BY Zenon, <1>1, <2>6, <2>10 DEF SyncInv, CreatedFirst, mutexVars, Queue
  <2> QED BY <2>3, <2>10, <2>11, <2>12, <2>13, <2>14, Zenon DEF SyncInv
<1>8. CASE ~(c < 0)
  <2>1. /\ UNCHANGED <<schedVars, wait_queue>>
        /\ credit' = [credit EXCEPT ![s] = credit[s] - 1]
    BY <1>1, <1>8
  <2>2. SchedInv' /\ Blocked' = Blocked
    BY <1>2, <2>1, NextKeepsInv DEF schedVars, Blocked
  <2>3. credit[s] > 0 /\ wait_queue[s] = <<>>
    <3>1. credit[s] > 0
      BY <1>3, <1>4, <1>8
    <3> QED BY <1>6, <3>1, Zenon
  <2> DEFINE k == credit[s] - 1
  <2>4. /\ k \in 0 .. MaxCount /\ c = k - Len(wait_queue'[s])
        /\ k > 0 => wait_queue'[s] = <<>>
        /\ credit' = [credit EXCEPT ![s] = k] /\ count' = [count EXCEPT ![s] = c]
    <3>1. Len(wait_queue[s]) = 0
      BY <2>3
    <3>2. k \in 0 .. MaxCount /\ c = k - 0
      BY <1>3, <1>4, <2>3, <3>1
    <3> QED BY <1>1, <2>1, <2>3, <3>1, <3>2, Zenon
  <2> HIDE DEF k
  <2>5. \A q \in Queue : q # s => wait_queue'[q] = wait_queue[q]
    BY <2>1
  <2>6. /\ SemaphoreSafe'
        /\ count' \in [Semaphore -> -Half .. Half - 1]
        /\ credit' \in [Semaphore -> Int]
        /\ \A r \in Semaphore : credit'[r] <= MaxCount
    BY <1>4, <2>4, <2>5, SemUpdate, Zenon
  <2>7. MutexSafe'
    BY Zenon, <1>1, <2>1, MutexFrame DEF SyncInv
  <2>8. WaitsOnce'
    BY <1>1, <2>1, <2>2, WaitFrame, Zenon DEF SyncInv
  <2>9. SyncTypeOK' /\ CreatedFirst'
    BY <1>1, <2>1, <2>2, <2>6 DEF SyncInv, SchedInv, SyncTypeOK, CreatedFirst, mutexVars
  <2> QED BY <2>1, <2>2, <2>6, <2>7, <2>8, <2>9, Zenon DEF SyncInv
<1> QED
  BY <1>7, <1>8, Zenon

\* Signalling a condition variable.
LEMMA SignalStep ==
  ASSUME SyncInv, NEW c \in Condvar, sys_condvar_signal(c)
  PROVE  SyncInv' /\ [Next]_schedVars
<1>1. /\ InSyscall /\ resume(First(c)) /\ wait_queue' = pop_front(c)
      /\ UNCHANGED <<created, mutexVars, semVars, relock, timers, now>>
  BY DEF sys_condvar_signal, InUser, timeVars
<1>2. SchedInv /\ c \in Queue /\ c \notin Mutex /\ c \notin Semaphore
  BY SyncAssumption DEF SyncInv, Queue
<1>3. /\ First(c) \in Seq(Task) /\ CanResume(First(c))
      /\ pop_front(c) \in [Queue -> Seq(UserTask)]
      /\ WaitPlaces(pop_front(c), timers, Blocked \ Listed(First(c)))
      /\ \A p \in Queue : p # c => pop_front(c)[p] = wait_queue[p]
  BY <1>2, PopStep, Zenon
<1>4. SchedInv' /\ Next /\ Blocked' = Blocked \ Listed(First(c))
  BY <1>1, <1>2, <1>3, ResumeStep
<1>5. WaitsOnce'
  <2>1. WaitPlaces(wait_queue', timers', Blocked')
    BY <1>1, <1>3, <1>4, Zenon
  <2> QED BY <2>1, Zenon DEF WaitsOnce, WaitPlaces, InQueue, InTimers
<1>6. \A q \in Queue : q # c => wait_queue'[q] = wait_queue[q]
  BY <1>1, <1>3
<1>7. MutexSafe' /\ SemaphoreSafe'
  BY <1>1, <1>2, <1>6, MutexFrame, SemFrame DEF SyncInv, Queue, Mutex
<1>8. SyncTypeOK'
  BY <1>1, <1>3, <1>4 DEF SyncInv, SchedInv, SyncTypeOK, mutexVars, semVars
<1>9. CreatedFirst'
  BY Zenon, <1>1, <1>2, <1>6 DEF SyncInv, CreatedFirst, mutexVars, semVars, Queue
<1> QED
  BY <1>4, <1>5, <1>7, <1>8, <1>9, Zenon DEF SyncInv

\* Waiting for a condition variable: the mutex goes to its next owner and the
\* caller into the condition variable's queue.
LEMMA WaitStep ==
  ASSUME SyncInv, NEW c \in Condvar, NEW m \in Mutex, sys_condvar_wait(c, m)
  PROVE  SyncInv' /\ [Next]_schedVars
<1> DEFINE popped == IF m \in MutexBlocking THEN pop_front(m) ELSE wait_queue
           ts     == NextOwner(m)
           B      == Blocked \ Listed(ts)
<1>1. /\ InSyscall /\ m \in held[current_task] /\ unlock(m) /\ block_current(ts)
      /\ wait_queue' = [popped EXCEPT ![c] = Append(@, current_task)]
      /\ relock' = [relock EXCEPT ![current_task] = m]
      /\ UNCHANGED <<created, semVars, timers, now>>
  BY Zenon DEF sys_condvar_wait, InUser, timeVars
<1>2. /\ SchedInv /\ c \in Queue /\ c \notin Mutex /\ c \notin Semaphore
      /\ current_task \in UserTask /\ current_task \in Task /\ current_task \notin Blocked
  BY <1>1, SyncAssumption, CallerRuns DEF SyncInv, Queue
<1>3. /\ ts \in Seq(Task) /\ CanResume(ts)
      /\ locked' \in [Mutex -> BOOLEAN] /\ held' \in [Task -> SUBSET Mutex]
      /\ \A k \in Mutex \ created : ~locked'[k]
      /\ (\A q \in MutexBlocking :
               wait_queue'[q] = IF q = m THEN pop_front(m)[q] ELSE wait_queue[q]) => MutexSafe'
  BY Zenon, <1>1, UnlockEffect
<1>4. /\ popped \in [Queue -> Seq(UserTask)]
      /\ WaitPlaces(popped, timers, B)
      /\ \A q \in Queue : q # m => popped[q] = wait_queue[q]
  <2>1. CASE m \in MutexBlocking
    <3>1. ts = First(m) /\ popped = pop_front(m) /\ m \in Queue
      BY <2>1 DEF NextOwner, Queue
    <3> QED BY <3>1, PopStep, Zenon
  <2>2. CASE m \notin MutexBlocking
    <3>1. popped = wait_queue /\ Listed(ts) = {}
      BY <2>2 DEF NextOwner, Listed
    <3>2. B = Blocked
      BY <3>1, Zenon
    <3> QED BY <3>1, <3>2, Zenon DEF SyncInv, SyncTypeOK, WaitsOnce
  <2> QED BY <2>1, <2>2, Zenon
<1>5. m \in MutexBlocking => popped = pop_front(m)
  BY Zenon
<1> HIDE DEF popped, ts
<1>6. SchedInv' /\ Next /\ Blocked' = B \union {current_task}
  BY <1>1, <1>2, <1>3, BlockStep, Zenon
<1>7. current_task \notin B
  BY <1>2
<1> HIDE DEF B
<1>8. wait_queue' \in [Queue -> Seq(UserTask)] /\ WaitPlaces(wait_queue', timers', Blocked')
  <2>1. /\ [popped EXCEPT ![c] = Append(@, current_task)] \in [Queue -> Seq(UserTask)]
        /\ WaitPlaces([popped EXCEPT ![c] = Append(@, current_task)], timers,
                      B \union {current_task})
    BY <1>2, <1>4, <1>7, PushWaits, Zenon
  <2> QED BY <1>1, <1>6, <2>1, Zenon
<1>9. WaitsOnce'
  BY <1>8 DEF WaitsOnce, WaitPlaces, InQueue, InTimers
<1>10. \A q \in Queue : q # c => wait_queue'[q] = popped[q]
  BY <1>1, <1>4
<1>11. MutexSafe'
  <2>1. \A q \in MutexBlocking : q \in Queue /\ q # c
    BY <1>2 DEF Queue, Mutex
  <2>2. \A q \in MutexBlocking :
          wait_queue'[q] = IF q = m THEN pop_front(m)[q] ELSE wait_queue[q]
    BY <1>4, <1>5, <1>10, <2>1
  <2> QED BY <1>3, <2>2, Zenon
<1>12. \A s \in Semaphore : wait_queue'[s] = wait_queue[s]
  <2>1. \A s \in Semaphore : s \in Queue /\ s # c /\ s # m
    BY <1>2, SyncAssumption DEF Queue
  <2> QED BY <1>4, <1>10, <2>1, Zenon
<1>13. SemaphoreSafe'
  BY <1>1, <1>12, SemFrame DEF SyncInv
<1>14. m \in created
  BY Zenon, <1>1, <1>2 DEF SyncInv, MutexSafe, CreatedFirst
<1>15. UNCHANGED <<created, count, credit, timers, now>>
  BY <1>1 DEF semVars
<1>16. /\ relock' \in [Task -> Mutex \union {NoMutex}]
       /\ \A t \in Task : relock'[t] # NoMutex => relock'[t] \in created
  <2>1. relock \in [Task -> Mutex \union {NoMutex}]
    BY DEF SyncInv, SyncTypeOK
  <2>2. \A t \in Task : relock[t] # NoMutex => relock[t] \in created
    BY DEF SyncInv, CreatedFirst
  <2> QED BY <1>1, <1>2, <1>14, <2>1, <2>2
<1>17. SyncTypeOK'
  <2>1. TypeOK'
    BY <1>6 DEF SchedInv
  <2> QED BY <1>3, <1>8, <1>15, <1>16, <2>1, Zenon DEF SyncInv, SyncTypeOK
<1>18. CreatedFirst'
  BY <1>3, <1>12, <1>15, <1>16 DEF SyncInv, CreatedFirst
<1> QED
  BY <1>6, <1>9, <1>11, <1>13, <1>17, <1>18 DEF SyncInv

\* Going to sleep.
LEMMA SleepStep ==
  ASSUME SyncInv, NEW ms \in SleepMs, sys_sleep(ms)
  PROVE  SyncInv' /\ [Next]_schedVars
<1> DEFINE e == AsUsize(now + ms)
           x == [expire_ms |-> e, task |-> current_task]
<1>1. /\ InSyscall /\ block_current(<<>>) /\ timers' = timers \union {x}
      /\ UNCHANGED <<created, mutexVars, semVars, wait_queue, relock, now>>
  BY DEF sys_sleep, InUser
<1>2. /\ SchedInv
      /\ current_task \in UserTask /\ current_task \in Task /\ current_task \notin Blocked
  BY <1>1, CallerRuns DEF SyncInv
<1>3. e \in 0 .. 2 * Half - 1
  BY SyncAssumption DEF SyncInv, SyncTypeOK, AsUsize
<1> HIDE DEF e
<1>4. x \in [expire_ms : 0 .. 2 * Half - 1, task : UserTask] /\ x.task = current_task
  BY <1>2, <1>3
<1> HIDE DEF x
<1>5. <<>> \in Seq(Task) /\ CanResume(<<>>) /\ Listed(<<>>) = {}
  BY DEF CanResume, Listed
<1>6. SchedInv' /\ Next /\ Blocked' = Blocked \union {current_task}
  <2>1. Blocked' = (Blocked \ {}) \union {current_task} /\ SchedInv' /\ Next
    BY <1>1, <1>2, <1>5, BlockStep, Zenon
  <2> QED BY <2>1, Zenon
<1>7. WaitsOnce'
  <2>1. WaitPlaces(wait_queue, timers, Blocked)
    BY DEF SyncInv, WaitsOnce
  <2>2. WaitPlaces(wait_queue, timers \union {x}, Blocked \union {x.task})
    BY <1>2, <1>4, <2>1, TimerWaits, Zenon
  <2>3. WaitPlaces(wait_queue', timers', Blocked')
    BY <1>1, <1>4, <1>6, <2>2, Zenon
  <2> QED BY <2>3, Zenon DEF WaitsOnce, WaitPlaces, InQueue, InTimers
<1>8. MutexSafe' /\ SemaphoreSafe'
  BY <1>1, MutexFrame, SemFrame DEF SyncInv
<1>9. SyncTypeOK'
  BY <1>1, <1>4, <1>6, Zenon DEF SyncInv, SchedInv, SyncTypeOK, mutexVars, semVars
<1>10. CreatedFirst'
  BY Zenon, <1>1 DEF SyncInv, CreatedFirst, mutexVars, semVars
<1> QED
  BY <1>6, <1>7, <1>8, <1>9, <1>10, Zenon DEF SyncInv

\* The timer interrupt wakes the sleepers it pops and switches.
LEMMA TimerStep ==
  ASSUME SyncInv, timer_irq
  PROVE  SyncInv' /\ [Next]_schedVars
<1>1. PICK popped \in PopOrders :
        /\ handle_irq_exception([i \in DOMAIN popped |-> popped[i].task])
        /\ timers' = timers \ Range(popped)
        /\ UNCHANGED <<created, mutexVars, semVars, wait_queue, relock, now>>
  BY Zenon DEF timer_irq
<1> DEFINE ts == [i \in DOMAIN popped |-> popped[i].task]
<1>2. /\ timers \subseteq [expire_ms : 0 .. 2 * Half - 1, task : UserTask]
      /\ WaitPlaces(wait_queue, timers, Blocked)
      /\ SchedInv
  BY DEF SyncInv, SyncTypeOK, WaitsOnce
<1>3. PICK n \in Nat : /\ popped \in [1 .. n -> timers]
                       /\ \A i, j \in 1 .. n : i # j => popped[i] # popped[j]
  <2>1. Blocked \subseteq Task /\ IsFiniteSet(Blocked)
    BY TaskAssumption, FS_Subset DEF Blocked
  <2>2. IsFiniteSet(timers)
    <3> DEFINE f == [x \in timers |-> x.task]
    <3>1. f \in Injection(timers, Task)
      BY <1>2, Zenon DEF WaitPlaces, Injection, IsInjective, UserTask
    <3> QED BY <3>1, TaskAssumption, FS_Injection
  <2>3. Expired \subseteq timers
    BY DEF Expired
  <2>4. Cardinality(Expired) \in Nat
    BY <2>2, <2>3, FS_Subset, FS_CardinalityType
  <2>5. /\ popped \in [1 .. Cardinality(Expired) -> Expired]
        /\ \A i, j \in 1 .. Cardinality(Expired) : i # j => popped[i] # popped[j]
    BY Zenon DEF PopOrders, Injection, IsInjective
  <2> QED BY <2>3, <2>4, <2>5, Zenon
<1>4. /\ DOMAIN popped = 1 .. n /\ DOMAIN ts = 1 .. n
      /\ \A i \in 1 .. n : ts[i] = popped[i].task /\ popped[i] \in timers
      /\ ts \in Seq(Task)
  BY <1>2, <1>3 DEF UserTask
<1>5. \A i \in 1 .. n : ts[i] \in Task /\ state[ts[i]] = "Blocking"
  BY <1>2, <1>4 DEF WaitPlaces, InTimers, Blocked, UserTask
<1>6. \A i, j \in 1 .. n : ts[i] = ts[j] => i = j
  BY <1>2, <1>3, <1>4, Zenon DEF WaitPlaces
<1>7. CanResume(ts)
  BY Zenon, <1>4, <1>5, <1>6 DEF CanResume
<1>8. ts \in WakeLists
  BY <1>4, <1>7, CanResumeWakeList
<1>9. Next
  BY <1>1, <1>8, Zenon DEF Next
<1>10. yield_current(ts) /\ status = "running" /\ current_task # Idle
  BY <1>1, Zenon DEF handle_irq_exception
<1>11. Range(popped) \subseteq timers /\ Listed(ts) = {x.task : x \in Range(popped)}
  BY <1>4 DEF Range, Listed
<1> HIDE DEF ts
<1>12. SchedInv' /\ Blocked' = Blocked \ Listed(ts)
  BY <1>2, <1>4, <1>7, <1>10, YieldKeepsInv
<1>13. WaitsOnce'
  <2>1. WaitPlaces(wait_queue, timers \ Range(popped), Blocked \ {x.task : x \in Range(popped)})
    BY <1>2, <1>11, DropTimers, Zenon
  <2>2. WaitPlaces(wait_queue', timers', Blocked')
    BY <1>1, <1>11, <1>12, <2>1, Zenon
  <2> QED BY <2>2 DEF WaitsOnce, WaitPlaces, InQueue, InTimers
<1>14. MutexSafe' /\ SemaphoreSafe'
  BY Zenon, <1>1, MutexFrame, SemFrame DEF SyncInv
<1>15. SyncTypeOK'
  BY <1>1, <1>2, <1>12, Zenon DEF SyncInv, SchedInv, SyncTypeOK, mutexVars, semVars
<1>16. CreatedFirst'
  BY Zenon, <1>1 DEF SyncInv, CreatedFirst, mutexVars, semVars
<1> QED
  BY <1>9, <1>12, <1>13, <1>14, <1>15, <1>16 DEF SyncInv

----------------------------------------------------------------------------
(* The initial state, every step, and the theorems.                        *)

\* The initial state satisfies the invariant.
LEMMA SyncInitHasInv == SyncInit => SyncInv
<1> SUFFICES ASSUME SyncInit PROVE SyncInv
  BY Zenon
<1>1. /\ SchedInv /\ Init
      /\ created = {} /\ timers = {} /\ now = 0
      /\ locked = [m \in Mutex |-> FALSE]
      /\ count = [s \in Semaphore |-> 0]
      /\ wait_queue = [q \in Queue |-> <<>>]
      /\ relock = [t \in Task |-> NoMutex]
      /\ held = [t \in Task |-> {}]
      /\ credit = [s \in Semaphore |-> 0]
  BY InitHasInv DEF SyncInit
<1>2. Half \in Nat /\ MaxTime \in Nat /\ MaxCount \in Nat /\ MaxCount < Half
  BY SyncAssumption
<1>3. /\ Len(<<>>) = 0 /\ <<>> \in Seq(UserTask) /\ DOMAIN <<>> = {}
      /\ 0 \in -Half .. Half - 1
  BY <1>2
<1>4. SyncTypeOK
  BY <1>1, <1>2, <1>3 DEF SyncTypeOK, SchedInv
<1>5. WaitsOnce
  <2>1. \A t \in Task : state[t] # "Blocking"
    BY <1>1 DEF Init
  <2>2. Blocked = {}
    BY <2>1 DEF Blocked
  <2>3. \A t : ~InQueue(wait_queue, t) /\ ~InTimers(timers, t)
    BY <1>1, <1>3, Zenon DEF InQueue, InTimers
  <2>4. \A q \in Queue : DOMAIN wait_queue[q] = {}
    BY <1>1, <1>3
  <2> QED BY <1>1, <2>2, <2>3, <2>4, Zenon DEF WaitsOnce, WaitPlaces
<1>6. MutexSafe
  BY <1>1 DEF MutexSafe, Mutex, Queue
<1>7. SemaphoreSafe
  BY <1>1, <1>3 DEF SemaphoreSafe, Queue
<1>8. CreatedFirst
  BY <1>1, <1>2 DEF CreatedFirst, Queue
<1> QED
  BY <1>1, <1>4, <1>5, <1>6, <1>7, <1>8 DEF SyncInv

\* Every step preserves the invariant and is a step of the scheduler.
LEMMA SyncNextKeepsInv == SyncInv /\ [SyncNext]_vars => SyncInv' /\ [Next]_schedVars
<1> SUFFICES ASSUME SyncInv, [SyncNext]_vars
             PROVE  SyncInv' /\ [Next]_schedVars
  OBVIOUS
<1>0. SchedInv
  BY DEF SyncInv
<1>1. CASE KernelStep
  <2>1. Next /\ UNCHANGED syncVars
    BY <1>1 DEF KernelStep, Next
  <2>2. SchedInv'
    BY <1>0, <2>1, NextKeepsInv
  <2>3. <<>> \in Seq(Task) /\ CanResume(<<>>) /\ Listed(<<>>) = {}
    BY DEF CanResume, Listed
  <2>4. CASE run \/ RootYield
    <3>1. yield_current(<<>>) /\ status \in {"booting", "running"}
          /\ (status = "running" => current_task # Idle)
      BY <2>4, TaskAssumption, Zenon DEF run, RootYield
    <3>2. Blocked' = Blocked \ {}
      BY <1>0, <2>3, <3>1, YieldKeepsInv, Zenon
    <3> QED BY <2>1, <2>2, <3>2, SyncFrame
  <2>5. CASE KernelExit
    <3>1. Blocked' = Blocked
      BY <1>0, <2>5 DEF KernelExit, Blocked, SchedInv, TypeOK
    <3> QED BY <2>1, <2>2, <3>1, SyncFrame, Zenon
  <2>6. CASE KernelExitLocked
    <3>1. exit_current /\ status = "running" /\ state[current_task] = "Zombie"
          /\ current_task # Root
      BY <2>6, TaskAssumption, Zenon DEF KernelExitLocked, KernelTask
    <3>2. Blocked' = Blocked
      BY <1>0, <3>1, ExitStep
    <3> QED BY <2>1, <2>2, <3>2, SyncFrame, Zenon
  <2> QED BY <1>1, <2>4, <2>5, <2>6, Zenon DEF KernelStep
<1>2. ASSUME NEW m \in Mutex, sys_mutex_lock(m)
      PROVE  SyncInv' /\ [Next]_schedVars
  BY <1>2, LockStep, Zenon DEF sys_mutex_lock, InUser
<1>3. CASE continue_lock
  <2>1. relock[current_task] \in Mutex /\ relock[current_task] \in created
    BY <1>0, <1>3, CallerRuns DEF continue_lock, SyncInv, SyncTypeOK, CreatedFirst
  <2> QED BY <1>3, <2>1, LockStep, Zenon DEF continue_lock
<1>4. CASE sys_yield
  <2>1. InSyscall /\ yield_current(<<>>) /\ UNCHANGED syncVars
    BY <1>4 DEF sys_yield, SyscallYield
  <2> QED BY <1>0, <2>1, YieldStep, SyncFrame, Zenon
<1>5. ASSUME NEW t \in Task, sys_thread_create(t)
      PROVE  SyncInv' /\ [Next]_schedVars
  <2>1. SyscallSpawn(t) /\ UNCHANGED syncVars
    BY <1>5, Zenon DEF sys_thread_create
  <2>2. Next /\ SchedInv'
    BY <1>0, <2>1, NextKeepsInv DEF Next
  <2>3. Blocked' = Blocked
    BY <1>0, <2>1, Zenon DEF SyscallSpawn, spawn, Blocked, SchedInv, TypeOK
  <2> QED BY <2>1, <2>2, <2>3, SyncFrame
<1>6. CASE sys_exit
  <2>1. SyscallExit /\ InSyscall /\ exit_current /\ UNCHANGED syncVars
    BY <1>6, Zenon DEF sys_exit, SyscallExit
  <2>2. Next /\ SchedInv'
    BY <1>0, <2>1, NextKeepsInv DEF Next
  <2>3. Blocked' = Blocked
    BY <1>0, <2>1, ExitStep, Zenon DEF InSyscall, UserTask
  <2> QED BY <2>1, <2>2, <2>3, SyncFrame
<1>7. CASE clock
  <2>1. UNCHANGED <<schedVars, created, mutexVars, semVars, wait_queue, relock, timers>>
        /\ now' = now + 1 /\ now < MaxTime
    BY <1>7, Zenon DEF clock
  <2>2. SchedInv' /\ Blocked' = Blocked
    BY <1>0, <2>1, NextKeepsInv DEF schedVars, Blocked
  <2>3. now' \in 0 .. MaxTime
    BY <2>1, SyncAssumption DEF SyncInv, SyncTypeOK
  <2>4. SyncTypeOK'
    BY Zenon, <2>1, <2>2, <2>3 DEF SyncInv, SchedInv, SyncTypeOK, mutexVars, semVars
  <2>5. WaitsOnce'
    BY <2>1, <2>2, WaitFrame, Zenon DEF SyncInv
  <2>6. MutexSafe' /\ SemaphoreSafe'
    BY <2>1, MutexFrame, SemFrame DEF SyncInv
  <2>7. CreatedFirst'
    BY <2>1, Zenon DEF SyncInv, CreatedFirst, mutexVars, semVars
  <2> QED BY <2>1, <2>2, <2>4, <2>5, <2>6, <2>7 DEF SyncInv
<1>8. CASE UNCHANGED vars
  <2>1. UNCHANGED schedVars /\ UNCHANGED syncVars
    BY <1>8 DEF vars
  <2>2. SchedInv' /\ Blocked' = Blocked
    BY <1>0, <2>1, NextKeepsInv DEF schedVars, Blocked
  <2> QED BY <2>1, <2>2, SyncFrame, Zenon
<1> QED
  BY <1>1, <1>2, <1>3, <1>4, <1>5, <1>6, <1>7, <1>8, CreateStep, UnlockStep, UpStep,
     DownStep, SignalStep, WaitStep, SleepStep, TimerStep, Zenon DEF SyncNext

\* The invariant holds throughout.
LEMMA SyncInvHolds == SyncSpec => []SyncInv
<1> QED
  BY SyncInitHasInv, SyncNextKeepsInv, PTL DEF SyncSpec

\* Queues, timers, counts and flags keep their types, with counts and expiry
\* times inside a machine word.
THEOREM SyncTyped == SyncSpec => []SyncTypeOK
<1>1. SyncInv => SyncTypeOK
  BY Zenon DEF SyncInv
<1> QED
  BY <1>1, SyncInvHolds, PTL

\* Whatever the program calls and whenever it is preempted, every blocked
\* thread waits in exactly one queue or timer, and only blocked threads do.
THEOREM ThreadsWaitOnce == SyncSpec => []WaitsOnce
<1>1. SyncInv => WaitsOnce
  BY DEF SyncInv
<1> QED
  BY <1>1, SyncInvHolds, PTL

\* Both kinds of mutex exclude, over hand-over, condition waits and preemption.
THEOREM MutualExclusion == SyncSpec => []MutexSafe
<1>1. SyncInv => MutexSafe
  BY Zenon DEF SyncInv
<1> QED
  BY <1>1, SyncInvHolds, PTL

\* Semaphores neither lose nor invent units.
THEOREM UnitsAccounted == SyncSpec => []SemaphoreSafe
<1>1. SyncInv => SemaphoreSafe
  BY DEF SyncInv
<1> QED
  BY <1>1, SyncInvHolds, PTL

\* Who gets a blocking mutex that others wait for is the first of them.
InOrder ==
  \A m \in MutexBlocking, t \in Task :
    wait_queue[m] # <<>> /\ m \in held'[t] \ held[t] => t = Head(wait_queue[m])

\* lock() takes a mutex only when it is free, and then nobody waits for it.
LEMMA LockInOrder ==
  ASSUME SyncInv, NEW m \in Mutex, lock(m)
  PROVE  InOrder
<1>1. held \in [Task -> SUBSET Mutex] /\ MutexSafe
  BY Zenon DEF SyncInv, SyncTypeOK
<1>2. CASE ~locked[m]
  <2>1. \/ held' = held
        \/ held' = [held EXCEPT ![current_task] = @ \union {m}]
    BY <1>2, Zenon DEF lock, mutexVars
  <2>2. m \in MutexBlocking => wait_queue[m] = <<>>
    BY <1>1, <1>2, Zenon DEF MutexSafe
  <2> QED BY <1>1, <2>1, <2>2 DEF InOrder
<1>3. CASE locked[m]
  BY <1>3 DEF lock, mutexVars, InOrder
<1> QED
  BY <1>2, <1>3, Zenon

\* unlock() hands the mutex to the first that waits.
LEMMA UnlockInOrder ==
  ASSUME SyncInv, NEW m \in Mutex, unlock(m)
  PROVE  InOrder
<1>1. held \in [Task -> SUBSET Mutex]
  BY Zenon DEF SyncInv, SyncTypeOK
<1>2. ASSUME NEW t \in Task, NEW n \in MutexBlocking, wait_queue[n] # <<>>,
             n \in held'[t] \ held[t]
      PROVE  t = Head(wait_queue[n])
  <2>1. held'[t] = IF NextOwner(m) = <<t>> THEN held[t] \union {m}
                   ELSE IF t = current_task THEN held[t] \ {m} ELSE held[t]
    BY Zenon DEF unlock
  <2>2. n = m /\ NextOwner(m) = <<t>>
    BY <1>1, <1>2, <2>1, Zenon
  <2>3. NextOwner(m) = <<Head(wait_queue[m])>>
    BY <1>2, <2>2, Zenon DEF NextOwner, First
  <2> QED BY <2>2, <2>3
<1> QED
  BY <1>2, Zenon DEF InOrder

\* No thread overtakes another in the queue of a blocking mutex: it is handed
\* over in the order in which threads came, condition waits included.
THEOREM NobodyOvertakes == SyncSpec => NoBarging
<1>1. SyncInv /\ [SyncNext]_vars => [InOrder]_vars
  <2> SUFFICES ASSUME SyncInv, SyncNext PROVE InOrder
    OBVIOUS
  <2>1. ASSUME held' = held PROVE InOrder
    BY <2>1 DEF InOrder
  <2>2. CASE KernelStep \/ sys_yield \/ sys_exit \/ timer_irq \/ clock
    BY <2>1, <2>2, Zenon DEF KernelStep, sys_yield, sys_exit, timer_irq, clock, syncVars, mutexVars
  <2>3. ASSUME NEW m \in Mutex, sys_mutex_create(m) \/ sys_mutex_lock(m) \/ sys_mutex_unlock(m)
        PROVE  InOrder
    BY <2>1, <2>3, LockInOrder, UnlockInOrder DEF sys_mutex_create, sys_mutex_lock, sys_mutex_unlock
  <2>4. CASE continue_lock
    <3>1. relock[current_task] \in Mutex
      BY <2>4, CallerRuns DEF continue_lock, SyncInv, SyncTypeOK
    <3> QED BY <2>4, <3>1, LockInOrder, Zenon DEF continue_lock
  <2>5. ASSUME NEW s \in Semaphore, NEW n \in ResCount,
               sys_semaphore_create(s, n)
        PROVE  InOrder
    BY <2>1, <2>5, Zenon DEF sys_semaphore_create, mutexVars
  <2>6. ASSUME NEW s \in Semaphore, sys_semaphore_up(s) \/ sys_semaphore_down(s) PROVE InOrder
    BY <2>1, <2>6, Zenon DEF sys_semaphore_up, sys_semaphore_down, mutexVars
  <2>7. ASSUME NEW c \in Condvar, sys_condvar_create(c) \/ sys_condvar_signal(c) PROVE InOrder
    BY <2>1, <2>7 DEF sys_condvar_create, sys_condvar_signal, mutexVars
  <2>8. ASSUME NEW c \in Condvar, NEW m \in Mutex, sys_condvar_wait(c, m) PROVE InOrder
    BY <2>8, UnlockInOrder DEF sys_condvar_wait
  <2>9. ASSUME NEW ms \in SleepMs, sys_sleep(ms) PROVE InOrder
    BY <2>1, <2>9, Zenon DEF sys_sleep, mutexVars
  <2>10. ASSUME NEW t \in Task, sys_thread_create(t) PROVE InOrder
    BY <2>1, <2>10 DEF sys_thread_create, syncVars
  <2> QED
    BY <2>2, <2>3, <2>4, <2>5, <2>6, <2>7, <2>8, <2>9, <2>10, Zenon DEF SyncNext
<1> QED
  BY <1>1, SyncInvHolds, PTL DEF SyncSpec, NoBarging, InOrder

\* The blocking calls and the sleep timers use the scheduler as its
\* specification allows, so all that is proved of the scheduler holds here.
THEOREM SyncImplementsScheduler == SyncSpec => ImplementsTaskManager
<1>1. SyncInit => Init
  BY Zenon DEF SyncInit
<1> QED
  BY <1>1, SyncInitHasInv, SyncNextKeepsInv, PTL DEF SyncSpec, ImplementsTaskManager, Spec
=============================================================================
