------------------------- MODULE TaskManagerProofs -------------------------
(***************************************************************************)
(* The scheduler's invariants, for any set of tasks.                       *)
(***************************************************************************)
EXTENDS TaskManager, FiniteSetTheorems, TLAPS

\* Before the boot context yields, the root task is Ready and so queued.
BootState ==
  status = "booting" => current_task = Idle /\ state[Root] = "Ready"

\* The inductive invariant.
SchedInv ==
  /\ TypeOK
  /\ OneRunning
  /\ QueueIsReady
  /\ IdleParked
  /\ AssertionsHold
  /\ BootState

----------------------------------------------------------------------------
(* What the scheduler's helpers do to the queue.                           *)

\* add_ready_task keeps the agreement when it queues the task that has just
\* been made Ready.
LEMMA AppendHoldsReady ==
  ASSUME NEW st \in [Task -> TaskState], NEW rq \in Seq(Task), NEW t \in Task,
         HoldsReady(st, rq), st[t] # "Ready", t # Idle
  PROVE  /\ HoldsReady([st EXCEPT ![t] = "Ready"], add_ready_task(rq, t))
         /\ add_ready_task(rq, t) \in Seq(Task)
<1> DEFINE st2 == [st EXCEPT ![t] = "Ready"]
           rq2 == Append(rq, t)
<1>1. /\ rq2 \in Seq(Task)
      /\ Len(rq2) = Len(rq) + 1
      /\ rq2[Len(rq) + 1] = t
      /\ \A i \in 1 .. Len(rq) : rq2[i] = rq[i]
      /\ DOMAIN rq = 1 .. Len(rq)
      /\ DOMAIN rq2 = 1 .. Len(rq) + 1
  OBVIOUS
<1>2. \A i \in DOMAIN rq : rq[i] # t
  BY Zenon DEF HoldsReady
<1>3. \A i \in DOMAIN rq2 : st2[rq2[i]] = "Ready" /\ rq2[i] # Idle
  BY <1>1, <1>2 DEF HoldsReady
<1>4. \A i, j \in DOMAIN rq2 : rq2[i] = rq2[j] => i = j
  BY <1>1, <1>2 DEF HoldsReady
<1>5. \A u \in Task \ {Idle} : st2[u] = "Ready" => \E i \in DOMAIN rq2 : rq2[i] = u
  BY <1>1 DEF HoldsReady
<1> QED
  BY <1>1, <1>3, <1>4, <1>5 DEF HoldsReady, add_ready_task

\* Resuming blocked tasks in any order queues each of them once.
LEMMA ResumeHoldsReady ==
  ASSUME state \in [Task -> TaskState], ready_queue \in Seq(Task),
         HoldsReady(state, ready_queue), state[Idle] # "Blocking",
         NEW ts \in Seq(Task), CanResume(ts)
  PROVE  /\ Resumed(ts) \in [Task -> TaskState]
         /\ Requeued(ts) \in Seq(Task)
         /\ HoldsReady(Resumed(ts), Requeued(ts))
<1> DEFINE st2 == Resumed(ts)
           rq2 == Requeued(ts)
           n   == Len(ready_queue)
<1>1. /\ rq2 \in Seq(Task)
      /\ Len(rq2) = n + Len(ts)
      /\ n \in Nat /\ Len(ts) \in Nat
      /\ \A i \in 1 .. n : rq2[i] = ready_queue[i]
      /\ \A i \in 1 .. Len(ts) : rq2[n + i] = ts[i]
      /\ DOMAIN ready_queue = 1 .. n
      /\ DOMAIN ts = 1 .. Len(ts)
      /\ DOMAIN rq2 = 1 .. n + Len(ts)
  BY DEF Requeued
<1>2. st2 \in [Task -> TaskState]
  BY Zenon DEF Resumed, TaskState
<1>3. ASSUME NEW k \in DOMAIN rq2
      PROVE  \/ k \in 1 .. n /\ rq2[k] = ready_queue[k]
             \/ k - n \in 1 .. Len(ts) /\ rq2[k] = ts[k - n]
  <2>1. CASE k \in 1 .. n
    BY <1>1, <2>1
  <2>2. CASE k \notin 1 .. n
    <3>1. k - n \in 1 .. Len(ts) /\ k = n + (k - n)
      BY <1>1, <2>2
    <3> QED BY <1>1, <3>1, Zenon
  <2> QED BY <2>1, <2>2, Zenon
<1>4. \A i \in 1 .. n, j \in 1 .. Len(ts) : ready_queue[i] # ts[j]
  BY Zenon, <1>1 DEF HoldsReady, CanResume
<1>5. \A k \in DOMAIN rq2 : st2[rq2[k]] = "Ready" /\ rq2[k] # Idle
  <2> SUFFICES ASSUME NEW k \in DOMAIN rq2
               PROVE  st2[rq2[k]] = "Ready" /\ rq2[k] # Idle
    BY Zenon
  <2>1. CASE k \in 1 .. n /\ rq2[k] = ready_queue[k]
    BY <1>1, <2>1 DEF HoldsReady, Resumed
  <2>2. CASE k - n \in 1 .. Len(ts) /\ rq2[k] = ts[k - n]
    BY <1>1, <2>2 DEF CanResume, Resumed
  <2> QED BY <1>3, <2>1, <2>2, Zenon
<1>6. \A k, l \in DOMAIN rq2 : rq2[k] = rq2[l] => k = l
  <2> SUFFICES ASSUME NEW k \in DOMAIN rq2, NEW l \in DOMAIN rq2, rq2[k] = rq2[l]
               PROVE  k = l
    BY Zenon
  <2>1. k \in Int /\ l \in Int
    BY <1>1
  <2>2. CASE k \in 1 .. n /\ rq2[k] = ready_queue[k]
    <3>1. l \in 1 .. n /\ rq2[l] = ready_queue[l]
      BY Zenon, <1>3, <1>4, <2>2
    <3>2. \A i, j \in 1 .. n : ready_queue[i] = ready_queue[j] => i = j
      BY Zenon, <1>1 DEF HoldsReady
    <3> QED BY Zenon, <2>2, <3>1, <3>2
  <2>3. CASE k - n \in 1 .. Len(ts) /\ rq2[k] = ts[k - n]
    <3>1. l - n \in 1 .. Len(ts) /\ rq2[l] = ts[l - n]
      BY Zenon, <1>3, <1>4, <2>3
    <3>2. k - n = l - n
      BY Zenon, <1>1, <2>3, <3>1 DEF CanResume
    <3> QED BY <1>1, <2>1, <3>2
  <2> QED BY <1>3, <2>2, <2>3, Zenon
<1>7. \A u \in Task \ {Idle} : st2[u] = "Ready" => \E k \in DOMAIN rq2 : rq2[k] = u
  <2> SUFFICES ASSUME NEW u \in Task \ {Idle}, st2[u] = "Ready"
               PROVE  \E k \in DOMAIN rq2 : rq2[k] = u
    OBVIOUS
  <2>1. CASE \E i \in DOMAIN ts : ts[i] = u
    <3>1. PICK i \in DOMAIN ts : ts[i] = u
      BY <2>1, Zenon
    <3>2. n + i \in DOMAIN rq2 /\ rq2[n + i] = u
      BY <1>1, <3>1
    <3> QED BY <3>2
  <2>2. CASE ~\E i \in DOMAIN ts : ts[i] = u
    <3>1. state[u] = "Ready"
      BY <2>2, Zenon DEF Resumed
    <3>2. PICK i \in DOMAIN ready_queue : ready_queue[i] = u
      BY <3>1, Zenon DEF HoldsReady
    <3> QED BY <1>1, <3>2
  <2> QED BY <2>1, <2>2, Zenon
<1> QED
  BY <1>1, <1>2, <1>5, <1>6, <1>7, Zenon DEF HoldsReady

\* With a queue of Ready tasks, resched takes the first one.
LEMMA ReschedTakesHead ==
  ASSUME NEW st \in [Task -> TaskState], NEW rq \in Seq(Task), rq # <<>>,
         HoldsReady(st, rq), resched(st, rq)
  PROVE  switch_to(st, Tail(rq), Head(rq))
<1>1. DOMAIN rq = 1 .. Len(rq) /\ Len(rq) \in Nat \ {0}
  OBVIOUS
<1>2. Pickable(st, rq) = 1 .. Len(rq) /\ 1 .. Len(rq) # {}
  BY <1>1 DEF Pickable, HoldsReady
<1>3. Min(1 .. Len(rq)) = 1
  <2>1. 1 \in 1 .. Len(rq) /\ \A y \in 1 .. Len(rq) : 1 <= y
    BY <1>1
  <2>2. \A x \in 1 .. Len(rq) : (\A y \in 1 .. Len(rq) : x <= y) => x = 1
    BY <2>1
  <2> QED BY <2>1, <2>2, Zenon DEF Min
<1>4. st[rq[1]] # "Running"
  BY <1>1 DEF HoldsReady
<1>5. SubSeq(rq, 1 + 1, Len(rq)) = Tail(rq) /\ rq[1] = Head(rq)
  OBVIOUS
<1> QED
  <2>1. switch_to(st, SubSeq(rq, 1 + 1, Len(rq)), rq[1])
    BY <1>1, <1>2, <1>3, <1>4, Zenon DEF resched
  <2> QED BY <1>5, <2>1, Zenon

\* Switching to the first of the Ready tasks re-establishes the invariant.
LEMMA SwitchKeepsInv ==
  ASSUME NEW st \in [Task -> TaskState], NEW rq \in Seq(Task),
         HoldsReady(st, rq), st[Root] = "Ready", st[Idle] = "Ready",
         \A t \in Task : st[t] # "Running",
         resched(st, rq)
  PROVE  /\ SchedInv'
         /\ \A t \in Task : st[t] = "Zombie" => state'[t] = "Zombie"
         /\ \A t \in Task : st[t] = "Blocking" <=> state'[t] = "Blocking"
<1>1. rq # <<>> /\ DOMAIN rq = 1 .. Len(rq) /\ Len(rq) \in Nat \ {0}
  BY TaskAssumption DEF HoldsReady
<1>2. switch_to(st, Tail(rq), Head(rq))
  BY Zenon, <1>1, ReschedTakesHead
<1>3. /\ Head(rq) = rq[1]
      /\ Tail(rq) \in Seq(Task)
      /\ Len(Tail(rq)) = Len(rq) - 1
      /\ DOMAIN Tail(rq) = 1 .. Len(rq) - 1
      /\ \A i \in 1 .. Len(rq) - 1 : Tail(rq)[i] = rq[i + 1]
  BY <1>1
<1>4. /\ rq[1] \in Task \ {Idle}
      /\ st[rq[1]] = "Ready"
      /\ state' = [st EXCEPT ![rq[1]] = "Running"]
      /\ ready_queue' = Tail(rq)
      /\ current_task' = rq[1]
      /\ status' = "running"
  BY <1>1, <1>2, <1>3 DEF HoldsReady, switch_to
<1>5. TypeOK'
  BY <1>3, <1>4, Zenon DEF TypeOK, TaskState
<1>6. OneRunning'
  BY <1>4, Zenon DEF OneRunning
<1>7. QueueIsReady'
  <2>1. \A i \in DOMAIN ready_queue' :
           state'[ready_queue'[i]] = "Ready" /\ ready_queue'[i] # Idle
    BY <1>1, <1>3, <1>4 DEF HoldsReady
  <2>2. \A i, j \in DOMAIN ready_queue' : ready_queue'[i] = ready_queue'[j] => i = j
    BY <1>1, <1>3, <1>4 DEF HoldsReady
  <2>3. ASSUME NEW u \in Task \ {Idle}, state'[u] = "Ready"
        PROVE  \E i \in DOMAIN ready_queue' : ready_queue'[i] = u
    <3>1. u # rq[1] /\ st[u] = "Ready"
      BY <1>4, <2>3, Zenon
    <3>2. PICK i \in DOMAIN rq : rq[i] = u
      BY <3>1, Zenon DEF HoldsReady
    <3>3. i - 1 \in 1 .. Len(rq) - 1 /\ (i - 1) + 1 = i
      BY <1>1, <3>1, <3>2
    <3> QED BY <1>3, <1>4, <3>2, <3>3, Zenon
  <2> QED BY <2>1, <2>2, <2>3, Zenon DEF QueueIsReady, HoldsReady
<1>8. IdleParked'
  BY <1>4, TaskAssumption, Zenon DEF IdleParked
<1>9. AssertionsHold' /\ BootState'
  BY <1>4, Zenon DEF AssertionsHold, BootState
<1>10. /\ \A t \in Task : st[t] = "Zombie" => state'[t] = "Zombie"
       /\ \A t \in Task : st[t] = "Blocking" <=> state'[t] = "Blocking"
  BY <1>4, Zenon
<1> QED
  BY <1>5, <1>6, <1>7, <1>8, <1>9, <1>10, Zenon DEF SchedInv

----------------------------------------------------------------------------
(* The invariant is preserved by what system calls and interrupts do.      *)

\* A wake list is a sequence of tasks without repetition, all blocked.
LEMMA WakeListCanResume ==
  ASSUME NEW ts \in WakeLists
  PROVE  ts \in Seq(Task) /\ CanResume(ts)
<1>1. IsFiniteSet(Blocked)
  BY TaskAssumption, FS_Subset, Zenon DEF Blocked
<1>2. Cardinality(Blocked) \in Nat
  BY <1>1, FS_CardinalityType, Zenon
<1>3. PICK n \in 0 .. Cardinality(Blocked) : ts \in Injection(1 .. n, Blocked)
  BY Zenon DEF WakeLists
<1>4. /\ ts \in [1 .. n -> Blocked]
      /\ \A i, j \in 1 .. n : i # j => ts[i] # ts[j]
  BY <1>3, Zenon DEF Injection, IsInjective
<1>5. ts \in Seq(Task)
  BY <1>2, <1>4 DEF Blocked
<1>6. DOMAIN ts = 1 .. n
  BY <1>4, Zenon
<1> QED
  BY <1>4, <1>5, <1>6, Zenon DEF CanResume, Blocked

\* Conversely every such sequence is a wake list.
LEMMA CanResumeWakeList ==
  ASSUME NEW ts \in Seq(Task), CanResume(ts)
  PROVE  ts \in WakeLists
<1>1. Len(ts) \in Nat /\ DOMAIN ts = 1 .. Len(ts)
  OBVIOUS
<1>2. ts \in Injection(1 .. Len(ts), Blocked)
  <2>1. ts \in [1 .. Len(ts) -> Blocked]
    BY <1>1 DEF CanResume, Blocked
  <2> QED BY <1>1, <2>1, Zenon DEF CanResume, Injection, IsInjective
<1>3. IsFiniteSet(Blocked)
  BY TaskAssumption, FS_Subset, Zenon DEF Blocked
<1>4. Len(ts) <= Cardinality(Blocked) /\ Cardinality(Blocked) \in Nat
  <2>1. IsFiniteSet(1 .. Len(ts)) /\ Cardinality(1 .. Len(ts)) = Len(ts)
    <3>1. 1 \in Int /\ Len(ts) \in Int /\ (IF 1 > Len(ts) THEN 0 ELSE Len(ts) - 1 + 1) = Len(ts)
      BY <1>1
    <3>2. QED BY <3>1, FS_Interval, Zenon
  <2>2. Cardinality(1 .. Len(ts)) <= Cardinality(Blocked)
    BY <1>2, <1>3, FS_Injection, Zenon
  <2> QED BY <1>3, <2>1, <2>2, FS_CardinalityType, Zenon
<1>5. Len(ts) \in 0 .. Cardinality(Blocked)
  BY <1>1, <1>4
<1> QED
  BY <1>2, <1>5, Zenon DEF WakeLists

\* The tasks of a wake list.
Listed(ts) == {ts[i] : i \in DOMAIN ts}

\* yield_current, called by the boot context, a task or the timer interrupt.
LEMMA YieldKeepsInv ==
  ASSUME SchedInv, NEW ts \in Seq(Task), CanResume(ts),
         status \in {"booting", "running"},
         status = "running" => current_task # Idle,
         yield_current(ts)
  PROVE  /\ SchedInv'
         /\ ZombieStays
         /\ Blocked' = Blocked \ Listed(ts)
<1> USE DEF SchedInv
<1>1. /\ Resumed(ts) \in [Task -> TaskState]
      /\ Requeued(ts) \in Seq(Task)
      /\ HoldsReady(Resumed(ts), Requeued(ts))
      /\ state[Idle] # "Blocking"
      /\ current_task \in Task
  <2>1. state[Idle] # "Blocking"
    BY TaskAssumption DEF TypeOK, OneRunning, IdleParked, BootState, InKernelExit, KernelTask
  <2> QED BY <2>1, ResumeHoldsReady, Zenon DEF TypeOK, QueueIsReady
<1>2. CASE state[current_task] # "Running"
  <2>1. /\ state' = Resumed(ts)
        /\ ready_queue' = Requeued(ts)
        /\ status' = "yield_current"
        /\ current_task' = current_task
    BY <1>2, Zenon DEF yield_current, panic
  <2>2. InKernelExit /\ status = "running"
    BY <1>2, TaskAssumption DEF OneRunning, BootState, InKernelExit, KernelTask
  <2>3. \A i \in DOMAIN ts : ts[i] # current_task /\ ts[i] # Idle /\ ts[i] # Root
    BY <1>1, <2>2 DEF InKernelExit, CanResume, IdleParked
  <2>4. state'[current_task] = "Zombie" /\ state'[Idle] = state[Idle]
         /\ state'[Root] = state[Root]
    BY <1>1, <2>1, <2>2, <2>3, TaskAssumption, Zenon DEF Resumed, InKernelExit
  <2>5. TypeOK'
    BY <1>1, <2>1 DEF TypeOK, Panics
  <2>6. OneRunning' /\ AssertionsHold'
    BY <2>1, <2>2, <2>4 DEF OneRunning, AssertionsHold, InKernelExit, Resumed
  <2>7. QueueIsReady' /\ BootState'
    BY <1>1, <2>1, Zenon DEF QueueIsReady, BootState
  <2>8. IdleParked'
    BY <2>1, <2>2, <2>4 DEF IdleParked
  <2>9. ZombieStays /\ Blocked' = Blocked \ Listed(ts)
    BY <2>1 DEF ZombieStays, Resumed, CanResume, Blocked, Listed
  <2> QED BY <2>5, <2>6, <2>7, <2>8, <2>9
<1>3. CASE state[current_task] = "Running"
  <2> DEFINE st == [Resumed(ts) EXCEPT ![current_task] = "Ready"]
             rq == IF current_task = Idle THEN Requeued(ts)
                   ELSE add_ready_task(Requeued(ts), current_task)
  <2>1. resched(st, rq)
    BY <1>3, Zenon DEF yield_current
  <2>2. Resumed(ts)[current_task] = "Running"
    BY <1>1, <1>3 DEF Resumed, CanResume
  <2>3. st \in [Task -> TaskState] /\ rq \in Seq(Task) /\ HoldsReady(st, rq)
    <3>1. CASE current_task = Idle
      BY <1>1, <3>1 DEF HoldsReady, TaskState
    <3>2. CASE current_task # Idle
      BY Zenon, <1>1, <2>2, <3>2, AppendHoldsReady DEF TaskState
    <3> QED BY <3>1, <3>2
  <2>4. st[Idle] = "Ready" /\ st[Root] = "Ready"
    BY <1>1, TaskAssumption, Zenon DEF TypeOK, IdleParked, BootState, Resumed, OneRunning
  <2>5. \A t \in Task : st[t] # "Running"
    BY <1>1, Zenon DEF TypeOK, Resumed, OneRunning
  <2>6. \A t \in Task : state[t] = "Zombie" => st[t] = "Zombie"
    BY <1>1, <1>3 DEF Resumed, CanResume
  <2>7. \A t \in Task : st[t] = "Blocking" <=> t \in Blocked \ Listed(ts)
    BY <1>1, <1>3 DEF Resumed, CanResume, Blocked, Listed
  <2>8. /\ SchedInv'
        /\ \A t \in Task : st[t] = "Zombie" => state'[t] = "Zombie"
        /\ \A t \in Task : st[t] = "Blocking" <=> state'[t] = "Blocking"
    BY Zenon, <2>1, <2>3, <2>4, <2>5, SwitchKeepsInv
  <2>9. Blocked' = Blocked \ Listed(ts)
    BY <2>7, <2>8 DEF Blocked
  <2> QED BY <2>6, <2>8, <2>9, Zenon DEF ZombieStays
<1> QED
  BY <1>2, <1>3, Zenon

\* block_current and exit_current, called by the running user or kernel task:
\* the task leaves the CPU in a state in which it is not Ready.
LEMMA LeaveKeepsInv ==
  ASSUME SchedInv, NEW ts \in Seq(Task), CanResume(ts), status = "running",
         current_task # Root, NEW s \in {"Blocking", "Zombie"},
         state[current_task] = "Running" \/ s = "Zombie",
         resched([Resumed(ts) EXCEPT ![current_task] = s], Requeued(ts))
  PROVE  /\ SchedInv'
         /\ ZombieStays
         /\ Blocked' = (Blocked \ Listed(ts)) \union (IF s = "Blocking" THEN {current_task} ELSE {})
<1> USE DEF SchedInv
<1> DEFINE st == [Resumed(ts) EXCEPT ![current_task] = s]
<1>1. /\ Resumed(ts) \in [Task -> TaskState]
      /\ Requeued(ts) \in Seq(Task)
      /\ HoldsReady(Resumed(ts), Requeued(ts))
      /\ current_task \in Task
      /\ current_task # Idle
      /\ state[Idle] = "Ready"
  BY ResumeHoldsReady, TaskAssumption, Zenon DEF TypeOK, QueueIsReady, IdleParked
<1>2. st \in [Task -> TaskState]
  BY <1>1 DEF TaskState
<1>3. \A i \in DOMAIN ts : ts[i] # current_task
  BY Zenon DEF OneRunning, InKernelExit, CanResume
<1>4. Resumed(ts)[current_task] # "Ready"
  BY <1>1, <1>3, Zenon DEF Resumed, OneRunning, InKernelExit
<1>5. HoldsReady(st, Requeued(ts))
  BY <1>1, <1>4 DEF HoldsReady
<1>6. st[Idle] = "Ready" /\ st[Root] = "Ready"
  BY <1>1, TaskAssumption, Zenon DEF TypeOK, IdleParked, Resumed, OneRunning
<1>7. \A t \in Task : st[t] # "Running"
  BY <1>1, Zenon DEF TypeOK, Resumed, OneRunning
<1>8. \A t \in Task : state[t] = "Zombie" => Resumed(ts)[t] = "Zombie"
  BY Zenon DEF Resumed, CanResume
<1>9. state[current_task] = "Zombie" => s = "Zombie"
  BY Zenon
<1>10. /\ SchedInv'
       /\ \A t \in Task : st[t] = "Zombie" => state'[t] = "Zombie"
       /\ \A t \in Task : st[t] = "Blocking" <=> state'[t] = "Blocking"
  BY Zenon, <1>1, <1>2, <1>5, <1>6, <1>7, SwitchKeepsInv
<1>11. Blocked' = (Blocked \ Listed(ts)) \union (IF s = "Blocking" THEN {current_task} ELSE {})
  <2>1. \A t \in Task : t # current_task =>
           (st[t] = "Blocking" <=> t \in Blocked \ Listed(ts))
    BY Zenon DEF Resumed, CanResume, Blocked, Listed
  <2>2. st[current_task] = s /\ current_task \notin Blocked
    BY <1>1, Zenon DEF OneRunning, InKernelExit, Blocked
  <2> QED BY <1>1, <1>10, <2>1, <2>2 DEF Blocked
<1> QED
  BY <1>1, <1>8, <1>9, <1>10, <1>11 DEF ZombieStays

----------------------------------------------------------------------------

\* Every step of the scheduler preserves its invariant and wakes no zombie.
LEMMA NextKeepsInv == SchedInv /\ [Next]_schedVars => SchedInv' /\ ZombieStays
<1> SUFFICES ASSUME SchedInv, [Next]_schedVars
             PROVE  SchedInv' /\ ZombieStays
  BY Zenon
<1> USE DEF SchedInv
<1>0. <<>> \in Seq(Task) /\ CanResume(<<>>)
  BY DEF CanResume
<1>1. CASE run
  BY Zenon, <1>0, <1>1, YieldKeepsInv DEF run
<1>2. ASSUME NEW ts \in WakeLists, handle_irq_exception(ts)
      PROVE  SchedInv' /\ ZombieStays
  BY <1>2, WakeListCanResume, YieldKeepsInv, Zenon DEF handle_irq_exception
<1>3. ASSUME NEW ts \in WakeLists, SyscallResume(ts)
      PROVE  SchedInv' /\ ZombieStays
  <2>1. ts \in Seq(Task) /\ CanResume(ts)
    BY WakeListCanResume
  <2>2. /\ state' = Resumed(ts)
        /\ ready_queue' = Requeued(ts)
        /\ current_task' = current_task
        /\ status' = "running" /\ status = "running"
        /\ state[current_task] = "Running"
    BY <1>3, <2>1 DEF SyscallResume, InSyscall, resume
  <2>3. /\ Resumed(ts) \in [Task -> TaskState]
        /\ Requeued(ts) \in Seq(Task)
        /\ HoldsReady(Resumed(ts), Requeued(ts))
    BY <2>1, <2>2, ResumeHoldsReady, Zenon DEF TypeOK, QueueIsReady, IdleParked
  <2>4. \A i \in DOMAIN ts : ts[i] \notin {current_task, Idle, Root}
    BY <2>1, <2>2 DEF CanResume, IdleParked
  <2>5. TypeOK' /\ QueueIsReady' /\ BootState'
    BY <2>2, <2>3, Zenon DEF TypeOK, QueueIsReady, BootState
  <2>6. OneRunning' /\ AssertionsHold'
    BY <2>2, <2>4, Zenon DEF OneRunning, AssertionsHold, Resumed, TypeOK
  <2>7. IdleParked'
    BY <2>2, <2>4, TaskAssumption DEF IdleParked, Resumed
  <2>8. ZombieStays
    BY <2>1, <2>2 DEF ZombieStays, Resumed, CanResume
  <2> QED BY <2>5, <2>6, <2>7, <2>8, Zenon
<1>4. CASE SyscallYield
  BY Zenon, <1>0, <1>4, YieldKeepsInv, TaskAssumption DEF SyscallYield, InSyscall, UserTask
<1>5. ASSUME NEW ts \in WakeLists, SyscallBlock(ts)
      PROVE  SchedInv' /\ ZombieStays
  <2>1. ts \in Seq(Task) /\ CanResume(ts)
    BY WakeListCanResume, Zenon
  <2> QED
    BY Zenon, <1>5, <2>1, LeaveKeepsInv DEF SyscallBlock, InSyscall, UserTask, block_current
<1>6. ASSUME exit_current, status = "running", current_task # Root,
             state[current_task] \in {"Running", "Zombie"}
      PROVE  SchedInv' /\ ZombieStays
  <2>1. resched([state EXCEPT ![current_task] = "Zombie"], ready_queue)
    BY <1>6 DEF exit_current
  <2>2. Resumed(<<>>) = state /\ Requeued(<<>>) = ready_queue
    BY DEF Resumed, Requeued, TypeOK
  <2> QED BY Zenon, <1>0, <1>6, <2>1, <2>2, LeaveKeepsInv
<1>7. CASE SyscallExit
  BY <1>6, <1>7, Zenon DEF SyscallExit, InSyscall, UserTask
<1>8. ASSUME NEW t \in Task, SyscallSpawn(t)
      PROVE  SchedInv' /\ ZombieStays
  <2>1. /\ state[t] = "Unborn" /\ t # Idle /\ t # Root
        /\ state' = [state EXCEPT ![t] = "Ready"]
        /\ ready_queue' = add_ready_task(ready_queue, t)
        /\ current_task' = current_task
        /\ status' = "running" /\ status = "running"
        /\ state[current_task] = "Running"
    BY <1>8 DEF SyscallSpawn, InSyscall, spawn, IdleParked
  <2>2. QueueIsReady' /\ ready_queue' \in Seq(Task)
    BY Zenon, <2>1, AppendHoldsReady DEF QueueIsReady, TypeOK
  <2>3. TypeOK'
    BY <2>1, <2>2, Zenon DEF TypeOK, TaskState
  <2>4. OneRunning' /\ AssertionsHold' /\ BootState'
    BY <2>1 DEF OneRunning, AssertionsHold, BootState, TypeOK
  <2>5. IdleParked'
    BY <2>1, TaskAssumption, Zenon DEF IdleParked, TypeOK
  <2>6. ZombieStays
    BY <2>1, Zenon DEF ZombieStays, TypeOK
  <2> QED BY <2>2, <2>3, <2>4, <2>5, <2>6, Zenon
<1>9. CASE RootYield
  BY Zenon, <1>0, <1>9, YieldKeepsInv, TaskAssumption DEF RootYield
<1>10. CASE KernelExit
  <2>1. /\ current_task \in Task \ {Idle, Root}
        /\ current_task \in KernelTask
        /\ state[current_task] = "Running"
        /\ status = "running" /\ status' = "running"
        /\ state' = [state EXCEPT ![current_task] = "Zombie"]
        /\ ready_queue' = ready_queue
        /\ current_task' = current_task
    BY <1>10, TaskAssumption, Zenon DEF KernelExit, KernelTask
  <2>2. TypeOK'
    BY <2>1 DEF TypeOK, TaskState
  <2>3. OneRunning' /\ AssertionsHold' /\ BootState' /\ IdleParked'
    BY <2>1, TaskAssumption, Zenon DEF OneRunning, AssertionsHold, BootState, IdleParked,
                                InKernelExit, TypeOK
  <2>4. QueueIsReady'
    BY <2>1 DEF QueueIsReady, HoldsReady, TypeOK
  <2>5. ZombieStays
    BY <2>1, Zenon DEF ZombieStays, TypeOK
  <2> QED BY <2>2, <2>3, <2>4, <2>5, Zenon
<1>11. CASE KernelExitLocked
  BY <1>6, <1>11, TaskAssumption, Zenon DEF KernelExitLocked, KernelTask
<1>12. CASE UNCHANGED schedVars
  BY <1>12, Zenon DEF schedVars, TypeOK, OneRunning, QueueIsReady, HoldsReady, IdleParked,
               AssertionsHold, BootState, InKernelExit, ZombieStays
<1> QED
  BY <1>1, <1>2, <1>3, <1>4, <1>5, <1>7, <1>8, <1>9, <1>10, <1>11, <1>12 DEF Next

\* The state in which task::init leaves the scheduler satisfies the invariant.
LEMMA InitHasInv == Init => SchedInv
<1> SUFFICES ASSUME Init PROVE SchedInv
  BY Zenon
<1>1. /\ DOMAIN BootQueue = 1 .. 4
      /\ BootQueue[1] = Root /\ BootQueue[2] = Kernel1
      /\ BootQueue[3] = Kernel2 /\ BootQueue[4] = Shell
      /\ BootQueue \in Seq(Task)
  BY TaskAssumption DEF BootQueue
<1>2. \A t \in Task : state[t] = IF t = Idle THEN "Running"
                                ELSE IF t \in {Root, Kernel1, Kernel2, Shell}
                                THEN "Ready" ELSE "Unborn"
  BY <1>1 DEF Init
<1>3. TypeOK
  BY <1>1, TaskAssumption, Zenon DEF Init, TypeOK, TaskState
<1>4. OneRunning /\ IdleParked /\ AssertionsHold /\ BootState
  BY <1>2, TaskAssumption DEF Init, OneRunning, IdleParked, AssertionsHold, BootState
<1>5. QueueIsReady
  <2>1. \A i \in 1 .. 4 : BootQueue[i] \in Task \ {Idle} /\ state[BootQueue[i]] = "Ready"
    BY <1>1, <1>2, TaskAssumption
  <2>2. \A i, j \in 1 .. 4 : BootQueue[i] = BootQueue[j] => i = j
    BY <1>1, TaskAssumption
  <2>3. \A t \in Task \ {Idle} : state[t] = "Ready" => \E i \in 1 .. 4 : BootQueue[i] = t
    BY <1>1, <1>2
  <2> QED BY <1>1, <2>1, <2>2, <2>3 DEF QueueIsReady, HoldsReady, Init
<1> QED
  BY <1>3, <1>4, <1>5, Zenon DEF SchedInv

\* The invariant holds throughout.
LEMMA SchedInvHolds == Spec => []SchedInv
<1> QED
  BY InitHasInv, NextKeepsInv, PTL DEF Spec

\* The scheduler keeps its types, for any set of tasks.
THEOREM SchedulerTyped == Spec => []TypeOK
<1>1. SchedInv => TypeOK
  BY Zenon DEF SchedInv
<1> QED
  BY <1>1, SchedInvHolds, PTL

\* Whatever sequence of yields, blocks, wake-ups, spawns and exits: the current
\* task, and only it, is Running.
THEOREM OneTaskRuns == Spec => []OneRunning
<1>1. SchedInv => OneRunning
  BY Zenon DEF SchedInv
<1> QED
  BY <1>1, SchedInvHolds, PTL

\* The ready queue holds exactly the Ready tasks, each once.
THEOREM QueueMatchesStates == Spec => []QueueIsReady
<1>1. SchedInv => QueueIsReady
  BY DEF SchedInv
<1> QED
  BY <1>1, SchedInvHolds, PTL

\* The scheduler never returns to the boot context, so run() never reaches its
\* unreachable!().
THEOREM BootContextParked == Spec => []IdleParked
<1>1. SchedInv => IdleParked
  BY Zenon DEF SchedInv
<1> QED
  BY <1>1, SchedInvHolds, PTL

\* No assertion of the scheduler fails, but that of yield_current for a kernel
\* task interrupted while it exits.
THEOREM SchedulerAsserts == Spec => []AssertionsHold
<1>1. SchedInv => AssertionsHold
  BY Zenon DEF SchedInv
<1> QED
  BY <1>1, SchedInvHolds, PTL

\* exit_current is final for any tasks and any interleaving: no switch, resume
\* or spawn gives an exited task another state.
THEOREM ZombieNeverRuns == Spec => ZombieIsFinal
<1>1. SchedInv /\ [Next]_schedVars => [ZombieStays]_schedVars
  BY NextKeepsInv, Zenon
<1> QED
  BY <1>1, InitHasInv, NextKeepsInv, PTL DEF Spec, ZombieIsFinal
============================================================================
