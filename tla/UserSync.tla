------------------------------ MODULE UserSync ------------------------------
(***************************************************************************)
(* What user threads block on: the mutexes, semaphores and condition       *)
(* variables of a process (os/src/sync/, os/src/syscall/sync.rs) and the   *)
(* sleep timers (os/src/timer.rs), on top of the scheduler of TaskManager. *)
(*                                                                         *)
(* The user tasks are the threads of one process.  A call is one step up   *)
(* to the switch it ends in; a thread that is switched to again inside     *)
(* lock() goes on there, with interrupts masked, before anything else.     *)
(***************************************************************************)
EXTENDS TaskManager

CONSTANTS MutexBlocking, MutexSpin, Semaphore, Condvar,  \* objects by kind
          ResCount,  \* initial counts that programs give a semaphore
          MaxCount,  \* bound on the units a semaphore has available
          SleepMs,   \* times that programs sleep
          Half,      \* 2^63: isize is -Half .. Half - 1, usize 0 .. 2 * Half - 1
          MaxTime,   \* bound on the clock
          NoMutex

Mutex == MutexBlocking \union MutexSpin
Queue == MutexBlocking \union Semaphore \union Condvar

ASSUME SyncAssumption ==
  /\ MutexBlocking \intersect MutexSpin = {}
  /\ Mutex \intersect (Semaphore \union Condvar) = {}
  /\ Semaphore \intersect Condvar = {}
  /\ NoMutex \notin Mutex
  /\ Half \in Nat /\ MaxTime \in Nat /\ MaxCount \in Nat
  /\ MaxTime < Half /\ MaxCount < Half /\ Cardinality(Task) < Half
  /\ ResCount \subseteq 0 .. MaxCount
  /\ SleepMs \subseteq 0 .. 2 * Half - 1

VARIABLES created,     \* the objects the process has created
          locked,      \* the flag of each mutex
          count,       \* the count of each semaphore
          wait_queue,  \* the wait queue of each object that has one
          relock,      \* the mutex whose lock() the task is inside of, if any
          timers,      \* the heap of sleepers, as the set of its entries
          now,         \* the clock, in ms
          held,        \* history: the mutexes whose lock() returned to a task
          credit       \* history: units put into a semaphore and not yet taken

mutexVars == <<locked, held>>
semVars   == <<count, credit>>
timeVars  == <<timers, now>>
syncVars  == <<created, locked, count, wait_queue, relock, timers, now, held, credit>>
vars      == <<schedVars, syncVars>>

SyncInit ==
  /\ Init
  /\ created = {}
  /\ locked = [m \in Mutex |-> FALSE]
  /\ count = [s \in Semaphore |-> 0]
  /\ wait_queue = [q \in Queue |-> <<>>]
  /\ relock = [t \in Task |-> NoMutex]
  /\ timers = {}
  /\ now = 0
  /\ held = [t \in Task |-> {}]
  /\ credit = [s \in Semaphore |-> 0]

----------------------------------------------------------------------------
(* Machine words.  The kernel is built without overflow checks.            *)

AsUsize(n) == IF n >= 2 * Half THEN n - 2 * Half ELSE n

AsIsize(n) == IF n >= Half THEN n - 2 * Half
              ELSE IF n < -Half THEN n + 2 * Half ELSE n

----------------------------------------------------------------------------
(* System calls of the current thread.                                     *)

\* The current thread is in user mode and makes a call.
InUser == InSyscall /\ relock[current_task] = NoMutex

\* Mutant: the wait queue is a stack.
push_front(q) == wait_queue' = [wait_queue EXCEPT ![q] = <<current_task>> \o @]

push_back(q) == wait_queue' = [wait_queue EXCEPT ![q] = Append(@, current_task)]

\* The waiter that pop_front finds, if any, and the queues without it.
First(q)     == IF wait_queue[q] = <<>> THEN <<>> ELSE <<Head(wait_queue[q])>>
pop_front(q) == IF wait_queue[q] = <<>> THEN wait_queue
                ELSE [wait_queue EXCEPT ![q] = Tail(@)]

\* Ids only ever go up: no list entry is ever set back to None.
sys_mutex_create(m) ==
  /\ InUser
  /\ m \in Mutex \ created
  /\ created' = created \union {m}
  /\ locked' = [locked EXCEPT ![m] = FALSE]
  /\ UNCHANGED <<schedVars, count, wait_queue, relock, timeVars, held, credit>>

sys_semaphore_create(s, res_count) ==
  /\ InUser
  /\ s \in Semaphore \ created
  /\ created' = created \union {s}
  /\ count' = [count EXCEPT ![s] = AsIsize(res_count)]
  /\ credit' = [credit EXCEPT ![s] = res_count]
  /\ UNCHANGED <<schedVars, mutexVars, wait_queue, relock, timeVars>>

sys_condvar_create(c) ==
  /\ InUser
  /\ c \in Condvar \ created
  /\ created' = created \union {c}
  /\ UNCHANGED <<schedVars, mutexVars, semVars, wait_queue, relock, timeVars>>

\* One pass of lock(): it returns with the mutex, yields to try again, or
\* queues the thread, which then owns the mutex when it is resumed.
lock(m) ==
  /\ \/ /\ ~locked[m]
        /\ locked' = [locked EXCEPT ![m] = TRUE]
        /\ held' = [held EXCEPT ![current_task] = @ \union {m}]
        /\ relock' = [relock EXCEPT ![current_task] = NoMutex]
        /\ UNCHANGED <<schedVars, wait_queue>>
     \/ /\ locked[m] /\ m \in MutexSpin
        /\ relock' = [relock EXCEPT ![current_task] = m]
        /\ yield_current(<<>>)
        /\ UNCHANGED <<mutexVars, wait_queue>>
     \/ /\ locked[m] /\ m \in MutexBlocking
        /\ push_back(m)
        /\ relock' = [relock EXCEPT ![current_task] = NoMutex]
        /\ block_current(<<>>)
        /\ UNCHANGED mutexVars
  /\ UNCHANGED <<created, semVars, timeVars>>

sys_mutex_lock(m) == InUser /\ m \in created \intersect Mutex /\ lock(m)

\* The thread is switched to again inside lock().
continue_lock == InSyscall /\ relock[current_task] # NoMutex /\ lock(relock[current_task])

\* Who gets the mutex that the current thread unlocks.
NextOwner(m) == IF m \in MutexBlocking THEN First(m) ELSE <<>>

\* Mutant: the mutex is freed although the waiter takes it as handed over.
unlock_Free(m) ==
  /\ locked' = [locked EXCEPT ![m] = FALSE]
  /\ held' = [t \in Task |-> IF NextOwner(m) = <<t>> THEN held[t] \union {m}
                            ELSE IF t = current_task THEN held[t] \ {m} ELSE held[t]]

\* unlock() without the resume, which the callers below make: a blocking
\* mutex stays locked and changes hands when there is a waiter.
unlock(m) ==
  /\ locked' = [locked EXCEPT ![m] = NextOwner(m) # <<>>]
  /\ held' = [t \in Task |-> IF NextOwner(m) = <<t>> THEN held[t] \union {m}
                            ELSE IF t = current_task THEN held[t] \ {m} ELSE held[t]]

\* Programs unlock only what they have locked.
sys_mutex_unlock(m) ==
  /\ InUser
  /\ m \in held[current_task]
  /\ unlock(m)
  /\ wait_queue' = IF m \in MutexBlocking THEN pop_front(m) ELSE wait_queue
  /\ resume(NextOwner(m))
  /\ UNCHANGED <<created, semVars, relock, timeVars>>

\* Mutant: the waiter is looked at, not popped.
sys_semaphore_up_Peek(s) ==
  LET c     == AsIsize(count[s] + 1)
      woken == IF c <= 0 THEN First(s) ELSE <<>>
  IN  /\ InUser
      /\ s \in created \intersect Semaphore
      /\ credit[s] < MaxCount
      /\ count' = [count EXCEPT ![s] = c]
      /\ credit' = [credit EXCEPT ![s] = @ + 1 - Len(woken)]
      /\ resume(woken)
      /\ UNCHANGED <<created, mutexVars, wait_queue, relock, timeVars>>

sys_semaphore_up(s) ==
  LET c     == AsIsize(count[s] + 1)
      woken == IF c <= 0 THEN First(s) ELSE <<>>
  IN  /\ InUser
      /\ s \in created \intersect Semaphore
      /\ credit[s] < MaxCount
      /\ count' = [count EXCEPT ![s] = c]
      /\ credit' = [credit EXCEPT ![s] = @ + 1 - Len(woken)]
      /\ wait_queue' = IF c <= 0 THEN pop_front(s) ELSE wait_queue
      /\ resume(woken)
      /\ UNCHANGED <<created, mutexVars, relock, timeVars>>

\* Mutant: a thread that takes the last unit waits.
sys_semaphore_down_Last(s) ==
  LET c == AsIsize(count[s] - 1)
  IN  /\ InUser
      /\ s \in created \intersect Semaphore
      /\ count' = [count EXCEPT ![s] = c]
      /\ IF c <= 0
         THEN push_back(s) /\ block_current(<<>>) /\ UNCHANGED credit
         ELSE /\ credit' = [credit EXCEPT ![s] = @ - 1]
              /\ UNCHANGED <<schedVars, wait_queue>>
      /\ UNCHANGED <<created, mutexVars, relock, timeVars>>

sys_semaphore_down(s) ==
  LET c == AsIsize(count[s] - 1)
  IN  /\ InUser
      /\ s \in created \intersect Semaphore
      /\ count' = [count EXCEPT ![s] = c]
      /\ IF c < 0
         THEN push_back(s) /\ block_current(<<>>) /\ UNCHANGED credit
         ELSE /\ credit' = [credit EXCEPT ![s] = @ - 1]
              /\ UNCHANGED <<schedVars, wait_queue>>
      /\ UNCHANGED <<created, mutexVars, relock, timeVars>>

\* Mutant: the waiter is looked at, not popped.
sys_condvar_signal_Peek(c) ==
  /\ InUser
  /\ c \in created \intersect Condvar
  /\ resume(First(c))
  /\ UNCHANGED <<created, mutexVars, semVars, wait_queue, relock, timeVars>>

sys_condvar_signal(c) ==
  /\ InUser
  /\ c \in created \intersect Condvar
  /\ wait_queue' = pop_front(c)
  /\ resume(First(c))
  /\ UNCHANGED <<created, mutexVars, semVars, relock, timeVars>>

\* Mutant: the ids of the condition variable and the mutex are swapped.
sys_condvar_wait_Swapped(c, m) ==
  LET popped == IF m \in MutexBlocking THEN pop_front(m) ELSE wait_queue
  IN  /\ InUser
      /\ c \in created \intersect Condvar
      /\ m \in held[current_task]
      /\ unlock(m)
      /\ wait_queue' = [popped EXCEPT ![c] = Append(@, current_task)]
      /\ relock' = [relock EXCEPT ![current_task] = c]
      /\ block_current(NextOwner(m))
      /\ UNCHANGED <<created, semVars, timeVars>>

\* The mutex is unlocked, the thread queued and blocked in one go; when it is
\* signalled it still has to get the mutex back.
sys_condvar_wait(c, m) ==
  LET popped == IF m \in MutexBlocking THEN pop_front(m) ELSE wait_queue
  IN  /\ InUser
      /\ c \in created \intersect Condvar
      /\ m \in held[current_task]
      /\ unlock(m)
      /\ wait_queue' = [popped EXCEPT ![c] = Append(@, current_task)]
      /\ relock' = [relock EXCEPT ![current_task] = m]
      /\ block_current(NextOwner(m))
      /\ UNCHANGED <<created, semVars, timeVars>>

\* MaxTime also bounds the expiry of the sleeps that end.
sys_sleep(ms) ==
  LET expire_ms == AsUsize(now + ms)
  IN  /\ InUser
      /\ expire_ms <= MaxTime \/ expire_ms >= Half
      /\ timers' = timers \union {[expire_ms |-> expire_ms, task |-> current_task]}
      /\ block_current(<<>>)
      /\ UNCHANGED <<created, mutexVars, semVars, wait_queue, relock, now>>

sys_yield            == InUser /\ SyscallYield /\ UNCHANGED syncVars
sys_thread_create(t) == InUser /\ t \in UserTask /\ SyscallSpawn(t) /\ UNCHANGED syncVars
sys_exit             == InUser /\ SyscallExit /\ UNCHANGED syncVars

----------------------------------------------------------------------------
(* The timer interrupt.                                                    *)

\* The order of the heap: its top is an entry with the largest key.
Key(timer) == AsIsize(-AsIsize(timer.expire_ms))

\* check_timer pops the top of the heap until it has not expired.
Expired == {x \in timers : \A y \in timers : Key(y) >= Key(x) => y.expire_ms <= now}

\* The orders in which it may pop them: equal keys come out in any order.
PopOrders == {ts \in Injection(1 .. Cardinality(Expired), Expired) :
                \A i, j \in DOMAIN ts : i < j => Key(ts[i]) >= Key(ts[j])}

\* Mutant: expired timers are dropped and nobody is resumed.
timer_irq_Dropped ==
  \E popped \in PopOrders :
    /\ relock[current_task] = NoMutex
    /\ handle_irq_exception(<<>>)
    /\ timers' = timers \ Range(popped)
    /\ UNCHANGED <<created, mutexVars, semVars, wait_queue, relock, now>>

\* check_timer, then the switch.  A thread inside lock() is not interrupted.
timer_irq ==
  \E popped \in PopOrders :
    /\ relock[current_task] = NoMutex
    /\ handle_irq_exception([i \in DOMAIN popped |-> popped[i].task])
    /\ timers' = timers \ Range(popped)
    /\ UNCHANGED <<created, mutexVars, semVars, wait_queue, relock, now>>

clock ==
  /\ now < MaxTime
  /\ now' = now + 1
  /\ UNCHANGED <<schedVars, created, mutexVars, semVars, wait_queue, relock, timers>>

KernelStep == (run \/ RootYield \/ KernelExit \/ KernelExitLocked) /\ UNCHANGED syncVars

SyncNext ==
  \/ KernelStep
  \/ \E m \in Mutex : sys_mutex_create(m) \/ sys_mutex_lock(m) \/ sys_mutex_unlock(m)
  \/ continue_lock
  \/ \E s \in Semaphore, n \in ResCount : sys_semaphore_create(s, n)
  \/ \E s \in Semaphore : sys_semaphore_up(s) \/ sys_semaphore_down(s)
  \/ \E c \in Condvar : sys_condvar_create(c) \/ sys_condvar_signal(c)
  \/ \E c \in Condvar, m \in Mutex : sys_condvar_wait(c, m)
  \/ \E ms \in SleepMs : sys_sleep(ms)
  \/ sys_yield
  \/ \E t \in Task : sys_thread_create(t)
  \/ sys_exit
  \/ timer_irq
  \/ clock

SyncSpec == SyncInit /\ [][SyncNext]_vars

----------------------------------------------------------------------------
(* Properties.                                                             *)

SyncTypeOK ==
  /\ TypeOK
  /\ created \subseteq Mutex \union Queue
  /\ locked \in [Mutex -> BOOLEAN]
  /\ count \in [Semaphore -> -Half .. Half - 1]
  /\ wait_queue \in [Queue -> Seq(UserTask)]
  /\ relock \in [Task -> Mutex \union {NoMutex}]
  /\ timers \subseteq [expire_ms : 0 .. 2 * Half - 1, task : UserTask]
  /\ now \in 0 .. MaxTime
  /\ held \in [Task -> SUBSET Mutex]
  /\ credit \in [Semaphore -> Int]

\* The tasks in B are those that wait in the queues wq or among the timers tm,
\* each of them in one place only.
InQueue(wq, t)  == \E q \in Queue : \E i \in DOMAIN wq[q] : wq[q][i] = t
InTimers(tm, t) == \E x \in tm : x.task = t

WaitPlaces(wq, tm, B) ==
  /\ \A p, q \in Queue : \A i \in DOMAIN wq[p], j \in DOMAIN wq[q] :
        wq[p][i] = wq[q][j] => p = q /\ i = j
  /\ \A x, y \in tm : x.task = y.task => x = y
  /\ \A t \in Task : ~(InQueue(wq, t) /\ InTimers(tm, t))
  /\ \A t \in Task : t \in B <=> InQueue(wq, t) \/ InTimers(tm, t)

\* A thread waits in at most one place, and it is Blocking exactly while it
\* waits in one: no wake-up finds a thread that is not asleep (the assertion
\* of Task::resume), and no sleeping thread is forgotten by every queue.
WaitsOnce == WaitPlaces(wait_queue, timers, Blocked)

\* Mutual exclusion for both kinds of mutex, across hand-over, condvar waits
\* and preemption; a mutex with waiters is never free (so they are woken),
\* and a held mutex is locked (the assertion of MutexBlocking::unlock).
MutexSafe ==
  \A m \in Mutex :
    /\ \A t, u \in Task : m \in held[t] /\ m \in held[u] => t = u
    /\ locked[m] <=> \E t \in Task : m \in held[t]
    /\ m \in MutexBlocking /\ ~locked[m] => wait_queue[m] = <<>>

\* No more down() calls return than units were put in, and no thread waits
\* while a unit is available.
SemaphoreSafe ==
  \A s \in Semaphore :
    /\ credit[s] >= 0
    /\ count[s] = credit[s] - Len(wait_queue[s])
    /\ credit[s] > 0 => wait_queue[s] = <<>>

\* A thread that comes late does not get a blocking mutex before those that
\* already wait for it.
NoBarging ==
  [][\A m \in MutexBlocking, t \in Task :
       wait_queue[m] # <<>> /\ m \in held'[t] \ held[t] => t = Head(wait_queue[m])]_vars

\* What the synchronisation objects ask of the scheduler is what TaskManager
\* allows: they resume only blocked threads, each once.
ImplementsTaskManager == Spec

----------------------------------------------------------------------------
(* Liveness: the timer keeps ticking, time passes, and a thread inside     *)
(* lock() goes on when it has the CPU.                                     *)

SyncFairSpec ==
  /\ SyncSpec
  /\ WF_vars(KernelStep /\ current_task = Idle)
  /\ WF_vars(timer_irq)
  /\ WF_vars(clock)
  /\ WF_vars(continue_lock)

\* If a blocking mutex is released again and again, every thread that queues
\* for it gets it, whatever the others do and whenever they are preempted.
Releases(m) == \E t \in UserTask : m \in held[t] /\ m \notin held'[t]
WaitersGetMutex ==
  \A m \in MutexBlocking, t \in UserTask :
    []<><<Releases(m)>>_vars =>
      ((\E i \in DOMAIN wait_queue[m] : wait_queue[m][i] = t) ~> m \in held[t])

\* A thread that sleeps is woken once its time has come, unless some thread
\* sleeps for 2^63 ms or more: the heap then has that entry on top.
SleepersWake ==
  \A t \in UserTask :
    InTimers(timers, t) ~> \/ state[t] # "Blocking"
                           \/ \E x \in timers : x.expire_ms >= Half
                           \/ status \in Panics
============================================================================
