---------------------------- MODULE TaskManager ----------------------------
(***************************************************************************)
(* The scheduler of the kernel: os/src/task/manager.rs, schedule.rs and    *)
(* the parts of structs.rs, mod.rs and trap/mod.rs that call it.           *)
(*                                                                         *)
(* There is one CPU.  Interrupts are masked from the entry of every        *)
(* exception to its return and while any kernel lock is held, so a system  *)
(* call is one step from its entry, or from the point where its task is    *)
(* switched to again, up to the next switch.  Kernel tasks run with        *)
(* interrupts enabled and can be preempted between two of their own steps. *)
(*                                                                         *)
(* What system calls and interrupt handlers want from the scheduler is     *)
(* always "resume these blocked tasks, then go on, yield, block or exit".  *)
(* Here the tasks to resume are any blocked ones; the module UserSync says *)
(* which ones they are and is shown to implement this specification.       *)
(***************************************************************************)
EXTENDS Integers, Sequences, FiniteSets, FiniteSetsExt

CONSTANTS Task,             \* every task there will ever be
          Idle, Root,       \* the boot context and the root task
          Kernel1, Kernel2, \* the two kernel test tasks
          Shell             \* the first user task

KernelTask == {Kernel1, Kernel2}
UserTask   == Task \ ({Idle, Root} \union KernelTask)

\* The tasks task::init spawns, in order.
BootQueue == <<Root, Kernel1, Kernel2, Shell>>

ASSUME TaskAssumption ==
  /\ IsFiniteSet(Task)
  /\ {Idle, Root, Kernel1, Kernel2, Shell} \subseteq Task
  /\ Root # Idle
  /\ Kernel1 \notin {Idle, Root}
  /\ Kernel2 \notin {Idle, Root, Kernel1}
  /\ Shell \notin {Idle, Root, Kernel1, Kernel2}

VARIABLES state,         \* the TaskState of each task, "Unborn" before it exists
          ready_queue,   \* the scheduler's queue
          current_task,  \* the task the CPU runs
          status         \* "booting", "running" or the assertion that panicked

schedVars == <<state, ready_queue, current_task, status>>

TaskState == {"Unborn", "Ready", "Running", "Zombie", "Blocking"}

\* The assertions of the scheduler, by the function that makes them.
Panics == {"resume", "yield_current", "exit_current", "pick_next_task"}

----------------------------------------------------------------------------
(* Effects on the scheduler state, composed by the actions below.          *)

\* A failed assertion shuts the machine down; st and rq are what the failing
\* code leaves behind.
panic(which, st, rq) ==
  /\ state' = st
  /\ ready_queue' = rq
  /\ status' = which
  /\ UNCHANGED current_task

\* Mutant: push_front for push_back.
add_ready_task_Front(rq, t) == <<t>> \o rq

add_ready_task(rq, t) == Append(rq, t)

\* Positions of the queue that pick_next_task does not skip.
Pickable(st, rq) == {i \in DOMAIN rq : st[rq[i]] \notin {"Zombie", "Blocking"}}

\* Mutant: the next task is not marked Running.
switch_to_Unmarked(st, rq, next) ==
  /\ state' = st
  /\ ready_queue' = rq
  /\ current_task' = next
  /\ status' = "running"

switch_to(st, rq, next) ==
  /\ state' = [st EXCEPT ![next] = "Running"]
  /\ ready_queue' = rq
  /\ current_task' = next
  /\ status' = "running"

\* Mutant: the task that is picked stays in the queue.
resched_Peek(st, rq) ==
  LET pickable == Pickable(st, rq)
      first    == Min(pickable)
  IN  IF pickable = {} THEN switch_to(st, <<>>, Idle)
      ELSE IF st[rq[first]] = "Running" THEN panic("pick_next_task", st, rq)
      ELSE switch_to(st, rq, rq[first])

\* The current task stops running with task states st and queue rq.
resched(st, rq) ==
  LET pickable == Pickable(st, rq)
      first    == Min(pickable)
  IN  IF pickable = {} THEN switch_to(st, <<>>, Idle)
      ELSE IF st[rq[first]] = "Running" THEN panic("pick_next_task", st, rq)
      ELSE switch_to(st, SubSeq(rq, first + 1, Len(rq)), rq[first])

\* Task::resume asserts that the task is blocked, so no task comes twice.
CanResume(ts) ==
  /\ \A i \in DOMAIN ts : state[ts[i]] = "Blocking"
  /\ \A i, j \in DOMAIN ts : ts[i] = ts[j] => i = j

\* The task states and the queue after resuming the tasks ts in order.
Resumed(ts) ==
  [t \in Task |-> IF \E i \in DOMAIN ts : ts[i] = t THEN "Ready" ELSE state[t]]
Requeued(ts) == ready_queue \o ts

\* Resume ts and return to the current task.
resume(ts) ==
  IF ~CanResume(ts) THEN panic("resume", state, ready_queue)
  ELSE /\ state' = Resumed(ts)
       /\ ready_queue' = Requeued(ts)
       /\ UNCHANGED <<current_task, status>>

\* t was just created, Ready, which is what TaskManager::spawn asserts.
spawn(t) ==
  /\ state' = [state EXCEPT ![t] = "Ready"]
  /\ ready_queue' = add_ready_task(ready_queue, t)
  /\ UNCHANGED <<current_task, status>>

\* Mutants: the task that yields stays Running, or is not queued again.
yield_current_Running(ts) ==
  IF ~CanResume(ts) THEN panic("resume", state, ready_queue)
  ELSE resched(Resumed(ts), IF current_task = Idle THEN Requeued(ts)
                            ELSE add_ready_task(Requeued(ts), current_task))

yield_current_Lost(ts) ==
  IF ~CanResume(ts) THEN panic("resume", state, ready_queue)
  ELSE IF state[current_task] # "Running"
       THEN panic("yield_current", Resumed(ts), Requeued(ts))
  ELSE resched([Resumed(ts) EXCEPT ![current_task] = "Ready"], Requeued(ts))

\* Resume ts, then go to the back of the queue.
yield_current(ts) ==
  IF ~CanResume(ts) THEN panic("resume", state, ready_queue)
  ELSE IF state[current_task] # "Running"
       THEN panic("yield_current", Resumed(ts), Requeued(ts))
  ELSE resched([Resumed(ts) EXCEPT ![current_task] = "Ready"],
               IF current_task = Idle THEN Requeued(ts)
               ELSE add_ready_task(Requeued(ts), current_task))

\* Resume ts, then wait for somebody's resume.
block_current(ts) ==
  IF ~CanResume(ts) THEN panic("resume", state, ready_queue)
  ELSE resched([Resumed(ts) EXCEPT ![current_task] = "Blocking"], Requeued(ts))

\* Mutants: a task that exits is queued again, or gets a state that
\* TaskState::from does not know.
exit_current_Requeued ==
  resched([state EXCEPT ![current_task] = "Ready"], add_ready_task(ready_queue, current_task))

exit_current_Unknown ==
  resched([state EXCEPT ![current_task] = "Exited"], ready_queue)

exit_current ==
  IF state[current_task] \notin {"Running", "Zombie"}
  THEN panic("exit_current", state, ready_queue)
  ELSE resched([state EXCEPT ![current_task] = "Zombie"], ready_queue)

----------------------------------------------------------------------------
(* The steps of the tasks and of the timer interrupt.                      *)

Init ==
  /\ state = [t \in Task |-> IF t = Idle THEN "Running"
                             ELSE IF \E i \in DOMAIN BootQueue : BootQueue[i] = t
                             THEN "Ready" ELSE "Unborn"]
  /\ ready_queue = BootQueue
  /\ current_task = Idle
  /\ status = "booting"

\* The tasks that are blocked, in any number and order.
Blocked   == {t \in Task : state[t] = "Blocking"}
WakeLists == UNION {Injection(1 .. n, Blocked) : n \in 0 .. Cardinality(Blocked)}

\* task::run: the boot context gives the CPU away; getting it back is
\* unreachable!("root task exit!").
run ==
  /\ current_task = Idle
  /\ status = "booting"
  /\ yield_current(<<>>)

\* The timer interrupt preempts whatever task runs with interrupts enabled.
handle_irq_exception(ts) ==
  /\ current_task # Idle
  /\ status = "running"
  /\ yield_current(ts)

\* A system call of the current task.
InSyscall ==
  /\ current_task \in UserTask
  /\ state[current_task] = "Running"
  /\ status = "running"

SyscallResume(ts) == InSyscall /\ resume(ts)
SyscallYield      == InSyscall /\ yield_current(<<>>)
SyscallBlock(ts)  == InSyscall /\ block_current(ts)
SyscallExit       == InSyscall /\ exit_current
SyscallSpawn(t)   == InSyscall /\ state[t] = "Unborn" /\ spawn(t)

\* The root task never blocks and never ends: it reaps children and yields.
RootYield ==
  /\ current_task = Root
  /\ status = "running"
  /\ yield_current(<<>>)

\* CurrentTask::exit of a kernel task: it is a Zombie before the scheduler's
\* lock masks interrupts, and leaves the CPU only then.
KernelExit ==
  /\ current_task \in KernelTask
  /\ state[current_task] = "Running"
  /\ status = "running"
  /\ state' = [state EXCEPT ![current_task] = "Zombie"]
  /\ UNCHANGED <<ready_queue, current_task, status>>

KernelExitLocked ==
  /\ current_task \in KernelTask
  /\ state[current_task] = "Zombie"
  /\ status = "running"
  /\ exit_current

Next ==
  \/ run
  \/ \E ts \in WakeLists : handle_irq_exception(ts)
  \/ \E ts \in WakeLists : SyscallResume(ts)
  \/ SyscallYield
  \/ \E ts \in WakeLists : SyscallBlock(ts)
  \/ SyscallExit
  \/ \E t \in Task : SyscallSpawn(t)
  \/ RootYield
  \/ KernelExit
  \/ KernelExitLocked

Spec == Init /\ [][Next]_schedVars

\* The timer keeps interrupting, and the boot context runs to its yield.
Tick     == \E ts \in WakeLists : handle_irq_exception(ts)
FairSpec == Spec /\ WF_schedVars(run) /\ WF_schedVars(Tick)

----------------------------------------------------------------------------
(* Properties.                                                             *)

TypeOK ==
  /\ state \in [Task -> TaskState]
  /\ ready_queue \in Seq(Task)
  /\ current_task \in Task
  /\ status \in {"booting", "running"} \union Panics

\* A kernel task between marking itself Zombie and taking the scheduler lock.
InKernelExit ==
  /\ current_task \in KernelTask
  /\ state[current_task] = "Zombie"

\* The CPU runs exactly one task: the current task is the only Running one,
\* whatever sequence of switch_to calls led here.
OneRunning ==
  /\ \A t \in Task : state[t] = "Running" => t = current_task
  /\ state[current_task] = "Running" \/ InKernelExit

\* Queue rq holds every task that is Ready in st exactly once and no other,
\* the boot context excepted.
HoldsReady(st, rq) ==
  /\ \A i \in DOMAIN rq : st[rq[i]] = "Ready" /\ rq[i] # Idle
  /\ \A i, j \in DOMAIN rq : rq[i] = rq[j] => i = j
  /\ \A t \in Task \ {Idle} : st[t] = "Ready" => \E i \in DOMAIN rq : rq[i] = t

\* No task is lost by the scheduler or queued twice: the ready queue and the
\* states that add_ready_task, pick_next_task and resume maintain agree.
QueueIsReady == HoldsReady(state, ready_queue)

\* The root task can always run, so a switch never falls back to the boot
\* context, whose return from yield_now is unreachable!("root task exit!").
IdleParked ==
  status # "booting" =>
    /\ current_task # Idle
    /\ state[Idle] = "Ready"
    /\ state[Root] \in {"Ready", "Running"}

\* No assertion of the scheduler fails, except that of yield_current when the
\* timer hits a kernel task that is already Zombie but not yet switched away.
AssertionsHold ==
  /\ status \in {"booting", "running", "yield_current"}
  /\ status = "yield_current" => InKernelExit

\* manager.rs asserts that a task that yields is Running.
YieldAssertion == status # "yield_current"

\* An exited task never comes back: exit_current ends in unreachable!.
ZombieStays   == \A t \in Task : state[t] = "Zombie" => state'[t] = "Zombie"
ZombieIsFinal == [][ZombieStays]_schedVars

\* Every Ready task gets the CPU, as long as the timer ticks and no assertion
\* stops the machine.
EveryReadyTaskRuns ==
  \A t \in Task \ {Idle} :
    (state[t] = "Ready") ~> (state[t] = "Running" \/ status \in Panics)
============================================================================
