------------------------------ MODULE Process ------------------------------
(***************************************************************************)
(* The life of processes and their threads: os/src/task/structs.rs,        *)
(* os/src/syscall/process.rs, thread.rs and signal.rs.                     *)
(*                                                                         *)
(* A system call of a thread is one step, because interrupts stay masked   *)
(* until it returns or switches; the steps of different threads interleave *)
(* freely.  What a thread blocks on is left open: it may be woken at any   *)
(* time, or never.                                                         *)
(***************************************************************************)
EXTENDS ProcessTable

VARIABLES proc,      \* the process table
          proc_map,  \* PROC_MAP: the processes that kill can find
          status     \* "running", or the assertion that panicked

procVars == <<proc, proc_map, status>>

Init ==
  /\ proc = [p \in AllProc |->
               IF p = RootProc THEN [Unborn EXCEPT !.state = "Normal", !.children = <<Shell>>]
               ELSE IF p = Shell THEN NewProcess(RootProc, {0}, Main) ELSE Unborn]
  /\ proc_map = {}
  /\ status = "running"

----------------------------------------------------------------------------
(* System calls of thread t of process p.                                  *)

Calls(p, t) ==
  /\ status = "running"
  /\ proc[p].tasks[t].state = "Ready"

\* A failed assertion shuts the machine down, and all processes are gone.
panic(which) ==
  /\ proc' = [p \in AllProc |-> Unborn]
  /\ proc_map' = {}
  /\ status' = which

\* What every call that returns does last.
Return(k, p, t) == proc' = Returned(k, p, t) /\ UNCHANGED status

\* A call that changes nothing here: yield, getpid, a wait that finds nothing.
sys_other(p, t) == Calls(p, t) /\ Return(proc, p, t) /\ UNCHANGED proc_map

\* A call that blocks, and its return.  In a semaphore or a condition variable
\* an Arc<Process> stays on the kernel stack; every blocked call is taken to
\* keep one.
sys_block(p, t) ==
  /\ Calls(p, t)
  /\ proc' = [proc EXCEPT ![p].tasks[t].state = "Blocking"]
  /\ UNCHANGED <<proc_map, status>>

unblock(p, t) ==
  /\ status = "running"
  /\ proc[p].tasks[t].state = "Blocking" /\ ~proc[p].tasks[t].frozen
  /\ Return([proc EXCEPT ![p].tasks[t].state = "Ready"], p, t)
  /\ UNCHANGED proc_map

sys_fork(p, t, c) ==
  /\ Calls(p, t)
  /\ proc[c].state = "Unborn"
  /\ Return(new_fork(proc, p, t, c), p, t)
  /\ proc_map' = proc_map \union {c}

\* Ids and stacks are never recycled.
sys_thread_create(p, t) ==
  /\ Calls(p, t)
  /\ IF proc[p].next_tid \in proc[p].stacks THEN panic("insert")
     ELSE IF proc[p].next_tid > MaxTid THEN panic("new_user")
     ELSE Return(new_user_task(proc, p), p, t) /\ UNCHANGED proc_map

\* The file is there: the memory set is replaced.  Masks, actions and a handler
\* in progress stay as they are.
sys_exec(p, t) ==
  /\ Calls(p, t)
  /\ IF task_count(proc, p) # 1 THEN panic("exec")
     ELSE /\ Return([proc EXCEPT ![p].stacks = {0}, ![p].tasks[t].frame = Main], p, t)
          /\ UNCHANGED proc_map

sys_exit(p, t, code) ==
  /\ Calls(p, t)
  /\ proc' = exit(proc, p, t, code)
  /\ UNCHANGED <<proc_map, status>>

sys_exit_group(p, t, code) ==
  /\ Calls(p, t)
  /\ proc' = exit(stop(proc, p, code), p, t, code)
  /\ UNCHANGED <<proc_map, status>>

\* A fault, in user mode or where a call touches the user's memory, ends the
\* thread; signals are not looked at.  A call ends where it is, and the Arc that
\* sys_read, sys_write, sys_exec and others have taken is never dropped.
handle_fault(p, t, mode) ==
  /\ Calls(p, t)
  /\ mode = "call" => Cardinality({q \in Proc : proc[q].leaked} \union {p}) <= MaxLeaks
  /\ proc' = exit([proc EXCEPT ![p].leaked = @ \/ mode = "call"], p, t, -1)
  /\ UNCHANGED <<proc_map, status>>

\* Process::waitpid when a child has ended; its assertion says that nobody
\* else refers to that child.
sys_waitpid(p, t, pid) ==
  LET ended == Ended(proc, p, pid)
      c     == proc[p].children[Min(ended)]
  IN  /\ Calls(p, t)
      /\ ended # {}
      /\ IF Shared(proc, p, c) \/ proc[c].leaked
         THEN panic(IF proc[c].leaked THEN "leaked" ELSE "waitpid")
         ELSE /\ Return(reap(proc, p, Min(ended)), p, t)
              /\ proc_map' = proc_map \ {c}

\* Mutant: the root task waits for the shell only.
root_waitpid_Shell ==
  LET ended == Ended(proc, RootProc, Shell)
      c     == proc[RootProc].children[Min(ended)]
  IN  /\ status = "running"
      /\ ended # {}
      /\ IF Shared(proc, RootProc, c) \/ proc[c].leaked
         THEN panic(IF proc[c].leaked THEN "leaked" ELSE "waitpid")
         ELSE /\ proc' = reap(proc, RootProc, Min(ended))
              /\ proc_map' = proc_map \ {c}
              /\ UNCHANGED status

\* The loop of the root task.
root_waitpid ==
  LET ended == Ended(proc, RootProc, AnyPid)
      c     == proc[RootProc].children[Min(ended)]
  IN  /\ status = "running"
      /\ ended # {}
      /\ IF Shared(proc, RootProc, c) \/ proc[c].leaked
         THEN panic(IF proc[c].leaked THEN "leaked" ELSE "waitpid")
         ELSE /\ proc' = reap(proc, RootProc, Min(ended))
              /\ proc_map' = proc_map \ {c}
              /\ UNCHANGED status

\* The call returns the exit code of thread i; a thread that has not ended, or
\* is not there, leaves all as it is (sys_other).
sys_waittid(p, t, i) ==
  /\ Calls(p, t)
  /\ i # t
  /\ proc[p].tasks[i].state = "Zombie"
  /\ Return(waittid(proc, p, i), p, t)
  /\ UNCHANGED proc_map

\* The flag is 1 << signum, and a shift uses the low five bits of its count.
sys_kill(p, t, q, signum) ==
  /\ Calls(p, t)
  /\ q \in proc_map
  /\ Return(Signalled(proc, q, signum % 32), p, t)
  /\ UNCHANGED proc_map

sys_sigprocmask(p, t, mask) ==
  /\ Calls(p, t)
  /\ Return([proc EXCEPT ![p].tasks[t].signal_mask = mask], p, t)
  /\ UNCHANGED proc_map

sys_sigaction(p, t, signum, act) ==
  /\ Calls(p, t)
  /\ signum <= MAX_SIG /\ signum \notin {SIGKILL, SIGSTOP}
  /\ Return([proc EXCEPT ![p].signal_actions =
                [s \in DOMAIN @ \union {signum} |-> IF s = signum THEN act ELSE @[s]]], p, t)
  /\ UNCHANGED proc_map

\* The thread goes on where the handler interrupted it, but for the register
\* of the result, which is that of this call.
sys_sigretrun(p, t) ==
  LET th == proc[p].tasks[t]
  IN  /\ Calls(p, t)
      /\ th.trapframe_backup # {}
      /\ Return([proc EXCEPT ![p].tasks[t] =
                    [th EXCEPT !.trapframe_backup = {}, !.mask_backup = {},
                               !.handling_sig = NoSig,
                               !.signal_mask = CHOOSE m \in th.mask_backup : TRUE,
                               !.frame = CHOOSE f \in th.trapframe_backup : TRUE,
                               !.outer = @ \ Saved(th)]], p, t)
      /\ UNCHANGED proc_map

Next ==
  \/ root_waitpid
  \/ \E p \in Proc, t \in Tid :
       \/ sys_other(p, t)
       \/ sys_block(p, t)
       \/ unblock(p, t)
       \/ \E c \in Proc : sys_fork(p, t, c)
       \/ sys_thread_create(p, t)
       \/ sys_exec(p, t)
       \/ \E code \in Code : sys_exit(p, t, code) \/ sys_exit_group(p, t, code)
       \/ \E mode \in {"user", "call"} : handle_fault(p, t, mode)
       \/ \E pid \in Proc \union {AnyPid} : sys_waitpid(p, t, pid)
       \/ \E i \in Tid : sys_waittid(p, t, i)
       \/ \E q \in Proc, signum \in Sent : sys_kill(p, t, q, signum)
       \/ \E mask \in Mask : sys_sigprocmask(p, t, mask)
       \/ \E signum \in Handled, act \in [handler : BOOLEAN, mask : ActMask] :
            sys_sigaction(p, t, signum, act)
       \/ sys_sigretrun(p, t)

Spec == Init /\ [][Next]_procVars

\* The root task is scheduled again and again (EveryReadyTaskRuns).
FairSpec == Spec /\ WF_procVars(root_waitpid)

----------------------------------------------------------------------------
(* Properties.                                                             *)

TypeOK ==
  /\ proc \in [AllProc -> ProcessRecord]
  /\ proc_map \subseteq Proc
  /\ status \in {"running", "insert", "new_user", "exec", "waitpid", "leaked"}

\* The process exists as an object that somebody may still refer to.
Exists(p) == proc[p].state \notin {"Unborn", "Reaped"}

\* Nobody but the parent and PROC_MAP refers to a process that is reaped,
\* whatever its threads were blocked in and however often it was handed
\* over to the root process: the assertion of waitpid never fails, but for a
\* process one of whose threads ended by a fault inside a system call.
ReapedAlone == status # "waitpid"

\* A process with a thread left is still referred to by its parent's list or
\* by PROC_MAP, also when its parent is gone: Task::proc() never fails.
UpgradeSucceeds ==
  \A p \in Proc : Alive(proc, p) # {} =>
    /\ Exists(p)
    /\ p \in proc_map \/ \E q \in AllProc : Exists(q) /\ p \in Range(proc[q].children)

\* The lists of children and the parent links agree, and a process that
\* nobody has in its list was left behind by a parent that is gone.
FamilyTree ==
  \A p \in Proc :
    /\ \A q \in AllProc : p \in Range(proc[q].children) =>
          /\ Exists(p) /\ proc[p].parent = q
          /\ \A i, j \in DOMAIN proc[q].children :
                proc[q].children[i] = p /\ proc[q].children[j] = p => i = j
    /\ Exists(p) =>
          \/ p \in Range(proc[proc[p].parent].children)
          \/ proc[proc[p].parent].state = "Reaped" /\ p \in proc_map

\* A process is a Zombie, and its memory gone, exactly when its last thread
\* has ended: no thread ever runs without its memory, and none is needed to
\* end a process whose threads are gone.
MemoryOutlivesThreads ==
  \A p \in Proc : Exists(p) =>
    /\ proc[p].state = "Zombie" <=> Alive(proc, p) = {}
    /\ proc[p].state # "Zombie" => proc[p].stacks # {}

\* After exit_group every thread that is left is to be killed, except those
\* that a thread created between the call and its own end.
StopReachesAll ==
  \A p \in Proc : proc[p].state = "Stop" =>
    \A t \in Alive(proc, p) :
      SIGKILL \in proc[p].tasks[t].signals \/ t >= proc[p].late

\* The exit code that waitpid will report is settled when the process ends.
ExitCodeSettled ==
  [][\A p \in Proc : proc[p].state = "Zombie" /\ status' = "running" =>
       /\ proc'[p].state \in {"Zombie", "Reaped"}
       /\ proc'[p].state = "Zombie" => proc'[p].exit_code = proc[p].exit_code]_procVars

\* A thread that SIGKILL was sent to does not go on in user mode: with its next
\* step it ends or blocks, whatever its mask, its actions and its handlers.
KilledThreadEnds ==
  [][\A p \in Proc, t \in Tid :
       LET th == proc[p].tasks[t]
       IN  th.state = "Ready" /\ SIGKILL \in th.signals /\ status' = "running" =>
             \/ proc'[p].tasks[t].state # "Ready"
             \/ [proc'[p].tasks[t] EXCEPT !.signals = th.signals] = th]_procVars

\* The context that a handler interrupts can be gone back to: it is the one
\* saved, with its mask, unless the handler's own action let another handler
\* in.  The flag, the frame and the mask of a handler come and go together, so
\* that the unwrap in sys_sigretrun never fails.
ContextKept ==
  \A p \in Proc : \A t \in Alive(proc, p) :
    LET th == proc[p].tasks[t]
    IN  /\ th.handling_sig # NoSig <=> th.trapframe_backup # {}
        /\ th.trapframe_backup # {} <=> th.mask_backup # {}
        /\ ~th.nested => th.outer = Saved(th)

\* The root process reaps every child that ends.
RootReaps ==
  \A p \in Proc :
    p \in Range(proc[RootProc].children) /\ proc[p].state = "Zombie"
      ~> proc[p].state = "Reaped" \/ status # "running"

\* sys_waittid: "thread has not exited yet, return -2", so a call that has
\* collected a thread returns something else to the thread that made it.
WaittidTellsExit ==
  [][\A p \in Proc, i \in Tid :
       /\ proc[p].tasks[i].state = "Zombie"
       /\ proc'[p].tasks[i].state = "None"
       /\ Alive(proc', p) # {}
       => proc[p].tasks[i].exit_code # -2]_procVars

\* early_exit2.rs: no thread goes on once the main thread has exited.
MainThreadEndsAll ==
  \A p \in Proc : proc[p].tasks[0].state = "Zombie" => Alive(proc, p) = {}
============================================================================
