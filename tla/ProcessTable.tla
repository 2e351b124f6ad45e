---------------------------- MODULE ProcessTable ----------------------------
(***************************************************************************)
(* The process table: the records of processes and threads, and what the   *)
(* functions of os/src/task/structs.rs, signal.rs and the system calls do  *)
(* to them.  Each effect is a function from the process table to the       *)
(* process table, so that a call and what the kernel does on its way back  *)
(* to user mode (handle_signals) make up one step of Process.  Signals are *)
(* their numbers, and a set of signals is a SignalFlags.                   *)
(***************************************************************************)
EXTENDS Integers, Sequences, FiniteSets, FiniteSetsExt

CONSTANTS Proc,       \* user processes, in any number and order of creation
          Shell,      \* the first of them
          RootProc,   \* the root process, which adopts and reaps
          MaxTid,     \* the largest tid that Task::new_user accepts (16)
          Code,       \* exit codes that programs give
          Sent,       \* the numbers that programs give sys_kill
          Mask,       \* the masks that programs give sys_sigprocmask
          Handled,    \* the signals that programs give sys_sigaction
          ActMask,    \* the masks of their actions
          MaxLeaks,   \* bound on the processes with a fault inside a call
          NoProc, AnyPid

ASSUME ProcAssumption ==
  /\ Shell \in Proc
  /\ RootProc \notin Proc
  /\ NoProc \notin Proc \union {RootProc}
  /\ AnyPid \notin Proc
  /\ MaxTid \in Nat
  /\ Code \subseteq Int
  /\ MaxLeaks \in Nat
  /\ Sent \subseteq Nat /\ Handled \subseteq Nat
  /\ Mask \subseteq SUBSET (0 .. 31) /\ ActMask \subseteq SUBSET (0 .. 31)

Tid     == 0 .. MaxTid
AllProc == Proc \union {RootProc}

\* Signals: task/signal.rs.
MAX_SIG == 31
Sig     == 0 .. MAX_SIG
SIGKILL == 9
SIGCONT == 18
SIGSTOP == 19
KERNEL_SIGNAL == {0, SIGKILL, SIGCONT, SIGSTOP}

\* The signals that check_error makes an exit of, and the exit code: the least
\* of them, negated.
Fatal == {2, 4, 6, 8, 9, 11}
check_error(signals) == -Min(signals \intersect Fatal)

DefaultAction == [handler |-> FALSE, mask |-> {3, 5}]

\* Threads.  "None": not in the tasks map.  A frame says where the thread goes
\* on in user mode: in the handler of a signal or anywhere else (Main).  An
\* option is a set of at most one element.  outer (history): the contexts that
\* handlers have interrupted and that no sigreturn has gone back to; nested
\* (history): a handler was started inside one whose action asks for that.
Main  == -1
NoSig == -1
NoThread == [state |-> "None", exit_code |-> 0, signals |-> {}, signal_mask |-> {},
             handling_sig |-> NoSig, killed |-> FALSE, frozen |-> FALSE,
             mask_backup |-> {}, trapframe_backup |-> {}, frame |-> Main,
             outer |-> {}, nested |-> FALSE]
NewThread(frame) == [NoThread EXCEPT !.state = "Ready", !.frame = frame]

\* stacks: the tids whose user stack is an area of the memory set, which is
\* gone with the last thread.  signal_actions: the actions that are not the
\* default.  leaked: an Arc to the process is on the kernel stack of a thread
\* that is gone.  late (history): the first tid to be allocated after the last
\* Process::stop.
NewProcess(parent, stacks, frame) ==
  [state |-> "Normal", exit_code |-> 0, parent |-> parent, children |-> <<>>,
   tasks |-> [i \in Tid |-> IF i = 0 THEN NewThread(frame) ELSE NoThread],
   next_tid |-> 1, stacks |-> stacks, signal_actions |-> <<>>,
   leaked |-> FALSE, late |-> 0]

Unborn == [NewProcess(NoProc, {}, Main) EXCEPT !.state = "Unborn",
                                               !.tasks = [i \in Tid |-> NoThread]]

\* The values of the records.
ThreadState  == {"None", "Ready", "Blocking", "Zombie"}
Frame        == Sig \union {Main}
Thread       ==
  [state : ThreadState, exit_code : Int, signals : SUBSET Sig, signal_mask : SUBSET Sig,
   handling_sig : Frame, killed : BOOLEAN, frozen : BOOLEAN,
   mask_backup : SUBSET SUBSET Sig, trapframe_backup : SUBSET Frame, frame : Frame,
   outer : SUBSET [frame : Frame, mask : SUBSET Sig], nested : BOOLEAN]
ProcessState == {"Unborn", "Normal", "Stop", "Zombie", "Reaped"}
Actions      == UNION {[S -> [handler : BOOLEAN, mask : SUBSET Sig]] : S \in SUBSET Handled}
ProcessRecord ==
  [state : ProcessState, exit_code : Int,
   parent : AllProc \union {NoProc}, children : Seq(Proc), tasks : [Tid -> Thread],
   next_tid : 1 .. MaxTid + 1, stacks : SUBSET Tid, signal_actions : Actions,
   leaked : BOOLEAN, late : 0 .. MaxTid + 1]

----------------------------------------------------------------------------
(* Effects on a process table k.                                           *)

Alive(k, p)      == {i \in Tid : k[p].tasks[i].state \notin {"None", "Zombie"}}
task_count(k, p) == Cardinality(Alive(k, p))

\* Mutant: the process ends with its last thread but one.
task_exit_Early(k, p, code) ==
  IF task_count(k, p) > 1 THEN k
  ELSE [k EXCEPT ![p].exit_code = IF k[p].state = "Normal" THEN code ELSE @,
                 ![p].state = "Zombie",
                 ![p].stacks = {}]

\* Process::task_exit and Process::exit, after the thread is a Zombie.
task_exit(k, p, code) ==
  IF task_count(k, p) # 0 THEN k
  ELSE [k EXCEPT ![p].exit_code = IF k[p].state = "Normal" THEN code ELSE @,
                 ![p].state = "Zombie",
                 ![p].stacks = {}]

\* CurrentTask::exit.
exit(k, p, t, code) ==
  task_exit([k EXCEPT ![p].tasks[t].state = "Zombie", ![p].tasks[t].exit_code = code],
            p, code)

\* The action of process p for signal s.
action(k, p, s) ==
  IF s \in DOMAIN k[p].signal_actions THEN k[p].signal_actions[s] ELSE DefaultAction

\* Mutant: SIGKILL is taken off the set like SIGSTOP.
kernel_signal_handler_Consumes(th, s) ==
  IF s = SIGSTOP THEN [th EXCEPT !.frozen = TRUE, !.signals = @ \ {s}]
  ELSE IF s = SIGCONT THEN [th EXCEPT !.frozen = FALSE, !.signals = @ \ {s}]
  ELSE [th EXCEPT !.killed = TRUE, !.signals = @ \ {s}]

kernel_signal_handler(th, s) ==
  IF s = SIGSTOP THEN [th EXCEPT !.frozen = TRUE, !.signals = @ \ {s}]
  ELSE IF s = SIGCONT THEN [th EXCEPT !.frozen = FALSE, !.signals = @ \ {s}]
  ELSE [th EXCEPT !.killed = TRUE]

\* Start the handler of s.  Without a handler the signal stays where it is.
\* inner: the signals that the action of the handler in progress lets through.
user_signal_handler(th, s, act, inner) ==
  IF ~act.handler THEN th
  ELSE [th EXCEPT !.mask_backup = {th.signal_mask}, !.signal_mask = act.mask,
                  !.handling_sig = s, !.signals = @ \ {s},
                  !.trapframe_backup = {th.frame}, !.frame = s,
                  !.nested = @ \/ s \in inner,
                  !.outer = IF th.nested \/ s \in inner THEN {}
                            ELSE @ \union {[frame |-> th.frame, mask |-> th.signal_mask]}]

\* The mask of the action whose handler is in progress.
Inner(k, p, t) ==
  LET h == k[p].tasks[t].handling_sig
  IN  IF h = NoSig THEN {} ELSE action(k, p, h).mask

\* Mutant: what the action of the handler in progress says is not looked at.
Pending_Unfiltered(k, p, t) == k[p].tasks[t].signals \intersect k[p].tasks[t].signal_mask

\* singal_metadata: the signals of thread t that are looked at are those in its
\* mask and, while a handler runs, in the mask of its action.
Pending(k, p, t) ==
  LET th == k[p].tasks[t]
  IN  {s \in th.signals \intersect th.signal_mask :
         th.handling_sig = NoSig \/ s \in Inner(k, p, t)}

\* The first of them is handled, and no other.
check_pending_signals(k, p, t) ==
  LET pending == Pending(k, p, t)
      s       == Min(pending)
  IN  IF pending = {} THEN k
      ELSE [k EXCEPT ![p].tasks[t] =
              IF s \in KERNEL_SIGNAL THEN kernel_signal_handler(@, s)
              ELSE user_signal_handler(@, s, action(k, p, s), Inner(k, p, t))]

\* handle_signals, and the exit that handle_sync_exception makes of a fatal
\* signal.  A thread that is frozen blocks here, in no queue.
Returned(k, p, t) ==
  LET c  == check_pending_signals(k, p, t)
      th == c[p].tasks[t]
  IN  IF th.frozen /\ ~th.killed THEN [c EXCEPT ![p].tasks[t].state = "Blocking"]
      ELSE IF th.signals \intersect Fatal = {} THEN c
      ELSE exit(c, p, t, check_error(th.signals))

\* Send a signal to every thread of p that is not a Zombie.
Signalled(k, p, sig) ==
  [k EXCEPT ![p].tasks = [i \in Tid |->
     IF i \in Alive(k, p)
     THEN [k[p].tasks[i] EXCEPT !.signals = @ \union {sig}]
     ELSE k[p].tasks[i]]]

\* Process::add_child of p.
add_child(k, p, c) == [k EXCEPT ![c].parent = p, ![p].children = Append(@, c)]

\* The root process takes the children of p, each with add_child and in order.
Adopted(k, p) ==
  [q \in AllProc |->
     IF q = RootProc THEN [k[q] EXCEPT !.children = @ \o k[p].children]
     ELSE IF q \in Range(k[p].children) THEN [k[q] EXCEPT !.parent = RootProc]
     ELSE k[q]]

\* Mutants: the children stay in the list as well; blocked threads are skipped.
stop_Kept(k, p, code) ==
  [Signalled(Adopted(k, p), p, SIGKILL) EXCEPT
     ![p].state = "Stop", ![p].exit_code = code, ![p].late = k[p].next_tid]

stop_ReadyOnly(k, p, code) ==
  [k EXCEPT ![p].tasks = [i \in Tid |->
     IF k[p].tasks[i].state = "Ready"
     THEN [k[p].tasks[i] EXCEPT !.signals = @ \union {SIGKILL}]
     ELSE k[p].tasks[i]],
   ![p].state = "Stop", ![p].exit_code = code, ![p].late = k[p].next_tid]

\* Process::stop: the children go to the root process, the threads get SIGKILL.
stop(k, p, code) ==
  [Signalled(Adopted(k, p), p, SIGKILL) EXCEPT
     ![p].children = <<>>,
     ![p].state = "Stop", ![p].exit_code = code, ![p].late = k[p].next_tid]

\* Mutants: the child has no parent link; its main thread's tid is not taken.
new_fork_Parentless(k, p, t, c) ==
  [k EXCEPT ![c] = NewProcess(NoProc, k[p].stacks, k[p].tasks[t].frame),
            ![p].children = Append(@, c)]

new_fork_TidKept(k, p, t, c) ==
  add_child([k EXCEPT ![c] = [NewProcess(NoProc, k[p].stacks, k[p].tasks[t].frame)
                                EXCEPT !.next_tid = 0]], p, c)

\* The child goes on where thread t of its parent does, with signals of its own.
new_fork(k, p, t, c) ==
  add_child([k EXCEPT ![c] = NewProcess(NoProc, k[p].stacks, k[p].tasks[t].frame)], p, c)

new_user_task(k, p) ==
  [k EXCEPT ![p].tasks[k[p].next_tid] = NewThread(Main),
            ![p].next_tid = @ + 1,
            ![p].stacks = @ \union {k[p].next_tid}]

\* Mutant: a stopped child counts as ended.
Ended_Stopped(k, p, pid) ==
  {i \in DOMAIN k[p].children :
     /\ pid \in {AnyPid, k[p].children[i]}
     /\ k[k[p].children[i]].state # "Normal"}

\* The children that waitpid looks for, and the one it takes: the first that
\* has ended.
Ended(k, p, pid) ==
  {i \in DOMAIN k[p].children :
     /\ pid \in {AnyPid, k[p].children[i]}
     /\ k[k[p].children[i]].state = "Zombie"}

\* Another Arc to process c than those in p's children and in PROC_MAP.
Shared(k, p, c) ==
  \/ \E q \in AllProc \ {p} : c \in Range(k[q].children)
  \/ \E i \in Tid : k[c].tasks[i].state = "Blocking"

\* Vec::remove.
remove(s, i) == SubSeq(s, 1, i - 1) \o SubSeq(s, i + 1, Len(s))

\* Taking c out of p's children drops it, and with it its own children list;
\* a thread that had not ended would stay in the scheduler.
reap(k, p, i) ==
  LET c == k[p].children[i]
      left == [j \in Tid |-> IF j \in Alive(k, c) THEN k[c].tasks[j] ELSE NoThread]
  IN  [k EXCEPT ![p].children = remove(@, i),
                ![c] = [Unborn EXCEPT !.state = "Reaped", !.parent = k[c].parent,
                                      !.tasks = left]]

\* Process::waittid for a thread that has ended: it is collected.
waittid(k, p, i) == [k EXCEPT ![p].tasks[i] = NoThread]

\* The context that sigreturn goes back to, if any.
Saved(th) == {[frame |-> f, mask |-> m] : f \in th.trapframe_backup, m \in th.mask_backup}
=============================================================================
