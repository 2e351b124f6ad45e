-------------------------- MODULE ProcessInvariant --------------------------
(***************************************************************************)
(* The inductive invariant of Process, of a table and the contents of      *)
(* PROC_MAP rather than of the variables, because a call works on tables   *)
(* that the variables never hold; and what the effects of the calls do to  *)
(* a table, in the terms that the proofs use.                              *)
(***************************************************************************)
EXTENDS ProcessTable

Table == [AllProc -> ProcessRecord]

\* The object of process p is not there: no call has made it, or it was reaped.
Dead(k, p) == k[p].state \in {"Unborn", "Reaped"}

\* An element is in a sequence at most once.
Once(s, e) == \A i, j \in DOMAIN s : s[i] = e /\ s[j] = e => i = j

\* ContextKept of one thread.
KeptThread(th) ==
  /\ th.handling_sig # NoSig <=> th.trapframe_backup # {}
  /\ th.trapframe_backup # {} <=> th.mask_backup # {}
  /\ ~th.nested => th.outer = Saved(th)

----------------------------------------------------------------------------
(* The invariant of a table k and the contents m of PROC_MAP.              *)

\* The root process is there and has no user thread.
RootStays(k) ==
  /\ k[RootProc].state = "Normal"
  /\ \A i \in Tid : k[RootProc].tasks[i].state = "None"

\* Tids are handed out in order and never twice.
TidsFresh(k) ==
  \A p \in AllProc :
    /\ k[p].late <= k[p].next_tid
    /\ \A i \in Tid : i >= k[p].next_tid => k[p].tasks[i].state = "None"

\* A process that is not there has neither threads nor children.
GoneEmpty(k) ==
  \A p \in AllProc : Dead(k, p) => Alive(k, p) = {} /\ k[p].children = <<>>

\* Only the shell is not in PROC_MAP, and the root process is its parent.
Findable(k, m) ==
  \A p \in Proc : ~Dead(k, p) =>
    /\ k[p].parent \in AllProc
    /\ p \in m \/ k[p].parent = RootProc

\* The two halves of FamilyTree.
ListedOnce(k) ==
  \A p \in Proc, q \in AllProc : p \in Range(k[q].children) =>
    ~Dead(k, p) /\ k[p].parent = q /\ Once(k[q].children, p)

Linked(k, m) ==
  \A p \in Proc : ~Dead(k, p) =>
    \/ p \in Range(k[k[p].parent].children)
    \/ k[k[p].parent].state = "Reaped" /\ p \in m

\* MemoryOutlivesThreads, StopReachesAll, and ContextKept for every thread.
MemoryKept(k) ==
  \A p \in Proc : ~Dead(k, p) =>
    /\ k[p].state = "Zombie" <=> Alive(k, p) = {}
    /\ k[p].state # "Zombie" => k[p].stacks # {}

StopSent(k) ==
  \A p \in Proc : k[p].state = "Stop" =>
    \A t \in Alive(k, p) : SIGKILL \in k[p].tasks[t].signals \/ t >= k[p].late

ContextsKept(k) == \A p \in Proc, t \in Tid : KeptThread(k[p].tasks[t])

TableInv(k, m) ==
  /\ k \in Table
  /\ m \subseteq Proc
  /\ RootStays(k)
  /\ TidsFresh(k)
  /\ GoneEmpty(k)
  /\ Findable(k, m)
  /\ ListedOnce(k)
  /\ Linked(k, m)
  /\ MemoryKept(k)
  /\ StopSent(k)
  /\ ContextsKept(k)

----------------------------------------------------------------------------
(* What a call does before it returns to user mode or ends its thread.     *)

\* No thread but t of p is disturbed, and SIGKILL stays in the set of that one.
ThreadsKept(k, j, p, t) ==
  /\ \A q \in AllProc, i \in Tid :
        k[q].tasks[i].state = "Ready" /\ ~(q = p /\ i = t) =>
          [j[q].tasks[i] EXCEPT !.signals = k[q].tasks[i].signals] = k[q].tasks[i]
  /\ SIGKILL \in k[p].tasks[t].signals => SIGKILL \in j[p].tasks[t].signals

\* The exit code of a process that has ended stays.
CodesKept(k, j) ==
  \A q \in Proc : k[q].state = "Zombie" =>
    /\ j[q].state \in {"Zombie", "Reaped"}
    /\ j[q].state = "Zombie" => j[q].exit_code = k[q].exit_code

\* Processes and families are as before, and so are the threads that there are.
Steady(k, j) ==
  /\ j \in Table
  /\ \A q \in AllProc :
       /\ j[q].state = k[q].state /\ j[q].exit_code = k[q].exit_code
       /\ j[q].parent = k[q].parent /\ j[q].children = k[q].children
       /\ j[q].next_tid = k[q].next_tid /\ j[q].late = k[q].late
       /\ k[q].stacks # {} => j[q].stacks # {}
       /\ Alive(j, q) = Alive(k, q)
  /\ \A q \in AllProc, i \in Tid :
       /\ k[q].tasks[i].state = "None" => j[q].tasks[i].state = "None"
       /\ SIGKILL \in k[q].tasks[i].signals /\ i \in Alive(k, q)
             => SIGKILL \in j[q].tasks[i].signals
       /\ KeptThread(k[q].tasks[i]) => KeptThread(j[q].tasks[i])

\* Nothing but the calling thread and some fields of its process are not as
\* before.
CallerOnly(k, j, p, t) ==
  /\ j \in Table
  /\ \A q \in AllProc \ {p} : j[q] = k[q]
  /\ \A i \in Tid \ {t} : j[p].tasks[i] = k[p].tasks[i]
  /\ j[p].state = k[p].state /\ j[p].exit_code = k[p].exit_code
  /\ j[p].parent = k[p].parent /\ j[p].children = k[p].children
  /\ j[p].next_tid = k[p].next_tid /\ j[p].late = k[p].late
  /\ k[p].stacks # {} => j[p].stacks # {}

\* A thread with one more signal pending.
WithSignal(th, sig) == [th EXCEPT !.signals = @ \union {sig}]

\* A signal is added to the sets of the threads of process q, and nothing else
\* changes.
SignalMakes(k, j, q, sig) ==
  /\ j \in Table
  /\ \A o \in AllProc \ {q} : j[o] = k[o]
  /\ j[q].state = k[q].state /\ j[q].exit_code = k[q].exit_code
  /\ j[q].parent = k[q].parent /\ j[q].children = k[q].children
  /\ j[q].next_tid = k[q].next_tid /\ j[q].late = k[q].late
  /\ j[q].stacks = k[q].stacks
  /\ \A i \in Tid : j[q].tasks[i] =
       IF i \in Alive(k, q) THEN WithSignal(k[q].tasks[i], sig) ELSE k[q].tasks[i]

\* The record of a process that has just been made.
NewMakes(N, par, st, f) ==
  /\ N \in ProcessRecord /\ N.state = "Normal" /\ N.parent = par
  /\ N.children = <<>> /\ N.next_tid = 1 /\ N.late = 0 /\ N.stacks = st
  /\ N.tasks = [i \in Tid |-> IF i = 0 THEN NewThread(f) ELSE NoThread]

\* What new_fork makes of table k, field by field.
ForkMakes(k, j, p, c) ==
  /\ j \in Table
  /\ \A q \in AllProc \ {p, c} : j[q] = k[q]
  /\ j[p].children = Append(k[p].children, c)
  /\ j[p].state = k[p].state /\ j[p].exit_code = k[p].exit_code
  /\ j[p].parent = k[p].parent /\ j[p].tasks = k[p].tasks
  /\ j[p].next_tid = k[p].next_tid /\ j[p].late = k[p].late
  /\ j[p].stacks = k[p].stacks
  /\ j[c].state = "Normal" /\ j[c].parent = p /\ j[c].children = <<>>
  /\ j[c].next_tid = 1 /\ j[c].late = 0 /\ j[c].stacks = k[p].stacks
  /\ \A i \in Tid : /\ KeptThread(j[c].tasks[i])
                    /\ j[c].tasks[i].state = IF i = 0 THEN "Ready" ELSE "None"

\* What Process::stop makes of table k, field by field.
StopMakes(k, j, p) ==
  /\ j \in Table
  /\ \A q \in AllProc \ {RootProc} :
       j[q].parent = IF q \in Range(k[p].children) THEN RootProc ELSE k[q].parent
  /\ j[RootProc].parent = k[RootProc].parent
  /\ j[RootProc].children = k[RootProc].children \o k[p].children
  /\ j[p].children = <<>>
  /\ \A q \in AllProc \ {p, RootProc} : j[q].children = k[q].children
  /\ j[p].state = "Stop" /\ j[p].late = k[p].next_tid
  /\ \A q \in AllProc : j[q].next_tid = k[q].next_tid /\ j[q].stacks = k[q].stacks
  /\ \A q \in AllProc \ {p} : /\ j[q].state = k[q].state /\ j[q].late = k[q].late
                              /\ j[q].exit_code = k[q].exit_code
                              /\ j[q].tasks = k[q].tasks
  /\ \A i \in Tid : j[p].tasks[i] =
       IF i \in Alive(k, p) THEN WithSignal(k[p].tasks[i], SIGKILL) ELSE k[p].tasks[i]

\* What is left of process c, child number n of p, when it has no thread left.
ReapMakes(k, j, p, n, c) ==
  /\ j \in Table
  /\ \A q \in AllProc \ {p, c} : j[q] = k[q]
  /\ j[p].children = remove(k[p].children, n)
  /\ j[p].state = k[p].state /\ j[p].exit_code = k[p].exit_code
  /\ j[p].parent = k[p].parent /\ j[p].tasks = k[p].tasks
  /\ j[p].next_tid = k[p].next_tid /\ j[p].late = k[p].late /\ j[p].stacks = k[p].stacks
  /\ j[c].state = "Reaped" /\ j[c].children = <<>> /\ j[c].next_tid = 1 /\ j[c].late = 0
  /\ \A i \in Tid : j[c].tasks[i] = NoThread

----------------------------------------------------------------------------
(* What a call does last: to one thread, and to its process if that was    *)
(* the last one.                                                           *)

\* Table j is table k but for thread t of p.
OneThread(k, j, p, t) ==
  /\ j \in Table
  /\ \A q \in AllProc \ {p} : j[q] = k[q]
  /\ \A i \in Tid \ {t} : j[p].tasks[i] = k[p].tasks[i]
  /\ j[p].parent = k[p].parent /\ j[p].children = k[p].children
  /\ j[p].next_tid = k[p].next_tid /\ j[p].late = k[p].late
  /\ j[p].signal_actions = k[p].signal_actions /\ j[p].leaked = k[p].leaked

\* The process of the thread is as before, or has ended with the thread.
SameProcess(k, j, p) ==
  j[p].state = k[p].state /\ j[p].exit_code = k[p].exit_code /\ j[p].stacks = k[p].stacks

\* The last thing that a call of thread t does.
Leaves(k, j, p, t) ==
  /\ OneThread(k, j, p, t)
  /\ j[p].tasks[t].state # "None"
  /\ SIGKILL \in k[p].tasks[t].signals =>
        j[p].tasks[t].state # "Ready" /\ SIGKILL \in j[p].tasks[t].signals
  /\ KeptThread(k[p].tasks[t]) => KeptThread(j[p].tasks[t])
  /\ \/ SameProcess(k, j, p) /\ Alive(j, p) # {}
     \/ j[p].state = "Zombie" /\ j[p].stacks = {} /\ Alive(j, p) = {}
============================================================================
