--------------------------- MODULE ProcessProofs ---------------------------
(***************************************************************************)
(* The invariants of Process and two of its action properties.  A call is  *)
(* an effect on the process table (Inside) and then the way back to user   *)
(* mode or the end of the thread (Leaves); both keep the invariant of the  *)
(* table, which ProcessEffectProofs and ProcessCallProofs show for each    *)
(* effect.                                                                 *)
(***************************************************************************)
EXTENDS Process, ProcessCallProofs

\* The inductive invariant: that of the table while the machine runs, and what
\* a panic leaves.  The assertion of waitpid is not among those that fail.
IInv ==
  \/ status = "running" /\ TableInv(proc, proc_map)
  \/ /\ status \in {"insert", "new_user", "exec", "leaked"}
     /\ proc = [p \in AllProc |-> Unborn] /\ proc_map = {}

\* Table j is what thread t of p has made of table k when its call is about to
\* return or to end the thread; m are then the contents of PROC_MAP.
Inside(k, j, m, p, t) ==
  /\ TableInv(j, m) /\ CodesKept(k, j)
  /\ ThreadsKept(k, j, p, t) /\ j[p].tasks[t].state = "Ready"

\* KilledThreadEnds of one step.
KilledEnd(k, j) ==
  \A q \in Proc, i \in Tid :
    k[q].tasks[i].state = "Ready" /\ SIGKILL \in k[q].tasks[i].signals =>
      \/ j[q].tasks[i].state # "Ready"
      \/ [j[q].tasks[i] EXCEPT !.signals = k[q].tasks[i].signals] = k[q].tasks[i]

\* What a step does while the machine runs on.
StepKept == status' = "running" => CodesKept(proc, proc') /\ KilledEnd(proc, proc')

----------------------------------------------------------------------------
(* The parts of a call.                                                    *)

\* A process with a thread left has not ended.
LEMMA LivesOn ==
  ASSUME NEW k, NEW m, NEW p \in Proc, NEW t \in Tid, TableInv(k, m),
         k[p].tasks[t].state \in {"Ready", "Blocking"}
  PROVE  ~Dead(k, p) /\ k[p].state # "Zombie"
<1>1. t \in Alive(k, p)
  BY Zenon DEF Alive
<1>2. ~Dead(k, p)
  BY <1>1, Zenon DEF TableInv, GoneEmpty, AllProc
<1>3. QED BY <1>1, <1>2, Zenon DEF TableInv, MemoryKept

\* The effect of a call that leaves processes and families alone.
LEMMA SteadyInside ==
  ASSUME NEW k, NEW m, NEW j, NEW p \in Proc, NEW t \in Tid, TableInv(k, m),
         Steady(k, j), ThreadsKept(k, j, p, t), j[p].tasks[t].state = "Ready"
  PROVE  Inside(k, j, m, p, t)
BY SteadyKeeps, Zenon DEF Inside

\* An effect and what a call does last make up a step that keeps the invariant,
\* the exit codes, and lets no killed thread go on.
LEMMA CallKeeps ==
  ASSUME NEW k, NEW m, NEW j, NEW i, NEW p \in Proc, NEW t \in Tid,
         Inside(k, j, m, p, t), Leaves(j, i, p, t)
  PROVE  TableInv(i, m) /\ CodesKept(k, i) /\ KilledEnd(k, i)
<1>1. TableInv(j, m) /\ j[p].tasks[t].state = "Ready"
  BY Zenon DEF Inside
<1>2. TableInv(i, m)
  BY <1>1, LeavesKeeps, Zenon
<1>3. ~Dead(j, p) /\ j[p].state # "Zombie"
  BY <1>1, LivesOn, Zenon
<1>4. \A q \in AllProc \ {p} : i[q] = j[q]
  BY Zenon DEF Leaves, OneThread
<1>5. CodesKept(k, i)
  <2>1. SUFFICES ASSUME NEW q \in Proc, k[q].state = "Zombie"
                 PROVE  /\ i[q].state \in {"Zombie", "Reaped"}
                        /\ i[q].state = "Zombie" => i[q].exit_code = k[q].exit_code
    BY Zenon DEF CodesKept
  <2>2. /\ j[q].state \in {"Zombie", "Reaped"}
        /\ j[q].state = "Zombie" => j[q].exit_code = k[q].exit_code
    BY <2>1, Zenon DEF Inside, CodesKept
  <2>3. q # p
    BY <1>3, <2>2, Zenon DEF Dead
  <2>4. i[q] = j[q]
    BY <1>4, <2>3, Zenon DEF AllProc
  <2>5. QED BY <2>2, <2>4, Zenon
<1>6. KilledEnd(k, i)
  <2>1. SUFFICES ASSUME NEW q \in Proc, NEW s \in Tid, k[q].tasks[s].state = "Ready",
                        SIGKILL \in k[q].tasks[s].signals
                 PROVE  \/ i[q].tasks[s].state # "Ready"
                        \/ [i[q].tasks[s] EXCEPT !.signals = k[q].tasks[s].signals]
                             = k[q].tasks[s]
    BY Zenon DEF KilledEnd
  <2>2. CASE q = p /\ s = t
    <3>1. SIGKILL \in j[p].tasks[t].signals
      BY <2>1, <2>2, Zenon DEF Inside, ThreadsKept
    <3>2. i[p].tasks[t].state # "Ready"
      BY <3>1, Zenon DEF Leaves
    <3>3. QED BY <2>2, <3>2, Zenon
  <2>3. CASE ~(q = p /\ s = t)
    <3>1. [j[q].tasks[s] EXCEPT !.signals = k[q].tasks[s].signals] = k[q].tasks[s]
      BY <2>1, <2>3, Zenon DEF Inside, ThreadsKept, AllProc
    <3>2. i[q].tasks[s] = j[q].tasks[s]
      <4>1. CASE q = p
        BY <2>3, <4>1, Zenon DEF Leaves, OneThread
      <4>2. CASE q # p
        BY <1>4, <4>2, Zenon DEF AllProc
      <4>3. QED BY <4>1, <4>2, Zenon
    <3>3. QED BY <3>1, <3>2, Zenon
  <2>4. QED BY <2>2, <2>3, Zenon
<1>7. QED BY <1>2, <1>5, <1>6, Zenon

\* A call that blocks leaves its thread there.
LEMMA BlockLeaves ==
  ASSUME NEW k \in Table, NEW p \in AllProc, NEW t \in Tid
  PROVE  Leaves(k, [k EXCEPT ![p].tasks[t].state = "Blocking"], p, t)
<1> DEFINE th == k[p].tasks[t]
           u == [th EXCEPT !.state = "Blocking"]
           d == [k EXCEPT ![p].tasks[t] = u]
           j == [k EXCEPT ![p].tasks[t].state = "Blocking"]
<1>1. th \in Thread
  BY Zenon DEF Table, ProcessRecord
<1>2. /\ u \in Thread /\ u.state = "Blocking" /\ u.signals = th.signals
      /\ u.handling_sig = th.handling_sig /\ u.trapframe_backup = th.trapframe_backup
      /\ u.mask_backup = th.mask_backup /\ u.nested = th.nested /\ u.outer = th.outer
  BY <1>1, Zenon DEF Thread, ThreadState
<1>3. j = d
  BY Zenon DEF Table, ProcessRecord
<1> HIDE DEF u
<1>4. OneThread(k, d, p, t) /\ SameProcess(k, d, p) /\ d[p].tasks[t] = u
  BY <1>2, PutThread
<1> HIDE DEF d, j
<1>5. KeptThread(th) => KeptThread(u)
  BY <1>1, <1>2, ContextSame, Zenon
<1>6. Alive(j, p) # {}
  BY <1>2, <1>3, <1>4, Zenon DEF Alive
<1>7. Leaves(k, j, p, t)
  BY <1>2, <1>3, <1>4, <1>5, <1>6 DEF Leaves
<1>8. QED BY <1>7 DEF j

\* A child that has ended is no caller, and nobody but its parent refers to it.
LEMMA EndedChild ==
  ASSUME NEW k, NEW m, NEW p \in AllProc, NEW pid, TableInv(k, m), Ended(k, p, pid) # {}
  PROVE  LET n == Min(Ended(k, p, pid))
             c == k[p].children[n]
         IN  /\ n \in DOMAIN k[p].children /\ c \in Proc
             /\ k[c].state = "Zombie" /\ ~Shared(k, p, c)
<1> DEFINE E == Ended(k, p, pid)
           n == Min(E)
           c == k[p].children[n]
<1>1. k[p].children \in Seq(Proc)
  BY Zenon DEF TableInv, Table, ProcessRecord
<1>2. E \subseteq DOMAIN k[p].children
  BY Zenon DEF Ended
<1>3. E \subseteq Nat
  BY <1>1, <1>2
<1>4. n \in E
  BY <1>3, MinIsLeast, Zenon
<1>5. n \in DOMAIN k[p].children /\ k[c].state = "Zombie"
  BY <1>4, Zenon DEF Ended
<1>6. c \in Proc
  BY <1>1, <1>5
<1> HIDE DEF n, c
<1>7. c \in Range(k[p].children)
  BY <1>5, Zenon DEF Range, c
<1>8. Alive(k, c) = {}
  BY <1>5, <1>6, Zenon DEF TableInv, MemoryKept, Dead
<1>9. ~Shared(k, p, c)
  <2>0. ListedOnce(k)
    BY Zenon DEF TableInv
  <2>1. \A q \in AllProc \ {p} : c \notin Range(k[q].children)
    <3>1. \A q \in AllProc : c \in Range(k[q].children) => k[c].parent = q
      BY <1>6, <2>0, Zenon DEF ListedOnce
    <3>2. k[c].parent = p
      BY <1>7, <3>1, Zenon
    <3>3. QED BY <3>1, <3>2, Zenon
  <2>2. \A i \in Tid : k[c].tasks[i].state # "Blocking"
    BY <1>8, Zenon DEF Alive
  <2>3. QED BY <2>1, <2>2, Zenon DEF Shared
<1>10. QED BY <1>5, <1>6, <1>9, Zenon DEF n, c

----------------------------------------------------------------------------
(* Steps.                                                                  *)

\* A panic leaves what the invariant says.
LEMMA PanicKeeps ==
  ASSUME NEW which \in {"insert", "new_user", "exec", "leaked"}, panic(which)
  PROVE  IInv' /\ StepKept
BY Zenon DEF panic, IInv, StepKept

\* A step that leaves a thread behind after its effect.
LEMMA LeaveKeeps ==
  ASSUME status = "running", NEW p \in Proc, NEW t \in Tid, NEW j,
         Inside(proc, j, proc_map', p, t), Leaves(j, proc', p, t), UNCHANGED status
  PROVE  IInv' /\ StepKept
<1>1. TableInv(proc', proc_map') /\ CodesKept(proc, proc') /\ KilledEnd(proc, proc')
  BY CallKeeps, Zenon
<1>2. QED BY <1>1, Zenon DEF IInv, StepKept

\* A step that returns to user mode after its effect.
LEMMA ReturnKeeps ==
  ASSUME status = "running", NEW p \in Proc, NEW t \in Tid, NEW j,
         Inside(proc, j, proc_map', p, t), Return(j, p, t)
  PROVE  IInv' /\ StepKept
<1>1. j \in Table /\ j[p].tasks[t].state = "Ready" /\ p \in AllProc
  BY Zenon DEF Inside, TableInv, AllProc
<1>2. Leaves(j, Returned(j, p, t), p, t)
  BY <1>1, ReturnedLeaves, Zenon
<1>3. Leaves(j, proc', p, t) /\ UNCHANGED status
  BY <1>2, Zenon DEF Return
<1>4. QED BY <1>3, LeaveKeeps, Zenon

\* A step that ends its thread after its effect.
LEMMA ExitKeeps ==
  ASSUME status = "running", NEW p \in Proc, NEW t \in Tid, NEW j, NEW code \in Int,
         Inside(proc, j, proc_map', p, t), proc' = exit(j, p, t, code), UNCHANGED status
  PROVE  IInv' /\ StepKept
<1>1. j \in Table /\ p \in AllProc
  BY Zenon DEF Inside, TableInv, AllProc
<1>2. Leaves(j, exit(j, p, t, code), p, t)
  BY <1>1, ExitLeaves, Zenon
<1>3. Leaves(j, proc', p, t)
  BY <1>2, Zenon
<1>4. QED BY <1>3, LeaveKeeps, Zenon

\* The root process reaps a child.
LEMMA RootKeeps ==
  ASSUME status = "running", TableInv(proc, proc_map), root_waitpid
  PROVE  IInv' /\ StepKept
<1> DEFINE E == Ended(proc, RootProc, AnyPid)
           n == Min(E)
           c == proc[RootProc].children[n]
           j == reap(proc, RootProc, n)
<1>1. /\ E # {}
      /\ IF Shared(proc, RootProc, c) \/ proc[c].leaked
         THEN panic(IF proc[c].leaked THEN "leaked" ELSE "waitpid")
         ELSE proc' = j /\ proc_map' = proc_map \ {c} /\ UNCHANGED status
  BY Zenon DEF root_waitpid
<1>2. RootProc \in AllProc
  BY Zenon DEF AllProc
<1>3. /\ n \in DOMAIN proc[RootProc].children /\ c \in Proc
      /\ proc[c].state = "Zombie" /\ ~Shared(proc, RootProc, c)
  BY <1>1, <1>2, EndedChild, Zenon
<1> HIDE DEF E, n
<1>4. CASE proc[c].leaked
  BY <1>1, <1>4, PanicKeeps, Zenon
<1>5. CASE ~proc[c].leaked
  <2>1. proc' = j /\ proc_map' = proc_map \ {c} /\ UNCHANGED status
    BY <1>1, <1>3, <1>5, Zenon
  <2>2. c # RootProc
    BY <1>3, ProcAssumption, Zenon
  <2>3. /\ TableInv(j, proc_map \ {c}) /\ CodesKept(proc, j)
        /\ \A t \in Tid : ThreadsKept(proc, j, RootProc, t)
    BY <1>2, <1>3, <2>2, ReapKeeps, Zenon
  <2> HIDE DEF j
  <2>4. KilledEnd(proc, j)
    <3>1. 0 \in Tid
      BY ProcAssumption DEF Tid
    <3>2. \A q \in Proc : q \in AllProc /\ q # RootProc
      BY ProcAssumption, Zenon DEF AllProc
    <3>3. QED BY <2>3, <3>1, <3>2, Zenon DEF ThreadsKept, KilledEnd
  <2>5. QED BY <2>1, <2>3, <2>4, Zenon DEF IInv, StepKept
<1>6. QED BY <1>4, <1>5, Zenon

\* A process reaps a child.
LEMMA WaitKeeps ==
  ASSUME TableInv(proc, proc_map), NEW p \in Proc, NEW t \in Tid, NEW pid,
         sys_waitpid(p, t, pid)
  PROVE  IInv' /\ StepKept
<1> DEFINE E == Ended(proc, p, pid)
           n == Min(E)
           c == proc[p].children[n]
           j == reap(proc, p, n)
<1>1. /\ E # {} /\ status = "running" /\ proc[p].tasks[t].state = "Ready"
      /\ IF Shared(proc, p, c) \/ proc[c].leaked
         THEN panic(IF proc[c].leaked THEN "leaked" ELSE "waitpid")
         ELSE Return(j, p, t) /\ proc_map' = proc_map \ {c}
  BY Zenon DEF sys_waitpid, Calls
<1>2. p \in AllProc
  BY Zenon DEF AllProc
<1>3. /\ n \in DOMAIN proc[p].children /\ c \in Proc
      /\ proc[c].state = "Zombie" /\ ~Shared(proc, p, c)
  BY <1>1, <1>2, EndedChild, Zenon
<1> HIDE DEF E, n
<1>4. CASE proc[c].leaked
  BY <1>1, <1>4, PanicKeeps, Zenon
<1>5. CASE ~proc[c].leaked
  <2>1. Return(j, p, t) /\ proc_map' = proc_map \ {c}
    BY <1>1, <1>3, <1>5, Zenon
  <2>2. c # p
    BY <1>1, <1>3, LivesOn, Zenon
  <2>3. /\ TableInv(j, proc_map \ {c}) /\ CodesKept(proc, j)
        /\ ThreadsKept(proc, j, p, t) /\ j[p].tasks[t] = proc[p].tasks[t]
    BY <1>2, <1>3, <2>2, ReapKeeps
  <2> HIDE DEF j
  <2>4. Inside(proc, j, proc_map', p, t)
    BY <1>1, <2>1, <2>3, Zenon DEF Inside
  <2>5. QED BY <1>1, <2>1, <2>4, ReturnKeeps, Zenon
<1>6. QED BY <1>4, <1>5, Zenon

\* The facts about the caller that the effects rest on.
LEMMA Caller ==
  ASSUME TableInv(proc, proc_map), NEW p \in Proc, NEW t \in Tid
  PROVE  proc \in Table /\ p \in AllProc /\ KeptThread(proc[p].tasks[t])
BY Zenon DEF TableInv, ContextsKept, AllProc

\* The calls whose effect is on the caller alone.
LEMMA OwnCallKeeps ==
  ASSUME TableInv(proc, proc_map), NEW p \in Proc, NEW t \in Tid,
         \/ sys_other(p, t)
         \/ unblock(p, t)
         \/ \E mask \in Mask : sys_sigprocmask(p, t, mask)
         \/ \E signum \in Handled, act \in [handler : BOOLEAN, mask : ActMask] :
              sys_sigaction(p, t, signum, act)
         \/ sys_sigretrun(p, t)
  PROVE  IInv' /\ StepKept
<1> proc \in Table /\ p \in AllProc /\ KeptThread(proc[p].tasks[t])
  BY Caller, Zenon
<1>0. ASSUME NEW j, status = "running", Return(j, p, t), UNCHANGED proc_map, Steady(proc, j),
             ThreadsKept(proc, j, p, t), j[p].tasks[t].state = "Ready"
      PROVE  IInv' /\ StepKept
  <2>1. Inside(proc, j, proc_map', p, t)
    BY <1>0, SteadyInside, Zenon
  <2>2. QED BY <1>0, <2>1, ReturnKeeps, Zenon
<1>1. CASE sys_other(p, t)
  <2>1. /\ status = "running" /\ proc[p].tasks[t].state = "Ready"
        /\ Return(proc, p, t) /\ UNCHANGED proc_map
    BY <1>1, Zenon DEF sys_other, Calls
  <2>2. Steady(proc, proc) /\ ThreadsKept(proc, proc, p, t)
    BY <2>1, NothingSteady, Zenon
  <2>3. QED BY <1>0, <2>1, <2>2, Zenon
<1>2. CASE unblock(p, t)
  <2> DEFINE j == [proc EXCEPT ![p].tasks[t].state = "Ready"]
  <2>1. /\ status = "running" /\ proc[p].tasks[t].state = "Blocking"
        /\ Return(j, p, t) /\ UNCHANGED proc_map
    BY <1>2, Zenon DEF unblock
  <2>2. Steady(proc, j) /\ ThreadsKept(proc, j, p, t) /\ j[p].tasks[t].state = "Ready"
    BY <2>1, UnblockSteady, Zenon
  <2> HIDE DEF j
  <2>3. QED BY <1>0, <2>1, <2>2, Zenon
<1>3. ASSUME NEW mask \in Mask, sys_sigprocmask(p, t, mask)
      PROVE  IInv' /\ StepKept
  <2> DEFINE j == [proc EXCEPT ![p].tasks[t].signal_mask = mask]
  <2>1. /\ status = "running" /\ proc[p].tasks[t].state = "Ready"
        /\ Return(j, p, t) /\ UNCHANGED proc_map
    BY <1>3, Zenon DEF sys_sigprocmask, Calls
  <2>2. Steady(proc, j) /\ ThreadsKept(proc, j, p, t) /\ j[p].tasks[t].state = "Ready"
    BY <2>1, MaskSteady, Zenon
  <2> HIDE DEF j
  <2>3. QED BY <1>0, <2>1, <2>2, Zenon
<1>4. ASSUME NEW signum \in Handled, NEW act \in [handler : BOOLEAN, mask : ActMask],
             sys_sigaction(p, t, signum, act)
      PROVE  IInv' /\ StepKept
  <2> DEFINE old == proc[p].signal_actions
             new == [s \in DOMAIN old \union {signum} |-> IF s = signum THEN act ELSE old[s]]
             j == [proc EXCEPT ![p].signal_actions = new]
  <2>1. /\ status = "running" /\ proc[p].tasks[t].state = "Ready"
        /\ Return(j, p, t) /\ UNCHANGED proc_map
    BY <1>4, Zenon DEF sys_sigaction, Calls
  <2>2. old \in Actions
    BY Zenon DEF Table, ProcessRecord
  <2> HIDE DEF old
  <2>3. new \in Actions
    <3> DEFINE Act == [handler : BOOLEAN, mask : SUBSET Sig]
    <3>1. act \in Act
      BY ProcAssumption, Zenon DEF Sig, MAX_SIG
    <3> HIDE DEF Act
    <3>2. PICK S \in SUBSET Handled : old \in [S -> Act]
      BY <2>2, Zenon DEF Actions, Act
    <3>3. S \union {signum} \in SUBSET Handled /\ new \in [S \union {signum} -> Act]
      BY <3>1, <3>2, Zenon
    <3> HIDE DEF new
    <3>4. QED BY <3>3, Zenon DEF Actions, Act
  <2> HIDE DEF new
  <2>4. Steady(proc, j) /\ ThreadsKept(proc, j, p, t) /\ j[p].tasks[t].state = "Ready"
    BY <2>1, <2>3, ActionSteady
  <2> HIDE DEF j
  <2>5. QED BY <1>0, <2>1, <2>4, Zenon
<1>5. CASE sys_sigretrun(p, t)
  <2> DEFINE th == proc[p].tasks[t]
             j  == [proc EXCEPT ![p].tasks[t] =
                      [th EXCEPT !.trapframe_backup = {}, !.mask_backup = {},
                                 !.handling_sig = NoSig,
                                 !.signal_mask = CHOOSE m \in th.mask_backup : TRUE,
                                 !.frame = CHOOSE f \in th.trapframe_backup : TRUE,
                                 !.outer = @ \ Saved(th)]]
  <2>1. /\ status = "running" /\ proc[p].tasks[t].state = "Ready"
        /\ th.trapframe_backup # {} /\ Return(j, p, t) /\ UNCHANGED proc_map
    BY <1>5, Zenon DEF sys_sigretrun, Calls
  <2>2. Steady(proc, j) /\ ThreadsKept(proc, j, p, t) /\ j[p].tasks[t].state = "Ready"
    BY <2>1, SigreturnSteady, Zenon
  <2> HIDE DEF j
  <2>3. QED BY <1>0, <2>1, <2>2, Zenon
<1>6. QED BY <1>1, <1>2, <1>3, <1>4, <1>5, Zenon

\* The calls whose effect is on other threads or other processes, but for
\* waitpid.
LEMMA OtherCallKeeps ==
  ASSUME TableInv(proc, proc_map), NEW p \in Proc, NEW t \in Tid,
         \/ \E c \in Proc : sys_fork(p, t, c)
         \/ sys_thread_create(p, t)
         \/ sys_exec(p, t)
         \/ \E i \in Tid : sys_waittid(p, t, i)
         \/ \E q \in Proc, signum \in Sent : sys_kill(p, t, q, signum)
  PROVE  IInv' /\ StepKept
<1> proc \in Table /\ p \in AllProc
  BY Caller, Zenon
<1>0. ASSUME NEW j, status = "running", Return(j, p, t), UNCHANGED proc_map, Steady(proc, j),
             ThreadsKept(proc, j, p, t), j[p].tasks[t].state = "Ready"
      PROVE  IInv' /\ StepKept
  <2>1. Inside(proc, j, proc_map', p, t)
    BY <1>0, SteadyInside, Zenon
  <2>2. QED BY <1>0, <2>1, ReturnKeeps, Zenon
<1>1. ASSUME NEW c \in Proc, sys_fork(p, t, c)
      PROVE  IInv' /\ StepKept
  <2> DEFINE j == new_fork(proc, p, t, c)
  <2>1. /\ status = "running" /\ proc[p].tasks[t].state = "Ready" /\ proc[c].state = "Unborn"
        /\ Return(j, p, t) /\ proc_map' = proc_map \union {c}
    BY <1>1, Zenon DEF sys_fork, Calls
  <2>2. /\ TableInv(j, proc_map \union {c}) /\ CodesKept(proc, j)
        /\ ThreadsKept(proc, j, p, t) /\ j[p].tasks[t].state = "Ready"
    BY <2>1, ForkKeeps
  <2> HIDE DEF j
  <2>3. Inside(proc, j, proc_map', p, t)
    BY <2>1, <2>2, Zenon DEF Inside
  <2>4. QED BY <2>1, <2>3, ReturnKeeps, Zenon
<1>2. CASE sys_thread_create(p, t)
  <2> DEFINE j == new_user_task(proc, p)
  <2>1. /\ status = "running" /\ proc[p].tasks[t].state = "Ready"
        /\ \/ panic("insert") \/ panic("new_user")
           \/ /\ ~(proc[p].next_tid > MaxTid)
              /\ Return(j, p, t) /\ UNCHANGED proc_map
    BY <1>2, Zenon DEF sys_thread_create, Calls
  <2>2. CASE panic("insert") \/ panic("new_user")
    BY <2>2, PanicKeeps, Zenon
  <2>3. CASE ~(proc[p].next_tid > MaxTid) /\ Return(j, p, t) /\ UNCHANGED proc_map
    <3>1. /\ TableInv(j, proc_map) /\ CodesKept(proc, j)
          /\ ThreadsKept(proc, j, p, t) /\ j[p].tasks[t].state = "Ready"
      BY <2>1, <2>3, CreateKeeps, Zenon
    <3> HIDE DEF j
    <3>2. Inside(proc, j, proc_map', p, t)
      BY <2>3, <3>1, Zenon DEF Inside
    <3>3. QED BY <2>1, <2>3, <3>2, ReturnKeeps, Zenon
  <2>4. QED BY <2>1, <2>2, <2>3, Zenon
<1>3. CASE sys_exec(p, t)
  <2> DEFINE j == [proc EXCEPT ![p].stacks = {0}, ![p].tasks[t].frame = Main]
  <2>1. /\ status = "running" /\ proc[p].tasks[t].state = "Ready"
        /\ panic("exec") \/ (Return(j, p, t) /\ UNCHANGED proc_map)
    BY <1>3, Zenon DEF sys_exec, Calls
  <2>2. Steady(proc, j) /\ ThreadsKept(proc, j, p, t) /\ j[p].tasks[t].state = "Ready"
    BY <2>1, ExecSteady, Zenon
  <2> HIDE DEF j
  <2>3. QED BY <1>0, <2>1, <2>2, PanicKeeps, Zenon
<1>4. ASSUME NEW i \in Tid, sys_waittid(p, t, i)
      PROVE  IInv' /\ StepKept
  <2> DEFINE j == waittid(proc, p, i)
  <2>1. /\ status = "running" /\ proc[p].tasks[t].state = "Ready"
        /\ i # t /\ proc[p].tasks[i].state = "Zombie"
        /\ Return(j, p, t) /\ UNCHANGED proc_map
    BY <1>4, Zenon DEF sys_waittid, Calls
  <2>2. Steady(proc, j) /\ ThreadsKept(proc, j, p, t) /\ j[p].tasks[t].state = "Ready"
    BY <2>1, WaittidSteady, Zenon
  <2> HIDE DEF j
  <2>3. QED BY <1>0, <2>1, <2>2, Zenon
<1>5. ASSUME NEW q \in Proc, NEW signum \in Sent, sys_kill(p, t, q, signum)
      PROVE  IInv' /\ StepKept
  <2> DEFINE sig == signum % 32
             j == Signalled(proc, q, sig)
  <2>1. /\ status = "running" /\ proc[p].tasks[t].state = "Ready"
        /\ Return(j, p, t) /\ UNCHANGED proc_map
    BY <1>5, Zenon DEF sys_kill, Calls
  <2>2. signum \in Nat
    BY ProcAssumption, Zenon
  <2>3. sig \in Sig
    BY <2>2 DEF Sig, MAX_SIG
  <2> HIDE DEF sig
  <2>4. q \in AllProc
    BY Zenon DEF AllProc
  <2>5. Steady(proc, j) /\ ThreadsKept(proc, j, p, t) /\ j[p].tasks[t].state = "Ready"
    BY <2>1, <2>3, <2>4, KillSteady, Zenon
  <2> HIDE DEF j
  <2>6. QED BY <1>0, <2>1, <2>5, Zenon
<1>6. QED BY <1>1, <1>2, <1>3, <1>4, <1>5, Zenon

\* The steps that do not return to user mode.
LEMMA EndKeeps ==
  ASSUME TableInv(proc, proc_map), NEW p \in Proc, NEW t \in Tid,
         \/ sys_block(p, t)
         \/ \E code \in Code : sys_exit(p, t, code) \/ sys_exit_group(p, t, code)
         \/ \E mode \in {"user", "call"} : handle_fault(p, t, mode)
  PROVE  IInv' /\ StepKept
<1> proc \in Table /\ p \in AllProc
  BY Caller, Zenon
<1>0. ASSUME proc[p].tasks[t].state = "Ready"
      PROVE  Inside(proc, proc, proc_map, p, t)
  <2>1. Steady(proc, proc) /\ ThreadsKept(proc, proc, p, t)
    BY <1>0, NothingSteady, Zenon
  <2>2. QED BY <1>0, <2>1, SteadyInside, Zenon
<1>1. CASE sys_block(p, t)
  <2> DEFINE j == [proc EXCEPT ![p].tasks[t].state = "Blocking"]
  <2>1. /\ status = "running" /\ proc[p].tasks[t].state = "Ready"
        /\ proc' = j /\ proc_map' = proc_map /\ UNCHANGED status
    BY <1>1, Zenon DEF sys_block, Calls
  <2>2. Leaves(proc, j, p, t)
    BY BlockLeaves, Zenon
  <2> HIDE DEF j
  <2>3. QED BY <1>0, <2>1, <2>2, LeaveKeeps, Zenon
<1>2. ASSUME NEW code \in Code, sys_exit(p, t, code)
      PROVE  IInv' /\ StepKept
  <2>1. /\ status = "running" /\ proc[p].tasks[t].state = "Ready"
        /\ proc' = exit(proc, p, t, code) /\ proc_map' = proc_map /\ UNCHANGED status
    BY <1>2, Zenon DEF sys_exit, Calls
  <2>2. code \in Int
    BY ProcAssumption, Zenon
  <2>3. QED BY <1>0, <2>1, <2>2, ExitKeeps, Zenon
<1>3. ASSUME NEW code \in Code, sys_exit_group(p, t, code)
      PROVE  IInv' /\ StepKept
  <2> DEFINE j == stop(proc, p, code)
  <2>1. /\ status = "running" /\ proc[p].tasks[t].state = "Ready"
        /\ proc' = exit(j, p, t, code) /\ proc_map' = proc_map /\ UNCHANGED status
    BY <1>3, Zenon DEF sys_exit_group, Calls
  <2>2. code \in Int
    BY ProcAssumption, Zenon
  <2>3. /\ TableInv(j, proc_map) /\ CodesKept(proc, j)
        /\ ThreadsKept(proc, j, p, t) /\ j[p].tasks[t].state = "Ready"
    BY <2>1, <2>2, StopKeeps, Zenon
  <2> HIDE DEF j
  <2>4. Inside(proc, j, proc_map', p, t)
    BY <2>1, <2>3, Zenon DEF Inside
  <2>5. QED BY <2>1, <2>2, <2>4, ExitKeeps, Zenon
<1>4. ASSUME NEW mode, handle_fault(p, t, mode)
      PROVE  IInv' /\ StepKept
  <2> DEFINE b == proc[p].leaked \/ mode = "call"
             j == [proc EXCEPT ![p].leaked = b]
  <2>1. /\ status = "running" /\ proc[p].tasks[t].state = "Ready"
        /\ proc' = exit(j, p, t, -1) /\ proc_map' = proc_map /\ UNCHANGED status
    BY <1>4, Zenon DEF handle_fault, Calls
  <2>2. -1 \in Int
    OBVIOUS
  <2>3. Steady(proc, j) /\ ThreadsKept(proc, j, p, t) /\ j[p].tasks[t].state = "Ready"
    <3>1. b \in BOOLEAN
      BY Zenon
    <3> HIDE DEF b
    <3>2. QED BY <2>1, <3>1, LeakSteady, Zenon
  <2> HIDE DEF j
  <2>4. Inside(proc, j, proc_map, p, t)
    BY <2>3, SteadyInside, Zenon
  <2>5. QED BY <2>1, <2>2, <2>4, ExitKeeps, Zenon
<1>5. QED BY <1>1, <1>2, <1>3, <1>4, Zenon

----------------------------------------------------------------------------
(* The initial state, and what the invariant says.                         *)

\* The initial table: the root process, its child the shell, and no other.
LEMMA InitInv == Init => IInv
<1>0. SUFFICES ASSUME Init PROVE TableInv(proc, proc_map)
  BY Zenon DEF IInv, Init
<1> DEFINE R == [Unborn EXCEPT !.state = "Normal", !.children = <<Shell>>]
           N == NewProcess(RootProc, {0}, Main)
<1>1. /\ Shell \in Proc /\ Shell \in AllProc /\ RootProc \in AllProc /\ RootProc \notin Proc
      /\ Shell # RootProc /\ AllProc = Proc \union {RootProc}
  BY ProcAssumption, Zenon DEF AllProc
<1>2. 0 \in Tid /\ Tid \subseteq Nat /\ Main \in Frame
  BY ProcAssumption DEF Tid, Frame, Main
<1>3. /\ R \in ProcessRecord /\ R.state = "Normal" /\ R.children = <<Shell>>
      /\ R.next_tid = 1 /\ R.late = 0 /\ \A i \in Tid : R.tasks[i] = NoThread
  <2>1. /\ Unborn \in ProcessRecord /\ Unborn.next_tid = 1 /\ Unborn.late = 0
        /\ \A i \in Tid : Unborn.tasks[i] = NoThread
    BY UnbornRecord, Zenon
  <2>2. <<Shell>> \in Seq(Proc)
    BY <1>1
  <2>3. "Normal" \in ProcessState
    BY Zenon DEF ProcessState
  <2>4. QED BY <2>1, <2>2, <2>3, Zenon DEF ProcessRecord
<1>4. /\ N \in ProcessRecord /\ N.state = "Normal" /\ N.parent = RootProc
      /\ N.children = <<>> /\ N.next_tid = 1 /\ N.late = 0 /\ N.stacks = {0}
      /\ N.tasks[0] = NewThread(Main) /\ \A i \in Tid \ {0} : N.tasks[i] = NoThread
  <2>1. NewMakes(N, RootProc, {0}, Main)
    BY <1>1, <1>2, NewRecords, Zenon
  <2> HIDE DEF N
  <2>2. QED BY <1>2, <2>1, Zenon DEF NewMakes
<1>5. /\ Unborn \in ProcessRecord /\ Unborn.state = "Unborn" /\ Unborn.children = <<>>
      /\ Unborn.next_tid = 1 /\ Unborn.late = 0
      /\ \A i \in Tid : Unborn.tasks[i] = NoThread
  BY UnbornRecord, Zenon
<1>6. proc = [p \in AllProc |-> IF p = RootProc THEN R ELSE IF p = Shell THEN N ELSE Unborn]
  BY <1>0, Zenon DEF Init
<1>7. proc_map = {}
  BY <1>0, Zenon DEF Init
<1> HIDE DEF R, N
<1>8. /\ proc[RootProc] = R /\ proc[Shell] = N
      /\ \A p \in AllProc \ {RootProc, Shell} : proc[p] = Unborn
  BY <1>1, <1>6, Zenon
<1>9. /\ NoThread.state = "None" /\ NewThread(Main).state = "Ready"
      /\ KeptThread(NoThread) /\ KeptThread(NewThread(Main))
  <2>1. KeptThread(NoThread) /\ KeptThread(NewThread(Main))
    BY <1>2, NewThreads, Zenon
  <2>2. NoThread.state = "None" /\ NewThread(Main).state = "Ready"
    BY DEF NoThread, NewThread
  <2>3. QED BY <2>1, <2>2, Zenon
<1>10. /\ \A x : x \notin Range(<<>>)
       /\ \A x : x \in Range(<<Shell>>) <=> x = Shell
       /\ Once(<<Shell>>, Shell)
  <2>1. \A x : x \notin Range(<<>>)
    BY EmptyRange, Zenon
  <2>2. DOMAIN <<Shell>> = {1} /\ <<Shell>>[1] = Shell
    OBVIOUS
  <2>3. \A x : x \in Range(<<Shell>>) <=> x = Shell
    BY <2>2 DEF Range
  <2>4. Once(<<Shell>>, Shell)
    BY <2>2 DEF Once
  <2>5. QED BY <2>1, <2>3, <2>4, Zenon
<1>11. /\ \A i \in Tid : proc[RootProc].tasks[i] = NoThread
       /\ proc[Shell].tasks[0] = NewThread(Main)
       /\ \A i \in Tid \ {0} : proc[Shell].tasks[i] = NoThread
       /\ \A p \in AllProc \ {RootProc, Shell}, i \in Tid : proc[p].tasks[i] = NoThread
  BY <1>3, <1>4, <1>5, <1>8, Zenon
<1>12. /\ ~Dead(proc, RootProc) /\ ~Dead(proc, Shell)
       /\ \A p \in AllProc \ {RootProc, Shell} : Dead(proc, p)
  BY <1>3, <1>4, <1>5, <1>8, Zenon DEF Dead
<1>13. proc \in Table
  BY <1>3, <1>4, <1>5, <1>6, Zenon DEF Table
<1>14. RootStays(proc)
  BY <1>3, <1>8, <1>9, <1>11, Zenon DEF RootStays
<1>15. TidsFresh(proc)
  <2>1. \A p \in AllProc : proc[p].late = 0 /\ proc[p].next_tid = 1
    BY <1>3, <1>4, <1>5, <1>8, Zenon
  <2>2. \A p \in AllProc, i \in Tid \ {0} : proc[p].tasks[i].state = "None"
    BY <1>9, <1>11, Zenon
  <2>3. \A i \in Tid : i >= 1 => i \in Tid \ {0}
    BY <1>2
  <2>4. QED BY <2>1, <2>2, <2>3 DEF TidsFresh
<1>16. GoneEmpty(proc)
  <2>1. \A p \in AllProc \ {RootProc, Shell} : Alive(proc, p) = {}
    BY <1>9, <1>11, Zenon DEF Alive
  <2>2. \A p \in AllProc \ {RootProc, Shell} : proc[p].children = <<>>
    BY <1>5, <1>8, Zenon
  <2>3. QED BY <1>12, <2>1, <2>2, Zenon DEF GoneEmpty
<1>17. \A p \in Proc : ~Dead(proc, p) => p = Shell
  BY <1>1, <1>12, Zenon
<1>18. Findable(proc, proc_map)
  BY <1>1, <1>4, <1>8, <1>17, Zenon DEF Findable
<1>19. proc[RootProc].children = <<Shell>> /\ \A p \in Proc : proc[p].children = <<>>
  BY <1>1, <1>3, <1>4, <1>5, <1>8, Zenon
<1>20. ListedOnce(proc)
  <2>1. SUFFICES ASSUME NEW x \in Proc, NEW q \in AllProc, x \in Range(proc[q].children)
                 PROVE  ~Dead(proc, x) /\ proc[x].parent = q /\ Once(proc[q].children, x)
    BY Zenon DEF ListedOnce
  <2>2. q = RootProc
    BY <1>10, <1>19, <2>1, Zenon DEF AllProc
  <2>3. x = Shell
    BY <1>10, <1>19, <2>1, <2>2, Zenon
  <2>4. QED BY <1>4, <1>8, <1>10, <1>12, <1>19, <2>2, <2>3, Zenon
<1>21. Linked(proc, proc_map)
  BY <1>4, <1>8, <1>10, <1>17, <1>19, Zenon DEF Linked
<1>22. MemoryKept(proc)
  <2>1. 0 \in Alive(proc, Shell)
    BY <1>2, <1>9, <1>11, Zenon DEF Alive
  <2>2. proc[Shell].state = "Normal" /\ proc[Shell].stacks = {0}
    BY <1>4, <1>8, Zenon
  <2>3. QED BY <1>17, <2>1, <2>2, Zenon DEF MemoryKept
<1>23. StopSent(proc)
  BY <1>1, <1>4, <1>5, <1>8, Zenon DEF StopSent
<1>24. ContextsKept(proc)
  BY <1>1, <1>9, <1>11, Zenon DEF ContextsKept
<1>25. QED
  BY <1>7, <1>13, <1>14, <1>15, <1>16, <1>18, <1>20, <1>21, <1>22, <1>23, <1>24, Zenon
  DEF TableInv

\* Every step keeps the invariant, settled exit codes and the end of killed
\* threads.
LEMMA StepInv == IInv /\ Next => IInv' /\ StepKept
<1>0. SUFFICES ASSUME IInv, Next PROVE IInv' /\ StepKept
  OBVIOUS
<1>1. status = "running"
  <2>1. root_waitpid => status = "running"
    BY Zenon DEF root_waitpid
  <2>2. \A p \in Proc, t \in Tid :
          \/ sys_other(p, t) \/ sys_block(p, t) \/ unblock(p, t)
          \/ \E c \in Proc : sys_fork(p, t, c)
          => status = "running"
    BY Zenon DEF sys_other, sys_block, unblock, sys_fork, Calls
  <2>3. \A p \in Proc, t \in Tid :
          sys_thread_create(p, t) \/ sys_exec(p, t) => status = "running"
    BY Zenon DEF sys_thread_create, sys_exec, Calls
  <2>4. \A p \in Proc, t \in Tid : sys_sigretrun(p, t) => status = "running"
    BY Zenon DEF sys_sigretrun, Calls
  <2>5. \A p \in Proc, t \in Tid :
          \/ \E code \in Code : sys_exit(p, t, code) \/ sys_exit_group(p, t, code)
          \/ \E mode \in {"user", "call"} : handle_fault(p, t, mode)
          \/ \E pid \in Proc \union {AnyPid} : sys_waitpid(p, t, pid)
          => status = "running"
    BY Zenon DEF sys_exit, sys_exit_group, handle_fault, sys_waitpid, Calls
  <2>6. \A p \in Proc, t \in Tid :
          \/ \E i \in Tid : sys_waittid(p, t, i)
          \/ \E q \in Proc, signum \in Sent : sys_kill(p, t, q, signum)
          \/ \E mask \in Mask : sys_sigprocmask(p, t, mask)
          \/ \E signum \in Handled, act \in [handler : BOOLEAN, mask : ActMask] :
               sys_sigaction(p, t, signum, act)
          => status = "running"
    <3>1. \A p \in Proc, t \in Tid : Calls(p, t) => status = "running"
      BY Zenon DEF Calls
    <3>2. \A p \in Proc, t \in Tid :
            /\ \A i \in Tid : sys_waittid(p, t, i) => Calls(p, t)
            /\ \A q \in Proc, signum \in Sent : sys_kill(p, t, q, signum) => Calls(p, t)
      BY Zenon DEF sys_waittid, sys_kill
    <3>3. \A p \in Proc, t \in Tid :
            /\ \A mask \in Mask : sys_sigprocmask(p, t, mask) => Calls(p, t)
            /\ \A signum \in Handled, act \in [handler : BOOLEAN, mask : ActMask] :
                 sys_sigaction(p, t, signum, act) => Calls(p, t)
      BY Zenon DEF sys_sigprocmask, sys_sigaction
    <3>4. QED BY <3>1, <3>2, <3>3, Zenon
  <2>7. QED BY <1>0, <2>1, <2>2, <2>3, <2>4, <2>5, <2>6, Zenon DEF Next
<1>2. TableInv(proc, proc_map)
  BY <1>0, <1>1, Zenon DEF IInv
<1>3. CASE root_waitpid
  BY <1>1, <1>2, <1>3, RootKeeps, Zenon
<1>4. CASE ~root_waitpid
  <2>1. PICK p \in Proc, t \in Tid :
          \/ sys_other(p, t)
          \/ sys_block(p, t)
          \/ unblock(p, t)
          \/ \E c \in Proc : sys_fork(p, t, c)
          \/ sys_thread_create(p, t)
          \/ sys_exec(p, t)
          \/ \E code \in Code : sys_exit(p, t, code) \/ sys_exit_group(p, t, code)
          \/ \E mode \in {"user", "call"} : handle_fault(p, t, mode)
          \/ \E pid \in Proc \union {AnyPid} : sys_waitpid(p, t, pid)
          \/ \E i \in Tid : sys_waittid(p, t, i)
          \/ \E q \in Proc, signum \in Sent : sys_kill(p, t, q, signum)
          \/ \E mask \in Mask : sys_sigprocmask(p, t, mask)
          \/ \E signum \in Handled, act \in [handler : BOOLEAN, mask : ActMask] :
               sys_sigaction(p, t, signum, act)
          \/ sys_sigretrun(p, t)
    BY <1>0, <1>4, Zenon DEF Next
  <2>2. CASE \E pid \in Proc \union {AnyPid} : sys_waitpid(p, t, pid)
    BY <1>2, <2>2, WaitKeeps, Zenon
  <2>3. QED BY <1>2, <2>1, <2>2, OwnCallKeeps, OtherCallKeeps, EndKeeps, Zenon
<1>5. QED BY <1>3, <1>4, Zenon

\* After a panic no process is there, and none has threads or children.
LEMMA PanicEmpty ==
  ASSUME proc = [p \in AllProc |-> Unborn]
  PROVE  /\ proc \in Table
         /\ \A p \in AllProc : /\ proc[p].state = "Unborn" /\ Alive(proc, p) = {}
                               /\ \A x : x \notin Range(proc[p].children)
<1>1. /\ Unborn \in ProcessRecord /\ Unborn.state = "Unborn" /\ Unborn.children = <<>>
      /\ \A i \in Tid : Unborn.tasks[i] = NoThread
  BY UnbornRecord, Zenon
<1>2. NoThread.state = "None"
  BY DEF NoThread
<1>3. \A p \in AllProc : proc[p] = Unborn
  BY Zenon
<1>4. proc \in Table
  BY <1>1, Zenon DEF Table
<1>5. \A p \in AllProc : Alive(proc, p) = {}
  BY <1>1, <1>2, <1>3, Zenon DEF Alive
<1>6. \A x : x \notin Range(<<>>)
  BY EmptyRange, Zenon
<1>7. QED BY <1>1, <1>3, <1>4, <1>5, <1>6, Zenon

\* What the invariant says of the tables: TypeOK.
LEMMA InvType == IInv => TypeOK
<1>1. CASE status = "running" /\ TableInv(proc, proc_map)
  BY <1>1, Zenon DEF TableInv, Table, TypeOK
<1>2. CASE /\ status \in {"insert", "new_user", "exec", "leaked"}
           /\ proc = [p \in AllProc |-> Unborn] /\ proc_map = {}
  BY <1>2, PanicEmpty, Zenon DEF Table, TypeOK
<1>3. QED BY <1>1, <1>2, Zenon DEF IInv

\* The safety properties follow from the invariant while the machine runs.
LEMMA TableSafe ==
  ASSUME TableInv(proc, proc_map)
  PROVE  /\ UpgradeSucceeds /\ FamilyTree /\ MemoryOutlivesThreads
         /\ StopReachesAll /\ ContextKept
<1> USE DEF Exists
<1>1. \A p \in AllProc : Exists(p) <=> ~Dead(proc, p)
  BY Zenon DEF Dead
<1>2. \A p \in Proc : p \in AllProc
  BY Zenon DEF AllProc
<1>3. UpgradeSucceeds
  <2>1. SUFFICES ASSUME NEW p \in Proc, Alive(proc, p) # {}
                 PROVE  /\ Exists(p)
                        /\ \/ p \in proc_map
                           \/ \E q \in AllProc : Exists(q) /\ p \in Range(proc[q].children)
    BY Zenon DEF UpgradeSucceeds
  <2>2. ~Dead(proc, p)
    BY <1>2, <2>1, Zenon DEF TableInv, GoneEmpty
  <2>3. p \in proc_map \/ proc[p].parent = RootProc
    BY <2>2, Zenon DEF TableInv, Findable
  <2>4. proc[RootProc].state = "Normal" /\ RootProc \in AllProc
    BY Zenon DEF TableInv, RootStays, AllProc
  <2>5. CASE p \notin proc_map
    <3>1. p \in Range(proc[RootProc].children)
      BY <2>2, <2>3, <2>5, Zenon DEF TableInv, Linked
    <3>2. QED BY <2>2, <2>4, <3>1, Zenon DEF Dead
  <2>6. QED BY <2>2, <2>5, Zenon DEF Dead
<1>4. FamilyTree
  <2>1. ListedOnce(proc) /\ Linked(proc, proc_map)
    BY Zenon DEF TableInv
  <2>2. QED BY <2>1, Zenon DEF FamilyTree, ListedOnce, Linked, Dead, Once
<1>5. MemoryOutlivesThreads
  BY Zenon DEF TableInv, MemoryKept, MemoryOutlivesThreads, Dead
<1>6. StopReachesAll
  BY Zenon DEF TableInv, StopSent, StopReachesAll
<1>7. ContextKept
  BY Zenon DEF TableInv, ContextsKept, KeptThread, ContextKept, Alive
<1>8. QED BY <1>3, <1>4, <1>5, <1>6, <1>7, Zenon

\* They hold of the state that a panic leaves, too.
LEMMA InvSafe ==
  IInv => /\ ReapedAlone /\ UpgradeSucceeds /\ FamilyTree /\ MemoryOutlivesThreads
          /\ StopReachesAll /\ ContextKept
<1>1. SUFFICES ASSUME IInv
               PROVE  /\ ReapedAlone /\ UpgradeSucceeds /\ FamilyTree
                      /\ MemoryOutlivesThreads /\ StopReachesAll /\ ContextKept
  OBVIOUS
<1>2. ReapedAlone
  BY <1>1 DEF IInv, ReapedAlone
<1>3. CASE TableInv(proc, proc_map)
  BY <1>2, <1>3, TableSafe, Zenon
<1>4. CASE proc = [p \in AllProc |-> Unborn]
  <2>1. \A p \in AllProc : /\ proc[p].state = "Unborn" /\ Alive(proc, p) = {}
                            /\ \A x : x \notin Range(proc[p].children)
    BY <1>4, PanicEmpty, Zenon
  <2>2. \A p \in Proc : p \in AllProc
    BY Zenon DEF AllProc
  <2>3. UpgradeSucceeds
    BY <2>1, <2>2, Zenon DEF UpgradeSucceeds
  <2>4. FamilyTree
    BY <2>1, <2>2, Zenon DEF FamilyTree, Exists
  <2>5. MemoryOutlivesThreads
    BY <2>1, <2>2, Zenon DEF MemoryOutlivesThreads, Exists
  <2>6. StopReachesAll
    BY <2>1, <2>2, Zenon DEF StopReachesAll
  <2>7. ContextKept
    BY <2>1, <2>2, Zenon DEF ContextKept
  <2>8. QED BY <1>2, <2>3, <2>4, <2>5, <2>6, <2>7, Zenon
<1>5. QED BY <1>1, <1>3, <1>4, Zenon DEF IInv

----------------------------------------------------------------------------
(* The theorems.                                                           *)

\* The inductive invariant holds in every state, for any number of processes
\* and threads, any signals and any masks.
THEOREM Invariance == Spec => []IInv
<1>1. IInv /\ UNCHANGED procVars => IInv'
  BY Zenon DEF IInv, procVars
<1>2. IInv /\ [Next]_procVars => IInv'
  BY <1>1, StepInv, Zenon
<1>3. QED BY <1>2, InitInv, PTL DEF Spec

\* Every record of the process table has its type in every state.
THEOREM ProcessTypeCorrect == Spec => []TypeOK
BY Invariance, InvType, PTL

\* The assertion of waitpid (structs.rs) never fails but for a process that a
\* fault inside a call has left an Arc of.
THEOREM ReapingIsAlone == Spec => []ReapedAlone
BY Invariance, InvSafe, PTL

\* Task::proc() of a thread that is left never fails: a list of children or
\* PROC_MAP refers to its process.
THEOREM UpgradesSucceed == Spec => []UpgradeSucceeds
BY Invariance, InvSafe, PTL

\* The lists of children and the parent links agree through fork, exit_group,
\* adoption by the root process and waitpid.
THEOREM FamiliesAgree == Spec => []FamilyTree
BY Invariance, InvSafe, PTL

\* The memory of a process goes with its last thread, and not before.
THEOREM MemoryOutlives == Spec => []MemoryOutlivesThreads
BY Invariance, InvSafe, PTL

\* exit_group reaches every thread that was there when it was called.
THEOREM StopReaches == Spec => []StopReachesAll
BY Invariance, InvSafe, PTL

\* The context that a signal handler interrupts is kept for sigreturn.
THEOREM ContextsAreKept == Spec => []ContextKept
BY Invariance, InvSafe, PTL

\* The exit code of a process is settled when it ends.
THEOREM ExitCodesSettle == Spec => ExitCodeSettled
<1> DEFINE A == \A p \in Proc : proc[p].state = "Zombie" /\ status' = "running" =>
                  /\ proc'[p].state \in {"Zombie", "Reaped"}
                  /\ proc'[p].state = "Zombie" => proc'[p].exit_code = proc[p].exit_code
<1>1. IInv /\ Next => A
  <2>1. SUFFICES ASSUME IInv, Next, status' = "running" PROVE A
    BY Zenon
  <2>2. CodesKept(proc, proc')
    BY <2>1, StepInv, Zenon DEF StepKept
  <2>3. QED BY <2>2, Zenon DEF CodesKept
<1>2. IInv /\ [Next]_procVars => [A]_procVars
  BY <1>1, Zenon
<1>3. Spec => [][A]_procVars
  <2> HIDE DEF A
  <2>1. QED BY <1>2, Invariance, PTL DEF Spec
<1>4. QED BY <1>3 DEF ExitCodeSettled

\* A thread that SIGKILL was sent to ends or blocks with its next step.
THEOREM KilledThreadsEnd == Spec => KilledThreadEnds
<1> DEFINE A == \A p \in Proc, t \in Tid :
                  LET th == proc[p].tasks[t]
                  IN  th.state = "Ready" /\ SIGKILL \in th.signals /\ status' = "running" =>
                        \/ proc'[p].tasks[t].state # "Ready"
                        \/ [proc'[p].tasks[t] EXCEPT !.signals = th.signals] = th
<1>1. IInv /\ Next => A
  <2>1. SUFFICES ASSUME IInv, Next, status' = "running" PROVE A
    BY Zenon
  <2>2. KilledEnd(proc, proc')
    BY <2>1, StepInv, Zenon DEF StepKept
  <2>3. QED BY <2>2, Zenon DEF KilledEnd
<1>2. IInv /\ [Next]_procVars => [A]_procVars
  BY <1>1, Zenon
<1>3. Spec => [][A]_procVars
  <2> HIDE DEF A
  <2>1. QED BY <1>2, Invariance, PTL DEF Spec
<1>4. QED BY <1>3 DEF KilledThreadEnds
============================================================================
