------------------------- MODULE ProcessCallProofs --------------------------
(***************************************************************************)
(* The effects of Process that leave the families and the threads of the   *)
(* processes as they are, the end of a thread and the way back to user mode*)
(* keep the invariant of the table.                                        *)
(***************************************************************************)
EXTENDS ProcessEffectProofs, FiniteSetTheorems

\* One thread of a table is replaced.
LEMMA PutThread ==
  ASSUME NEW k \in Table, NEW p \in AllProc, NEW t \in Tid, NEW th \in Thread
  PROVE  LET j == [k EXCEPT ![p].tasks[t] = th]
         IN  /\ OneThread(k, j, p, t)
             /\ SameProcess(k, j, p)
             /\ j[p].tasks[t] = th
<1> DEFINE j == [k EXCEPT ![p].tasks[t] = th]
<1>1. k[p] \in ProcessRecord /\ k[p].tasks \in [Tid -> Thread]
  BY Zenon DEF Table, ProcessRecord
<1>2. [k[p].tasks EXCEPT ![t] = th] \in [Tid -> Thread]
  BY <1>1, Zenon
<1>3. j[p] = [k[p] EXCEPT !.tasks = [k[p].tasks EXCEPT ![t] = th]]
  BY Zenon DEF Table
<1>4. j[p] \in ProcessRecord
  BY <1>1, <1>2, <1>3 DEF ProcessRecord
<1>5. j \in Table /\ \A q \in AllProc \ {p} : j[q] = k[q]
  BY <1>3, <1>4, Zenon DEF Table
<1> HIDE DEF j
<1>6. /\ SameProcess(k, j, p)
      /\ j[p].parent = k[p].parent /\ j[p].children = k[p].children
      /\ j[p].next_tid = k[p].next_tid /\ j[p].late = k[p].late
      /\ j[p].signal_actions = k[p].signal_actions /\ j[p].leaked = k[p].leaked
      /\ j[p].tasks = [k[p].tasks EXCEPT ![t] = th]
  BY <1>1, <1>3, Zenon DEF ProcessRecord, SameProcess
<1>7. QED BY <1>1, <1>5, <1>6 DEF OneThread, j

\* A steady change keeps the invariant.
LEMMA SteadyKeeps ==
  ASSUME NEW k, NEW m, NEW j, TableInv(k, m), Steady(k, j)
  PROVE  TableInv(j, m) /\ CodesKept(k, j)
<1> k \in Table /\ j \in Table /\ Proc \subseteq AllProc /\ RootProc \in AllProc
  BY Zenon DEF TableInv, Steady, AllProc
<1>1. RootStays(j)
  BY Zenon DEF TableInv, RootStays, Steady
<1>2. TidsFresh(j)
  BY Zenon DEF TableInv, TidsFresh, Steady
<1>3. GoneEmpty(j)
  BY Zenon DEF TableInv, GoneEmpty, Steady, Dead
<1>4. Findable(j, m)
  BY Zenon DEF TableInv, Findable, Steady, Dead
<1>5. ListedOnce(j)
  BY DEF TableInv, ListedOnce, Steady, Dead
<1>6. Linked(j, m)
  BY DEF TableInv, Findable, Linked, Steady, Dead
<1>7. MemoryKept(j)
  BY DEF TableInv, MemoryKept, Steady, Dead
<1>8. StopSent(j)
  <2>1. SUFFICES ASSUME NEW p \in Proc, j[p].state = "Stop", NEW t \in Alive(j, p)
                 PROVE  SIGKILL \in j[p].tasks[t].signals \/ t >= j[p].late
    BY Zenon DEF StopSent
  <2>2. k[p].state = "Stop" /\ t \in Alive(k, p) /\ t \in Tid /\ k[p].late = j[p].late
    BY <2>1, Zenon DEF Steady, Alive
  <2>3. QED BY <2>2, Zenon DEF TableInv, StopSent, Steady
<1>9. ContextsKept(j)
  BY Zenon DEF TableInv, ContextsKept, Steady
<1>10. CodesKept(k, j)
  BY Zenon DEF CodesKept, Steady
<1>11. QED BY <1>1, <1>2, <1>3, <1>4, <1>5, <1>6, <1>7, <1>8, <1>9, <1>10, Zenon DEF TableInv

----------------------------------------------------------------------------
(* The calls, one by one.                                                  *)

\* Such a call is steady if it leaves the thread ready and its signals there.
LEMMA CallerSteady ==
  ASSUME NEW k \in Table, NEW j, NEW p \in AllProc, NEW t \in Tid,
         CallerOnly(k, j, p, t),
         k[p].tasks[t].state \in {"Ready", "Blocking"}, j[p].tasks[t].state = "Ready",
         SIGKILL \in k[p].tasks[t].signals => SIGKILL \in j[p].tasks[t].signals,
         KeptThread(k[p].tasks[t]) => KeptThread(j[p].tasks[t])
  PROVE  Steady(k, j) /\ ThreadsKept(k, j, p, t)
<1>1. \A q \in AllProc, i \in Tid : k[q].tasks[i] \in Thread
  BY Zenon DEF Table, ProcessRecord
<1>2. \A q \in AllProc, i \in Tid : ~(q = p /\ i = t) => j[q].tasks[i] = k[q].tasks[i]
  BY Zenon DEF CallerOnly
<1>3. \A q \in AllProc : Alive(j, q) = Alive(k, q)
  BY <1>2, Zenon DEF Alive
<1>4. ThreadsKept(k, j, p, t)
  <2>1. \A q \in AllProc, i \in Tid :
           [k[q].tasks[i] EXCEPT !.signals = k[q].tasks[i].signals] = k[q].tasks[i]
    BY <1>1, Zenon DEF Thread
  <2>2. QED BY <1>2, <2>1 DEF ThreadsKept
<1>5. \A q \in AllProc :
        /\ j[q].state = k[q].state /\ j[q].exit_code = k[q].exit_code
        /\ j[q].parent = k[q].parent /\ j[q].children = k[q].children
        /\ j[q].next_tid = k[q].next_tid /\ j[q].late = k[q].late
        /\ k[q].stacks # {} => j[q].stacks # {}
  BY Zenon DEF CallerOnly
<1>6. j \in Table
  BY Zenon DEF CallerOnly
<1>7. QED BY <1>2, <1>3, <1>4, <1>5, <1>6, Zenon DEF Steady

\* A call that changes nothing.
LEMMA NothingSteady ==
  ASSUME NEW k \in Table, NEW p \in AllProc, NEW t \in Tid, k[p].tasks[t].state = "Ready"
  PROVE  Steady(k, k) /\ ThreadsKept(k, k, p, t)
BY CallerSteady, Zenon DEF CallerOnly

\* A thread that was blocked goes on.
LEMMA UnblockSteady ==
  ASSUME NEW k \in Table, NEW p \in AllProc, NEW t \in Tid, k[p].tasks[t].state = "Blocking"
  PROVE  LET j == [k EXCEPT ![p].tasks[t].state = "Ready"]
         IN  Steady(k, j) /\ ThreadsKept(k, j, p, t) /\ j[p].tasks[t].state = "Ready"
<1> DEFINE th == k[p].tasks[t]
           u == [th EXCEPT !.state = "Ready"]
           j == [k EXCEPT ![p].tasks[t] = u]
<1>1. th \in Thread
  BY Zenon DEF Table, ProcessRecord
<1>2. /\ u \in Thread /\ u.state = "Ready" /\ u.signals = th.signals
      /\ u.handling_sig = th.handling_sig /\ u.trapframe_backup = th.trapframe_backup
      /\ u.mask_backup = th.mask_backup /\ u.nested = th.nested /\ u.outer = th.outer
  BY <1>1, Zenon DEF Thread, ThreadState
<1>3. j = [k EXCEPT ![p].tasks[t].state = "Ready"]
  BY Zenon DEF Table, ProcessRecord
<1> HIDE DEF u
<1>4. OneThread(k, j, p, t) /\ SameProcess(k, j, p) /\ j[p].tasks[t] = u
  BY <1>2, PutThread, Zenon
<1> HIDE DEF j
<1>5. KeptThread(th) => KeptThread(u)
  BY <1>2, ContextSame, Zenon
<1>6. Steady(k, j) /\ ThreadsKept(k, j, p, t)
  BY <1>2, <1>4, <1>5, CallerSteady, Zenon DEF CallerOnly, OneThread, SameProcess
<1>7. QED BY <1>2, <1>3, <1>4, <1>6, Zenon

\* A thread gives itself another mask.
LEMMA MaskSteady ==
  ASSUME NEW k \in Table, NEW p \in AllProc, NEW t \in Tid, k[p].tasks[t].state = "Ready",
         NEW mask \in Mask
  PROVE  LET j == [k EXCEPT ![p].tasks[t].signal_mask = mask]
         IN  Steady(k, j) /\ ThreadsKept(k, j, p, t) /\ j[p].tasks[t].state = "Ready"
<1> DEFINE th == k[p].tasks[t]
           u == [th EXCEPT !.signal_mask = mask]
           j == [k EXCEPT ![p].tasks[t] = u]
<1>1. th \in Thread /\ mask \in SUBSET Sig
  BY ProcAssumption, Zenon DEF Table, ProcessRecord, Sig, MAX_SIG
<1>2. /\ u \in Thread /\ u.state = "Ready" /\ u.signals = th.signals
      /\ u.handling_sig = th.handling_sig /\ u.trapframe_backup = th.trapframe_backup
      /\ u.mask_backup = th.mask_backup /\ u.nested = th.nested /\ u.outer = th.outer
  BY <1>1, Zenon DEF Thread
<1>3. j = [k EXCEPT ![p].tasks[t].signal_mask = mask]
  BY Zenon DEF Table, ProcessRecord
<1> HIDE DEF u
<1>4. OneThread(k, j, p, t) /\ SameProcess(k, j, p) /\ j[p].tasks[t] = u
  BY <1>2, PutThread
<1> HIDE DEF j
<1>5. KeptThread(th) => KeptThread(u)
  BY <1>2, ContextSame, Zenon
<1>6. Steady(k, j) /\ ThreadsKept(k, j, p, t)
  BY <1>2, <1>4, <1>5, CallerSteady, Zenon DEF CallerOnly, OneThread, SameProcess
<1>7. QED BY <1>2, <1>3, <1>4, <1>6, Zenon

\* sigreturn takes the saved context; there is one, with its mask.
LEMMA SigreturnSteady ==
  ASSUME NEW k \in Table, NEW p \in AllProc, NEW t \in Tid, k[p].tasks[t].state = "Ready",
         KeptThread(k[p].tasks[t]), k[p].tasks[t].trapframe_backup # {}
  PROVE  LET th == k[p].tasks[t]
             j  == [k EXCEPT ![p].tasks[t] =
                      [th EXCEPT !.trapframe_backup = {}, !.mask_backup = {},
                                 !.handling_sig = NoSig,
                                 !.signal_mask = CHOOSE m \in th.mask_backup : TRUE,
                                 !.frame = CHOOSE f \in th.trapframe_backup : TRUE,
                                 !.outer = @ \ Saved(th)]]
         IN  Steady(k, j) /\ ThreadsKept(k, j, p, t) /\ j[p].tasks[t].state = "Ready"
<1> DEFINE th == k[p].tasks[t]
           mk == CHOOSE m \in th.mask_backup : TRUE
           fr == CHOOSE f \in th.trapframe_backup : TRUE
           ot == th.outer \ Saved(th)
           u  == [th EXCEPT !.trapframe_backup = {}, !.mask_backup = {}, !.handling_sig = NoSig,
                            !.signal_mask = mk, !.frame = fr, !.outer = ot]
           j  == [k EXCEPT ![p].tasks[t] = u]
<1>1. th \in Thread
  BY Zenon DEF Table, ProcessRecord
<1>2. mk \in SUBSET Sig
  <2>1. th.mask_backup # {} /\ th.mask_backup \subseteq SUBSET Sig
    BY <1>1, Zenon DEF KeptThread, Thread
  <2>2. QED BY <2>1, Zenon
<1>3. fr \in Frame
  <2>1. th.trapframe_backup \subseteq Frame
    BY <1>1, Zenon DEF Thread
  <2>2. QED BY <2>1, Zenon
<1>4. ot \in SUBSET [frame : Frame, mask : SUBSET Sig]
  BY <1>1 DEF Thread
<1>5. ~th.nested => ot = {}
  BY Zenon DEF KeptThread
<1> HIDE DEF mk, fr, ot
<1>6. /\ u \in Thread /\ u.state = "Ready" /\ u.signals = th.signals
      /\ u.handling_sig = NoSig /\ u.trapframe_backup = {}
      /\ u.mask_backup = {} /\ u.nested = th.nested /\ u.outer = ot
  BY <1>1, <1>2, <1>3, <1>4, Zenon DEF Thread, Frame, NoSig, Main
<1> HIDE DEF u
<1>7. KeptThread(u)
  BY <1>5, <1>6 DEF KeptThread, Saved
<1>8. OneThread(k, j, p, t) /\ SameProcess(k, j, p) /\ j[p].tasks[t] = u
  BY <1>6, PutThread
<1> HIDE DEF j
<1>9. Steady(k, j) /\ ThreadsKept(k, j, p, t)
  BY <1>6, <1>7, <1>8, CallerSteady, Zenon DEF CallerOnly, OneThread, SameProcess
<1>10. QED BY <1>6, <1>8, <1>9, Zenon DEF j, u, mk, fr, ot

\* exec replaces the memory of a process, and its only thread starts again.
LEMMA ExecSteady ==
  ASSUME NEW k \in Table, NEW p \in AllProc, NEW t \in Tid, k[p].tasks[t].state = "Ready",
         NEW l, l = [k EXCEPT ![p].stacks = {0}, ![p].tasks[t].frame = Main]
  PROVE  Steady(k, l) /\ ThreadsKept(k, l, p, t) /\ l[p].tasks[t].state = "Ready"
<1> DEFINE th == k[p].tasks[t]
           u == [th EXCEPT !.frame = Main]
           ts == [k[p].tasks EXCEPT ![t] = u]
           r == [k[p] EXCEPT !.stacks = {0}, !.tasks = ts]
           j == [k EXCEPT ![p] = r]
<1>1. k[p] \in ProcessRecord /\ k[p].tasks \in [Tid -> Thread] /\ th \in Thread
  BY Zenon DEF Table, ProcessRecord
<1>2. /\ u \in Thread /\ u.state = "Ready" /\ u.signals = th.signals
      /\ u.handling_sig = th.handling_sig /\ u.trapframe_backup = th.trapframe_backup
      /\ u.mask_backup = th.mask_backup /\ u.nested = th.nested /\ u.outer = th.outer
  BY <1>1, Zenon DEF Thread, Frame
<1>3. j = l
  BY <1>1, Zenon DEF Table, ProcessRecord
<1> HIDE DEF u
<1>4. ts \in [Tid -> Thread] /\ ts[t] = u /\ \A i \in Tid \ {t} : ts[i] = k[p].tasks[i]
  BY <1>1, <1>2, Zenon
<1>5. {0} \in SUBSET Tid
  BY ProcAssumption DEF Tid
<1> HIDE DEF ts
<1>6. /\ r \in ProcessRecord /\ r.tasks = ts /\ r.stacks = {0}
      /\ r.state = k[p].state /\ r.exit_code = k[p].exit_code
      /\ r.parent = k[p].parent /\ r.children = k[p].children
      /\ r.next_tid = k[p].next_tid /\ r.late = k[p].late
  BY <1>1, <1>4, <1>5, Zenon DEF ProcessRecord
<1> HIDE DEF r
<1>7. j \in Table /\ j[p] = r /\ \A q \in AllProc \ {p} : j[q] = k[q]
  BY <1>6, Zenon DEF Table
<1> HIDE DEF j
<1>8. KeptThread(th) => KeptThread(u)
  BY <1>2, ContextSame, Zenon
<1>9. CallerOnly(k, j, p, t) /\ j[p].tasks[t] = u
  BY <1>4, <1>6, <1>7, Zenon DEF CallerOnly
<1>10. Steady(k, j) /\ ThreadsKept(k, j, p, t)
  BY <1>2, <1>8, <1>9, CallerSteady, Zenon
<1>11. QED BY <1>2, <1>3, <1>9, <1>10, Zenon

\* A field of the process that has no part in the invariant.
LEMMA FieldSteady ==
  ASSUME NEW k \in Table, NEW p \in AllProc, NEW t \in Tid, k[p].tasks[t].state = "Ready",
         NEW r \in ProcessRecord, r.tasks = k[p].tasks,
         r.state = k[p].state, r.exit_code = k[p].exit_code,
         r.parent = k[p].parent, r.children = k[p].children,
         r.next_tid = k[p].next_tid, r.late = k[p].late, r.stacks = k[p].stacks
  PROVE  LET j == [k EXCEPT ![p] = r]
         IN  Steady(k, j) /\ ThreadsKept(k, j, p, t) /\ j[p].tasks[t].state = "Ready"
<1> DEFINE j == [k EXCEPT ![p] = r]
<1>1. j \in Table /\ j[p] = r /\ \A q \in AllProc \ {p} : j[q] = k[q]
  BY Zenon DEF Table
<1> HIDE DEF j
<1>2. CallerOnly(k, j, p, t) /\ j[p].tasks[t] = k[p].tasks[t]
  BY <1>1, Zenon DEF CallerOnly
<1>3. Steady(k, j) /\ ThreadsKept(k, j, p, t)
  BY <1>2, CallerSteady, Zenon
<1>4. QED BY <1>2, <1>3, Zenon DEF j

\* A process has other actions.
LEMMA ActionSteady ==
  ASSUME NEW k \in Table, NEW p \in AllProc, NEW t \in Tid, k[p].tasks[t].state = "Ready",
         NEW new \in Actions
  PROVE  LET j == [k EXCEPT ![p].signal_actions = new]
         IN  Steady(k, j) /\ ThreadsKept(k, j, p, t) /\ j[p].tasks[t].state = "Ready"
<1> DEFINE r == [k[p] EXCEPT !.signal_actions = new]
           j == [k EXCEPT ![p] = r]
<1>1. k[p] \in ProcessRecord
  BY Zenon DEF Table
<1>2. /\ r \in ProcessRecord /\ r.tasks = k[p].tasks
      /\ r.state = k[p].state /\ r.exit_code = k[p].exit_code
      /\ r.parent = k[p].parent /\ r.children = k[p].children
      /\ r.next_tid = k[p].next_tid /\ r.late = k[p].late /\ r.stacks = k[p].stacks
  BY <1>1, Zenon DEF ProcessRecord
<1> HIDE DEF r
<1>3. Steady(k, j) /\ ThreadsKept(k, j, p, t) /\ j[p].tasks[t].state = "Ready"
  BY <1>2, FieldSteady
<1>4. QED BY <1>3, Zenon DEF r

\* A call leaves an Arc of its process behind, or none.
LEMMA LeakSteady ==
  ASSUME NEW k \in Table, NEW p \in AllProc, NEW t \in Tid, k[p].tasks[t].state = "Ready",
         NEW b \in BOOLEAN
  PROVE  LET j == [k EXCEPT ![p].leaked = b]
         IN  Steady(k, j) /\ ThreadsKept(k, j, p, t) /\ j[p].tasks[t].state = "Ready"
<1> DEFINE r == [k[p] EXCEPT !.leaked = b]
           j == [k EXCEPT ![p] = r]
<1>1. k[p] \in ProcessRecord
  BY Zenon DEF Table
<1>2. /\ r \in ProcessRecord /\ r.tasks = k[p].tasks
      /\ r.state = k[p].state /\ r.exit_code = k[p].exit_code
      /\ r.parent = k[p].parent /\ r.children = k[p].children
      /\ r.next_tid = k[p].next_tid /\ r.late = k[p].late /\ r.stacks = k[p].stacks
  BY <1>1, Zenon DEF ProcessRecord
<1> HIDE DEF r
<1>3. Steady(k, j) /\ ThreadsKept(k, j, p, t) /\ j[p].tasks[t].state = "Ready"
  BY <1>2, FieldSteady
<1>4. QED BY <1>3, Zenon DEF r

\* A thread that has ended is collected.
LEMMA WaittidSteady ==
  ASSUME NEW k \in Table, NEW p \in AllProc, NEW t \in Tid, k[p].tasks[t].state = "Ready",
         NEW n \in Tid, n # t, k[p].tasks[n].state = "Zombie"
  PROVE  LET j == waittid(k, p, n)
         IN  Steady(k, j) /\ ThreadsKept(k, j, p, t) /\ j[p].tasks[t].state = "Ready"
<1> DEFINE j == [k EXCEPT ![p].tasks[n] = NoThread]
<1>1. OneThread(k, j, p, n) /\ SameProcess(k, j, p) /\ j[p].tasks[n] = NoThread
  BY NewThreads, PutThread
<1>2. waittid(k, p, n) = j
  BY Zenon DEF waittid
<1> HIDE DEF j
<1>3. \A q \in AllProc, i \in Tid : k[q].tasks[i] \in Thread
  BY Zenon DEF Table, ProcessRecord
<1>4. \A q \in AllProc, i \in Tid : ~(q = p /\ i = n) => j[q].tasks[i] = k[q].tasks[i]
  BY <1>1, Zenon DEF OneThread
<1>5. j[p].tasks[n].state = "None"
  BY <1>1 DEF NoThread
<1>6. \A q \in AllProc : Alive(j, q) = Alive(k, q)
  BY <1>4, <1>5, Zenon DEF Alive
<1>7. ThreadsKept(k, j, p, t)
  <2>1. \A q \in AllProc, i \in Tid :
           [k[q].tasks[i] EXCEPT !.signals = k[q].tasks[i].signals] = k[q].tasks[i]
    BY <1>3, Zenon DEF Thread
  <2>2. QED BY <1>4, <2>1 DEF ThreadsKept
<1>8. \A q \in AllProc :
        /\ j[q].state = k[q].state /\ j[q].exit_code = k[q].exit_code
        /\ j[q].parent = k[q].parent /\ j[q].children = k[q].children
        /\ j[q].next_tid = k[q].next_tid /\ j[q].late = k[q].late
        /\ j[q].stacks = k[q].stacks
  BY <1>1, Zenon DEF OneThread, SameProcess
<1>9. \A q \in AllProc, i \in Tid :
        /\ k[q].tasks[i].state = "None" => j[q].tasks[i].state = "None"
        /\ i \in Alive(k, q) => j[q].tasks[i] = k[q].tasks[i]
        /\ KeptThread(k[q].tasks[i]) => KeptThread(j[q].tasks[i])
  BY <1>1, <1>4, <1>5, NewThreads, Zenon DEF Alive
<1>10. Steady(k, j)
  BY <1>1, <1>6, <1>8, <1>9 DEF Steady, OneThread
<1>11. QED BY <1>2, <1>4, <1>7, <1>10, Zenon

\* sys_kill is steady.
LEMMA KillSteady ==
  ASSUME NEW k \in Table, NEW p \in AllProc, NEW t \in Tid, k[p].tasks[t].state = "Ready",
         NEW q \in AllProc, NEW sig \in Sig
  PROVE  LET j == Signalled(k, q, sig)
         IN  Steady(k, j) /\ ThreadsKept(k, j, p, t) /\ j[p].tasks[t].state = "Ready"
<1> DEFINE j == Signalled(k, q, sig)
<1>1. SignalMakes(k, j, q, sig)
  BY SignalledFacts, Zenon
<1>2. \A o \in AllProc, i \in Tid : k[o].tasks[i] \in Thread
  BY Zenon DEF Table, ProcessRecord
<1>3. \A o \in AllProc, i \in Tid :
        LET th == k[o].tasks[i]
            u  == WithSignal(th, sig)
        IN  /\ u.state = th.state
            /\ u.signals = th.signals \union {sig}
            /\ [u EXCEPT !.signals = th.signals] = th
            /\ KeptThread(th) => KeptThread(u)
  BY <1>2, SignalledThread, Zenon
<1> HIDE DEF j
<1>4. \A o \in AllProc, i \in Tid : j[o].tasks[i] \in {k[o].tasks[i], WithSignal(k[o].tasks[i], sig)}
  BY <1>1, Zenon DEF SignalMakes
<1>5. \A o \in AllProc, i \in Tid :
        LET th == k[o].tasks[i]
            u  == j[o].tasks[i]
        IN  /\ u.state = th.state
            /\ SIGKILL \in th.signals => SIGKILL \in u.signals
            /\ KeptThread(th) => KeptThread(u)
  <2>1. SUFFICES ASSUME NEW o \in AllProc, NEW i \in Tid
                 PROVE  /\ j[o].tasks[i].state = k[o].tasks[i].state
                        /\ SIGKILL \in k[o].tasks[i].signals => SIGKILL \in j[o].tasks[i].signals
                        /\ KeptThread(k[o].tasks[i]) => KeptThread(j[o].tasks[i])
    BY Zenon
  <2>2. CASE j[o].tasks[i] = k[o].tasks[i]
    BY <2>2, Zenon
  <2>3. CASE j[o].tasks[i] = WithSignal(k[o].tasks[i], sig)
    <3> DEFINE th == k[o].tasks[i]
               u == j[o].tasks[i]
    <3>1. /\ WithSignal(th, sig).state = th.state
          /\ WithSignal(th, sig).signals = th.signals \union {sig}
          /\ KeptThread(th) => KeptThread(WithSignal(th, sig))
      BY <1>3, Zenon
    <3> HIDE DEF th, u
    <3>2. u = WithSignal(th, sig)
      BY <2>3, Zenon DEF u, th
    <3>3. u.signals = th.signals \union {sig}
      BY <3>1, <3>2, Zenon
    <3>4. QED BY <3>1, <3>2, <3>3, Zenon DEF u, th
  <2>4. QED BY <1>4, <2>2, <2>3, Zenon
<1>6. \A o \in AllProc : Alive(j, o) = Alive(k, o)
  BY <1>5 DEF Alive
<1>7. \A o \in AllProc, i \in Tid :
        [j[o].tasks[i] EXCEPT !.signals = k[o].tasks[i].signals] = k[o].tasks[i]
  <2>1. \A o \in AllProc, i \in Tid :
          [k[o].tasks[i] EXCEPT !.signals = k[o].tasks[i].signals] = k[o].tasks[i]
    BY <1>2, Zenon DEF Thread
  <2>2. QED BY <1>3, <1>4, <2>1
<1>8. ThreadsKept(k, j, p, t)
  BY <1>5, <1>7, Zenon DEF ThreadsKept
<1>9. \A o \in AllProc :
        /\ j[o].state = k[o].state /\ j[o].exit_code = k[o].exit_code
        /\ j[o].parent = k[o].parent /\ j[o].children = k[o].children
        /\ j[o].next_tid = k[o].next_tid /\ j[o].late = k[o].late
        /\ j[o].stacks = k[o].stacks
  BY <1>1 DEF SignalMakes
<1>10. Steady(k, j)
  BY <1>1, <1>5, <1>6, <1>9 DEF SignalMakes, Steady
<1>11. QED BY <1>5, <1>8, <1>10, Zenon DEF j

----------------------------------------------------------------------------
(* The end of a thread and the way back to user mode.                      *)

\* The least element that check_pending_signals and waitpid look for is there.
LEMMA MinIsLeast ==
  ASSUME NEW S, S \subseteq Nat, S # {}
  PROVE  /\ Min(S) \in S
         /\ \A y \in S : Min(S) <= y
<1>1. PICK x \in S : \A y \in S : <<y, x>> \notin OpToRel(<, Nat)
  <2>1. IsWellFoundedOn(OpToRel(<, Nat), Nat)
    BY NatLessThanWellFounded, Zenon
  <2> HIDE DEF OpToRel
  <2>2. QED BY <2>1, WFMin, Zenon
<1>2. \A y \in S : x <= y
  <2>1. SUFFICES ASSUME NEW y \in S PROVE x <= y
    BY Zenon
  <2>2. <<y, x>> \in Nat \X Nat
    BY Zenon
  <2>3. ~ (y < x)
    BY <1>1, <2>2, Zenon DEF OpToRel
  <2>4. QED BY <2>3
<1>3. QED BY <1>2, Zenon DEF Min

\* A process has no thread left exactly when task_count is zero.
LEMMA TaskCountZero ==
  ASSUME NEW k, NEW p
  PROVE  task_count(k, p) # 0 <=> Alive(k, p) # {}
<1>1. IsFiniteSet(Tid)
  BY FS_Interval, ProcAssumption DEF Tid
<1>2. Alive(k, p) \in SUBSET Tid
  BY Zenon DEF Alive
<1>3. IsFiniteSet(Alive(k, p))
  BY <1>1, <1>2, FS_Subset, Zenon
<1>4. QED BY <1>3, FS_EmptySet, Zenon DEF task_count

\* SIGSTOP and SIGCONT are taken off the set, SIGKILL is not.
LEMMA KernelHandler ==
  ASSUME NEW th \in Thread, NEW s \in Sig
  PROVE  LET u == kernel_signal_handler(th, s)
         IN  /\ u \in Thread
             /\ u.state = th.state
             /\ SIGKILL \in th.signals => SIGKILL \in u.signals
             /\ KeptThread(th) => KeptThread(u)
<1> DEFINE u == kernel_signal_handler(th, s)
<1>1. u \in Thread
  BY Zenon DEF kernel_signal_handler, Thread
<1>2. u.state = th.state /\ (SIGKILL \in th.signals => SIGKILL \in u.signals)
  BY DEF kernel_signal_handler, Thread, SIGKILL, SIGSTOP, SIGCONT
<1>3. /\ u.handling_sig = th.handling_sig /\ u.trapframe_backup = th.trapframe_backup
      /\ u.mask_backup = th.mask_backup /\ u.nested = th.nested /\ u.outer = th.outer
  BY Zenon DEF kernel_signal_handler, Thread
<1> HIDE DEF u
<1>4. KeptThread(th) => KeptThread(u)
  BY <1>3, ContextSame, Zenon
<1>5. QED BY <1>1, <1>2, <1>4, Zenon DEF u

\* A handler saves the context that it interrupts; it starts inside another one
\* only if the action of that one asks for it.
LEMMA UserHandler ==
  ASSUME NEW th \in Thread, NEW s \in Sig \ KERNEL_SIGNAL, NEW inner,
         NEW act \in [handler : BOOLEAN, mask : SUBSET Sig],
         th.handling_sig = NoSig \/ s \in inner
  PROVE  LET u == user_signal_handler(th, s, act, inner)
         IN  /\ u \in Thread
             /\ u.state = th.state
             /\ SIGKILL \in th.signals => SIGKILL \in u.signals
             /\ KeptThread(th) => KeptThread(u)
<1>1. CASE ~act.handler
  BY <1>1, Zenon DEF user_signal_handler
<1>2. CASE act.handler
  <2> DEFINE u == user_signal_handler(th, s, act, inner)
             ctx == [frame |-> th.frame, mask |-> th.signal_mask]
             out == IF th.nested \/ s \in inner THEN {} ELSE th.outer \union {ctx}
  <2>1. u = [th EXCEPT !.mask_backup = {th.signal_mask}, !.signal_mask = act.mask,
                       !.handling_sig = s, !.signals = th.signals \ {s},
                       !.trapframe_backup = {th.frame}, !.frame = s,
                       !.nested = th.nested \/ s \in inner, !.outer = out]
    BY <1>2, Zenon DEF user_signal_handler
  <2>2. ctx \in [frame : Frame, mask : SUBSET Sig]
    BY Zenon DEF Thread
  <2> HIDE DEF ctx
  <2>3. out \in SUBSET [frame : Frame, mask : SUBSET Sig]
    BY <2>2, Zenon DEF Thread
  <2> HIDE DEF u, out
  <2>4. u \in Thread
    <3>1. s \in Frame
      BY Zenon DEF Frame
    <3>2. QED BY <2>1, <2>3, <3>1, Zenon DEF Thread
  <2>5. u.state = th.state /\ (SIGKILL \in th.signals => SIGKILL \in u.signals)
    BY <2>1, Zenon DEF Thread, KERNEL_SIGNAL
  <2>6. /\ u.handling_sig = s /\ u.trapframe_backup = {th.frame}
        /\ u.mask_backup = {th.signal_mask} /\ u.outer = out
        /\ u.nested = (th.nested \/ s \in inner)
    BY <2>1, Zenon DEF Thread
  <2>7. s # NoSig
    BY DEF Sig, NoSig
  <2>8. ASSUME KeptThread(th), ~u.nested PROVE u.outer = Saved(u)
    <3>1. ~th.nested /\ s \notin inner /\ th.handling_sig = NoSig
      BY <2>6, <2>8, Zenon
    <3>2. th.outer = {}
      BY <2>8, <3>1 DEF KeptThread, Saved
    <3>3. u.outer = {ctx}
      BY <2>6, <3>1, <3>2, Zenon DEF out
    <3>4. Saved(u) = {ctx}
      BY <2>6 DEF Saved, ctx
    <3>5. QED BY <3>3, <3>4, Zenon
  <2>9. KeptThread(th) => KeptThread(u)
    BY <2>6, <2>7, <2>8, Zenon DEF KeptThread
  <2>10. QED BY <2>4, <2>5, <2>9, Zenon DEF u
<1>3. QED BY <1>1, <1>2, Zenon

\* Process::task_exit changes the process only, and only when it has no thread
\* left.
LEMMA TaskExit ==
  ASSUME NEW k \in Table, NEW p \in AllProc, NEW code \in Int
  PROVE  LET j == task_exit(k, p, code)
         IN  /\ j \in Table
             /\ \A q \in AllProc \ {p} : j[q] = k[q]
             /\ j[p].tasks = k[p].tasks
             /\ j[p].parent = k[p].parent /\ j[p].children = k[p].children
             /\ j[p].next_tid = k[p].next_tid /\ j[p].late = k[p].late
             /\ j[p].signal_actions = k[p].signal_actions /\ j[p].leaked = k[p].leaked
             /\ \/ SameProcess(k, j, p) /\ Alive(k, p) # {}
                \/ j[p].state = "Zombie" /\ j[p].stacks = {} /\ Alive(k, p) = {}
<1> DEFINE j == task_exit(k, p, code)
<1>1. CASE task_count(k, p) # 0
  <2>1. j = k
    BY <1>1, Zenon DEF task_exit
  <2>2. QED BY <1>1, <2>1, TaskCountZero, Zenon DEF SameProcess
<1>2. CASE task_count(k, p) = 0
  <2>1. PICK e \in Int : j = [k EXCEPT ![p].exit_code = e, ![p].state = "Zombie",
                                       ![p].stacks = {}]
    <3>1. k[p].exit_code \in Int
      BY Zenon DEF Table, ProcessRecord
    <3>2. QED BY <1>2, <3>1, Zenon DEF task_exit
  <2>2. j[p] = [k[p] EXCEPT !.exit_code = e, !.state = "Zombie", !.stacks = {}]
    BY <2>1, Zenon DEF Table
  <2>3. k[p] \in ProcessRecord
    BY Zenon DEF Table
  <2>4. j[p] \in ProcessRecord
    BY <2>2, <2>3, Zenon DEF ProcessRecord, ProcessState
  <2>5. j \in Table /\ \A q \in AllProc \ {p} : j[q] = k[q]
    BY <2>1, <2>2, <2>4, Zenon DEF Table
  <2> HIDE DEF j
  <2>6. /\ j[p].tasks = k[p].tasks
        /\ j[p].parent = k[p].parent /\ j[p].children = k[p].children
        /\ j[p].next_tid = k[p].next_tid /\ j[p].late = k[p].late
        /\ j[p].signal_actions = k[p].signal_actions /\ j[p].leaked = k[p].leaked
        /\ j[p].state = "Zombie" /\ j[p].stacks = {}
    BY <2>2, <2>3, Zenon DEF ProcessRecord
  <2>7. QED BY <1>2, <2>5, <2>6, TaskCountZero, Zenon DEF j
<1>3. QED BY <1>1, <1>2, Zenon

\* CurrentTask::exit ends the thread, and the process with its last thread.
LEMMA ExitLeaves ==
  ASSUME NEW k \in Table, NEW p \in AllProc, NEW t \in Tid, NEW code \in Int
  PROVE  Leaves(k, exit(k, p, t, code), p, t)
<1> DEFINE u == [k[p].tasks[t] EXCEPT !.state = "Zombie", !.exit_code = code]
           c == [k EXCEPT ![p].tasks[t] = u]
           j == task_exit(c, p, code)
<1>1. k[p].tasks[t] \in Thread
  BY Zenon DEF Table, ProcessRecord
<1>2. /\ u \in Thread /\ u.state = "Zombie" /\ u.signals = k[p].tasks[t].signals
      /\ u.handling_sig = k[p].tasks[t].handling_sig
      /\ u.trapframe_backup = k[p].tasks[t].trapframe_backup
      /\ u.mask_backup = k[p].tasks[t].mask_backup
      /\ u.nested = k[p].tasks[t].nested /\ u.outer = k[p].tasks[t].outer
  BY <1>1, Zenon DEF Thread, ThreadState
<1>3. exit(k, p, t, code) = j
  <2>1. k[p].tasks \in [Tid -> Thread] /\ k[p] \in ProcessRecord
    BY Zenon DEF Table, ProcessRecord
  <2>2. c = [k EXCEPT ![p].tasks[t].state = "Zombie", ![p].tasks[t].exit_code = code]
    BY <2>1, Zenon DEF Table, ProcessRecord
  <2>3. QED BY <2>2, Zenon DEF exit
<1> HIDE DEF u
<1>4. /\ OneThread(k, c, p, t) /\ SameProcess(k, c, p) /\ c[p].tasks[t] = u
  BY <1>2, PutThread
<1> HIDE DEF c
<1>5. /\ j \in Table
      /\ \A q \in AllProc \ {p} : j[q] = c[q]
      /\ j[p].tasks = c[p].tasks
      /\ j[p].parent = c[p].parent /\ j[p].children = c[p].children
      /\ j[p].next_tid = c[p].next_tid /\ j[p].late = c[p].late
      /\ j[p].signal_actions = c[p].signal_actions /\ j[p].leaked = c[p].leaked
      /\ \/ SameProcess(c, j, p) /\ Alive(c, p) # {}
         \/ j[p].state = "Zombie" /\ j[p].stacks = {} /\ Alive(c, p) = {}
  BY <1>4, TaskExit, Zenon DEF OneThread
<1> HIDE DEF j
<1>6. OneThread(k, j, p, t)
  BY <1>4, <1>5, Zenon DEF OneThread
<1>7. KeptThread(k[p].tasks[t]) => KeptThread(j[p].tasks[t])
  BY <1>2, <1>4, <1>5, ContextSame
<1>8. Alive(j, p) = Alive(c, p)
  BY <1>5, Zenon DEF Alive
<1>9. QED BY <1>2, <1>3, <1>4, <1>5, <1>6, <1>7, <1>8 DEF Leaves, SameProcess

\* check_pending_signals changes the thread only, and leaves SIGKILL in its set.
LEMMA CheckPending ==
  ASSUME NEW k \in Table, NEW p \in AllProc, NEW t \in Tid
  PROVE  LET c == check_pending_signals(k, p, t)
         IN  /\ OneThread(k, c, p, t)
             /\ SameProcess(k, c, p)
             /\ c[p].tasks[t].state = k[p].tasks[t].state
             /\ SIGKILL \in k[p].tasks[t].signals => SIGKILL \in c[p].tasks[t].signals
             /\ KeptThread(k[p].tasks[t]) => KeptThread(c[p].tasks[t])
<1> DEFINE th == k[p].tasks[t]
           pending == Pending(k, p, t)
           s == Min(pending)
           c == check_pending_signals(k, p, t)
<1>1. th \in Thread
  BY Zenon DEF Table, ProcessRecord
<1>2. CASE pending = {}
  <2>1. c = k
    BY <1>2, Zenon DEF check_pending_signals
  <2>2. QED BY <2>1, Zenon DEF OneThread, SameProcess
<1>3. CASE pending # {}
  <2>1. pending \subseteq Sig
    BY <1>1, Zenon DEF Pending, Thread
  <2>2. s \in pending
    BY <1>3, <2>1, MinIsLeast DEF Sig
  <2> HIDE DEF s
  <2>3. s \in Sig /\ (th.handling_sig = NoSig \/ s \in Inner(k, p, t))
    BY <2>1, <2>2, Zenon DEF Pending
  <2>4. action(k, p, s) \in [handler : BOOLEAN, mask : SUBSET Sig]
    <3>1. k[p].signal_actions \in Actions
      BY Zenon DEF Table, ProcessRecord
    <3>2. PICK S \in SUBSET Handled :
             k[p].signal_actions \in [S -> [handler : BOOLEAN, mask : SUBSET Sig]]
      BY <3>1, Zenon DEF Actions
    <3>3. DefaultAction \in [handler : BOOLEAN, mask : SUBSET Sig]
      BY DEF DefaultAction, Sig, MAX_SIG
    <3>4. QED BY <3>2, <3>3, Zenon DEF action
  <2> DEFINE u == IF s \in KERNEL_SIGNAL THEN kernel_signal_handler(th, s)
                  ELSE user_signal_handler(th, s, action(k, p, s), Inner(k, p, t))
  <2>5. c = [k EXCEPT ![p].tasks[t] = u]
    BY <1>3, Zenon DEF check_pending_signals, s
  <2> HIDE DEF th, pending, c
  <2>6. /\ u \in Thread
        /\ u.state = th.state
        /\ SIGKILL \in th.signals => SIGKILL \in u.signals
        /\ KeptThread(th) => KeptThread(u)
    <3>1. CASE s \in KERNEL_SIGNAL
      BY <1>1, <2>3, <3>1, KernelHandler, Zenon
    <3>2. CASE s \notin KERNEL_SIGNAL
      BY <1>1, <2>3, <2>4, <3>2, UserHandler, Zenon
    <3>3. QED BY <3>1, <3>2, Zenon
  <2> HIDE DEF u
  <2> DEFINE d == [k EXCEPT ![p].tasks[t] = u]
  <2>7. OneThread(k, d, p, t) /\ SameProcess(k, d, p) /\ d[p].tasks[t] = u
    BY <2>6, PutThread
  <2> HIDE DEF d
  <2>8. c = d
    BY <2>5, Zenon DEF d
  <2>9. QED BY <2>6, <2>7, <2>8, Zenon DEF th, c
<1>4. QED BY <1>2, <1>3, Zenon

\* On its way back to user mode a thread goes on, blocks or ends; with SIGKILL in
\* its set it does not go on.
LEMMA ReturnedLeaves ==
  ASSUME NEW k \in Table, NEW p \in AllProc, NEW t \in Tid,
         k[p].tasks[t].state = "Ready"
  PROVE  Leaves(k, Returned(k, p, t), p, t)
<1> DEFINE c == check_pending_signals(k, p, t)
           th == c[p].tasks[t]
           j == Returned(k, p, t)
<1>1. /\ OneThread(k, c, p, t)
      /\ SameProcess(k, c, p)
      /\ th.state = "Ready"
      /\ SIGKILL \in k[p].tasks[t].signals => SIGKILL \in th.signals
      /\ KeptThread(k[p].tasks[t]) => KeptThread(th)
  BY CheckPending, Zenon
<1>2. /\ c \in Table
      /\ j = IF th.frozen /\ ~th.killed THEN [c EXCEPT ![p].tasks[t].state = "Blocking"]
             ELSE IF th.signals \intersect Fatal = {} THEN c
             ELSE exit(c, p, t, check_error(th.signals))
  BY <1>1, Zenon DEF Returned, OneThread
<1> HIDE DEF c, j
<1>3. th \in Thread
  BY <1>2, Zenon DEF Table, ProcessRecord
<1>4. CASE th.frozen /\ ~th.killed
  <2> DEFINE u == [th EXCEPT !.state = "Blocking"]
  <2>1. /\ u \in Thread /\ u.state = "Blocking" /\ u.signals = th.signals
        /\ u.handling_sig = th.handling_sig /\ u.trapframe_backup = th.trapframe_backup
        /\ u.mask_backup = th.mask_backup /\ u.nested = th.nested /\ u.outer = th.outer
    BY <1>3, Zenon DEF Thread, ThreadState
  <2> DEFINE d == [c EXCEPT ![p].tasks[t] = u]
  <2>2. j = d
    BY <1>2, <1>4, Zenon DEF Table, ProcessRecord
  <2> HIDE DEF u
  <2>3. OneThread(c, d, p, t) /\ SameProcess(c, d, p) /\ d[p].tasks[t] = u
    BY <1>2, <2>1, PutThread
  <2> HIDE DEF d
  <2>4. KeptThread(th) => KeptThread(u)
    BY <2>1, ContextSame, Zenon
  <2>5. OneThread(k, j, p, t) /\ SameProcess(k, j, p)
    BY <1>1, <2>2, <2>3 DEF OneThread, SameProcess
  <2>6. Alive(j, p) # {}
    BY <2>1, <2>2, <2>3, Zenon DEF Alive
  <2>7. QED BY <1>1, <2>1, <2>2, <2>3, <2>4, <2>5, <2>6 DEF Leaves, j
<1>5. CASE ~(th.frozen /\ ~th.killed) /\ th.signals \intersect Fatal = {}
  <2>1. j = c
    BY <1>2, <1>5, Zenon
  <2>2. Alive(c, p) # {}
    BY <1>1, Zenon DEF Alive
  <2>3. SIGKILL \notin th.signals
    BY <1>5, Zenon DEF SIGKILL, Fatal
  <2>4. QED BY <1>1, <2>1, <2>2, <2>3, Zenon DEF Leaves, j
<1>6. CASE ~(th.frozen /\ ~th.killed) /\ th.signals \intersect Fatal # {}
  <2>1. check_error(th.signals) \in Int
    <3>1. Min(th.signals \intersect Fatal) \in th.signals \intersect Fatal
      BY <1>6, MinIsLeast DEF Fatal
    <3>2. Min(th.signals \intersect Fatal) \in Int
      BY <3>1 DEF Fatal
    <3>3. QED BY <3>2 DEF check_error
  <2>2. Leaves(c, j, p, t)
    <3> DEFINE code == check_error(th.signals)
    <3>1. j = exit(c, p, t, code)
      BY <1>2, <1>6, Zenon
    <3> HIDE DEF code
    <3>2. QED BY <1>2, <2>1, <3>1, ExitLeaves, Zenon DEF code
  <2>3. OneThread(k, j, p, t)
    BY <1>1, <2>2 DEF OneThread, Leaves
  <2>4. QED BY <1>1, <2>2, <2>3 DEF Leaves, SameProcess, j
<1>7. QED BY <1>4, <1>5, <1>6, Zenon

\* What a call does last keeps the invariant, too.
LEMMA LeavesKeeps ==
  ASSUME NEW k, NEW m, NEW j, NEW p \in Proc, NEW t \in Tid,
         TableInv(k, m), k[p].tasks[t].state = "Ready", Leaves(k, j, p, t)
  PROVE  TableInv(j, m) /\ CodesKept(k, j)
<1> k \in Table /\ j \in Table /\ Proc \subseteq AllProc /\ RootProc \in AllProc /\ p # RootProc
  BY ProcAssumption, Zenon DEF TableInv, Leaves, OneThread, AllProc
<1> /\ \A q \in AllProc \ {p} : j[q] = k[q] /\ Alive(j, q) = Alive(k, q)
    /\ \A i \in Tid \ {t} : j[p].tasks[i] = k[p].tasks[i]
    /\ j[p].parent = k[p].parent /\ j[p].children = k[p].children
    /\ j[p].next_tid = k[p].next_tid /\ j[p].late = k[p].late
  BY Zenon DEF Leaves, OneThread, Alive
<1>2. t \in Alive(k, p)
  BY Zenon DEF Alive
<1>3. ~Dead(k, p) /\ ~Dead(j, p) /\ k[p].state # "Zombie"
  <2>1. ~Dead(k, p) /\ k[p].state # "Zombie"
    BY <1>2, Zenon DEF TableInv, GoneEmpty, MemoryKept
  <2>2. QED BY <2>1, Zenon DEF Dead, Leaves, SameProcess
<1>4. \A q \in AllProc : /\ Dead(j, q) <=> Dead(k, q)
                         /\ j[q].parent = k[q].parent /\ j[q].children = k[q].children
                         /\ j[q].state = "Reaped" <=> k[q].state = "Reaped"
  BY <1>3, Zenon DEF Dead
<1>5. RootStays(j)
  BY Zenon DEF TableInv, RootStays
<1>6. TidsFresh(j)
  <2>1. ASSUME NEW i \in Tid, i >= k[p].next_tid PROVE j[p].tasks[i].state = "None"
    <3>1. k[p].tasks[i].state = "None"
      BY <2>1, Zenon DEF TableInv, TidsFresh
    <3>2. QED BY <3>1, Zenon
  <2>2. QED BY <2>1 DEF TableInv, TidsFresh
<1>7. GoneEmpty(j)
  BY <1>3, <1>4, Zenon DEF TableInv, GoneEmpty
<1>8. Findable(j, m)
  BY <1>4, Zenon DEF TableInv, Findable
<1>9. ListedOnce(j)
  BY <1>4, Zenon DEF TableInv, ListedOnce
<1>10. Linked(j, m)
  BY <1>4 DEF TableInv, Findable, Linked
<1>11. MemoryKept(j)
  <2>1. /\ j[p].state = "Zombie" <=> Alive(j, p) = {}
        /\ j[p].state # "Zombie" => j[p].stacks # {}
    BY <1>3, Zenon DEF TableInv, MemoryKept, Leaves, SameProcess
  <2>2. QED BY <1>4, <2>1 DEF TableInv, MemoryKept
<1>12. StopSent(j)
  <2>1. SUFFICES ASSUME NEW q \in Proc, j[q].state = "Stop", NEW i \in Alive(j, q)
                 PROVE  SIGKILL \in j[q].tasks[i].signals \/ i >= j[q].late
    BY Zenon DEF StopSent
  <2>2. CASE q # p
    BY <2>1, <2>2, Zenon DEF TableInv, StopSent
  <2>3. CASE q = p
    <3>1. k[p].state = "Stop"
      BY <2>1, <2>3, Zenon DEF Leaves, SameProcess
    <3>2. i \in Tid /\ i \in Alive(k, p)
      BY <1>2, <2>1, <2>3, Zenon DEF Alive
    <3>3. SIGKILL \in k[p].tasks[i].signals \/ i >= k[p].late
      BY <3>1, <3>2, Zenon DEF TableInv, StopSent
    <3>4. QED BY <2>3, <3>2, <3>3, Zenon DEF Leaves
  <2>4. QED BY <2>2, <2>3, Zenon
<1>13. ContextsKept(j)
  <2>1. ContextsKept(k)
    BY Zenon DEF TableInv
  <2>2. OneThread(k, j, p, t) /\ (KeptThread(k[p].tasks[t]) => KeptThread(j[p].tasks[t]))
    BY Zenon DEF Leaves
  <2>3. \A q \in Proc, i \in Tid : q # p \/ i # t => j[q].tasks[i] = k[q].tasks[i]
    BY <2>2, Zenon DEF OneThread
  <2>4. QED BY <2>1, <2>2, <2>3, Zenon DEF ContextsKept
<1>14. CodesKept(k, j)
  BY <1>3, Zenon DEF CodesKept
<1>15. QED
  BY <1>5, <1>6, <1>7, <1>8, <1>9, <1>10, <1>11, <1>12, <1>13, <1>14, Zenon DEF TableInv
============================================================================
