------------------------------- MODULE Memory -------------------------------
(***************************************************************************)
(* Address spaces of processes, from the frames of physical memory to the  *)
(* translations that the processor holds: what fork, exec, thread_create   *)
(* and exit do to them (task/structs.rs), how system calls reach them      *)
(* (mm/uaccess.rs), and the switch of TTBR0 between tasks (task/switch.rs, *)
(* arch/aarch64/mod.rs).                                                   *)
(*                                                                         *)
(* These calls run with interrupts off, so each is one step; user code is  *)
(* preempted between any two accesses.  The processor remembers            *)
(* translations until it is told to forget them; the last one that it used *)
(* stands for all.                                                         *)
(***************************************************************************)
EXTENDS MemorySet, FiniteSets

CONSTANTS Proc,        \* processes that there can be
          First,       \* the process that the kernel starts with
          None,        \* no process, no memory set
          Programs,    \* programs: sequences of segments
          Sections,    \* of the kernel
          Page, Value, \* what user code touches and stores
          MaxTid,      \* bound on the threads of a process
          MaxExec      \* bound on the calls of exec

VARIABLES m,         \* physical memory and its allocator
          kernel,    \* KERNEL_SPACE
          vm,        \* per process: None, or its memory set [pt, areas]
          ttbr,      \* per process: the TTBR0 in the contexts of its live threads, by tid
          tids,      \* per process: the next tid, None before the process is made
          current,   \* the process that runs, None for a kernel task
          ttbr0,     \* the register
          tlb,       \* a translation <<page, descriptor>> that is remembered, or <<>>
          execs,     \* bounds the calls of exec
          ret        \* what the last access gave

vars == <<m, kernel, vm, ttbr, tids, current, ttbr0, tlb, execs, ret>>

up == m.status = "ok"

Set(ms)    == [pt |-> ms.pt, areas |-> ms.areas]
SetOf(p)   == [m |-> m, pt |-> vm[p].pt, areas |-> vm[p].areas]

\* What the kernel starts.
initproc == CHOOSE program \in Programs : TRUE

\* mm::init, and Process::new_user for the first process.
Started(k, ms) ==
  /\ m = ms.m
  /\ kernel = Set(k)
  /\ vm = [p \in Proc |-> IF p = First THEN Set(ms) ELSE None]
  /\ ttbr = [p \in Proc |-> IF p = First THEN {<<0, ms.pt.root>>} ELSE {}]
  /\ tids = [p \in Proc |-> IF p = First THEN 1 ELSE 0]
  /\ current = First
  /\ ttbr0 = ms.pt.root
  /\ tlb = <<>>
  /\ execs = 0
  /\ ret = <<>>

Booted(k) == Started(k, load_user(new_set(k.m), initproc))

Init == Booted(init_paging(NewMemory, Sections))

----------------------------------------------------------------------------
(* The processor.                                                          *)

\* Mutant: what was remembered stays.
flush_tlb_all_None == UNCHANGED tlb

flush_tlb_all == tlb' = <<>>

activate_paging(root) == ttbr0' = root /\ flush_tlb_all

\* TaskContext::switch_to: some live thread t of the threads given, or a kernel task.
switch_to(live) ==
  \/ current' = None /\ activate_paging(NoFrame)
  \/ \E p \in Proc : \E t \in live[p] : current' = p /\ activate_paging(t[2])

Translate(mem, va) ==
  IF tlb # <<>> /\ tlb[1] = va THEN tlb[2]
  ELSE IF ttbr0 = NoFrame THEN <<>> ELSE Descriptor(mem, ttbr0, va)

\* What a descriptor lets user code do.
Permits(e, kind) ==
  /\ e # <<>> /\ {"VALID", "AF", "AP_EL0"} \subseteq e[2]
  /\ kind = "write" => "AP_RO" \notin e[2]
  /\ kind = "fetch" => "UXN" \notin e[2]

\* An access to a page whose descriptor is e.
Read(va, e) ==
  /\ ret' = <<"word", m.mem[e[1]][0]>>
  /\ tlb' = <<va, e>>
  /\ UNCHANGED <<m, kernel, vm, ttbr, tids, current, ttbr0, execs>>

Write(va, e, v) ==
  /\ m' = [m EXCEPT !.mem[e[1]][0] = v]
  /\ ret' = <<>>
  /\ tlb' = <<va, e>>
  /\ UNCHANGED <<kernel, vm, ttbr, tids, current, ttbr0, execs>>

load(va, kind) ==
  /\ up /\ current # None
  /\ Permits(Translate(m.mem, va), kind)
  /\ Read(va, Translate(m.mem, va))

store(va, v) ==
  /\ up /\ current # None
  /\ Permits(Translate(m.mem, va), "write")
  /\ Write(va, Translate(m.mem, va), v)

----------------------------------------------------------------------------
(* Calls, and the timer.                                                   *)

\* A panic leaves memory as it is.
Panic(n) ==
  /\ n.status # "ok"
  /\ m' = [m EXCEPT !.status = n.status]
  /\ UNCHANGED <<kernel, vm, ttbr, tids, current, ttbr0, tlb, execs, ret>>

yield_now ==
  /\ up
  /\ switch_to(ttbr)
  /\ ret' = <<>>
  /\ UNCHANGED <<m, kernel, vm, ttbr, tids, execs>>

\* Process p has the memory set ms, and in it a new thread tid; its context gets
\* the root that the process has.
AddTask(p, tid, ms) ==
  \/ Panic(ms.m)
  \/ /\ ms.m.status = "ok"
     /\ m' = ms.m
     /\ vm' = [vm EXCEPT ![p] = Set(ms)]
     /\ ttbr' = [ttbr EXCEPT ![p] = @ \union {<<tid, ms.pt.root>>}]
     /\ tids' = [tids EXCEPT ![p] = tid + 1]
     /\ ret' = <<>>
     /\ UNCHANGED <<kernel, current, ttbr0, tlb, execs>>

\* Process::new_fork, for a pid that was not used.
new_fork(c) ==
  /\ up /\ current # None /\ tids[c] = 0
  /\ AddTask(c, 0, clone(SetOf(current)))

user_stack(tid) ==
  USER_STACK_TOP - tid * (USER_STACK_SIZE + 1) - USER_STACK_SIZE

\* Process::new_user_task.
new_user_task ==
  /\ up /\ current # None /\ tids[current] <= MaxTid
  /\ AddTask(current, tids[current], AddStack(SetOf(current), user_stack(tids[current])))

\* The program is in place; its argument, if any, is pushed through the user's
\* own address.
Pushed(n, root, arg) ==
  IF arg = {} THEN n
  ELSE [n EXCEPT !.mem[Descriptor(n.mem, root, USER_STACK_TOP - 1)[1]][0] = CHOOSE v \in arg : TRUE]

Loaded(ms, arg) ==
  \/ Panic(ms.m)
  \/ /\ ms.m.status = "ok"
     /\ m' = Pushed(ms.m, ttbr0, arg)
     /\ vm' = [vm EXCEPT ![current] = Set(ms)]
     /\ flush_tlb_all
     /\ execs' = execs + 1
     /\ ret' = <<>>
     /\ UNCHANGED <<kernel, ttbr, tids, current, ttbr0>>

\* Process::exec.  The memory set made for get_or_insert is dropped at once.
exec(program, arg) ==
  /\ up /\ current # None /\ execs < MaxExec
  /\ \/ Cardinality(ttbr[current]) # 1 /\ Panic(panic(m, "task_count"))
     \/ /\ Cardinality(ttbr[current]) = 1
        /\ Loaded(load_user(clear([SetOf(current) EXCEPT !.m = drop_set(new_set(m))]),
                            program), arg)

\* Task::exit and Process::task_exit: the last thread drops the memory set that
\* it runs on; nothing but the switch follows.
exit(out) ==
  \E t \in ttbr[current] :
    LET rest == ttbr[current] \ {t}
    IN  /\ m' = IF rest = {} THEN drop_set(SetOf(current)) ELSE m
        /\ vm' = [vm EXCEPT ![current] = IF rest = {} THEN None ELSE @]
        /\ ttbr' = [ttbr EXCEPT ![current] = rest]
        /\ switch_to(ttbr')
        /\ ret' = out
        /\ UNCHANGED <<kernel, tids, execs>>

sys_exit == up /\ current # None /\ exit(<<>>)

\* handle_sync_exception, after an access that the tables do not permit.
abort ==
  /\ up /\ current # None
  /\ {va \in Page : \E kind \in {"read", "write", "fetch"} :
                     ~Permits(Translate(m.mem, va), kind)} # {}
  /\ exit(<<"fault">>)

\* System calls reach the memory of the caller through its own addresses; a
\* pointer is the first byte of a page.
USER_ASPACE_END == ENTRY_COUNT ^ LEVELS

uaccess_ok(va) == va # 0 /\ va <= USER_ASPACE_END - 1

\* What a descriptor lets the kernel do.
KernelPermits(e, kind) ==
  /\ is_present(e) /\ "AF" \in e[2]
  /\ kind = "write" => "AP_RO" \notin e[2]

\* What comes of a pointer that is not good: a panic, or the end of the thread
\* in the middle of its call.
BadPointer(va, kind) ==
  \/ ~uaccess_ok(va) /\ Panic(panic(m, "uaccess"))
  \/ uaccess_ok(va) /\ ~KernelPermits(Translate(m.mem, va), kind) /\ exit(<<"fault">>)

copy_from_user(va) ==
  /\ up /\ current # None
  /\ \/ BadPointer(va, "read")
     \/ /\ uaccess_ok(va) /\ KernelPermits(Translate(m.mem, va), "read")
        /\ Read(va, Translate(m.mem, va))

copy_to_user(va, v) ==
  /\ up /\ current # None
  /\ \/ BadPointer(va, "write")
     \/ /\ uaccess_ok(va) /\ KernelPermits(Translate(m.mem, va), "write")
        /\ Write(va, Translate(m.mem, va), v)

Next ==
  \/ \E va \in Page :
       \/ \E kind \in {"read", "fetch"} : load(va, kind)
       \/ \E v \in Value : store(va, v)
  \/ yield_now
  \/ \E c \in Proc : new_fork(c)
  \/ new_user_task
  \/ \E program \in Programs, arg \in {{}} \union {{v} : v \in Value} : exec(program, arg)
  \/ sys_exit
  \/ abort
  \/ \E va \in Page \union {0, USER_ASPACE_END} :
       copy_from_user(va) \/ \E v \in Value : copy_to_user(va, v)

Spec == Init /\ [][Next]_vars

----------------------------------------------------------------------------
(* Properties.                                                             *)

\* What the tables below root map: pairs <<page, descriptor>>.
Mapped(mem, root) ==
  LET Below(ts, l) == UNION {{<<mem[t[1]][i][1], t[2] * ENTRY_COUNT + i>> :
                                i \in {j \in DOMAIN mem[t[1]] : mem[t[1]][j] # <<>>}} : t \in ts}
      Leaves == FoldLeft(Below, {<<root, 0>>}, Down)
  IN  UNION {{<<t[2] * ENTRY_COUNT + i, mem[t[1]][i]>> :
                i \in {j \in DOMAIN mem[t[1]] : mem[t[1]][j] # <<>>}} : t \in Leaves}

\* What the areas of a process hold.
SpaceOf(p) ==
  IF vm[p] = None THEN None
  ELSE LET areas == ToSet(vm[p].areas)
           In(va) == CHOOSE a \in areas : va \in Pages(a)
       IN  [va \in UNION {Pages(a) : a \in areas} |->
              [word |-> m.mem[In(va).mapper[va]][0], flags |-> In(va).flags]]

\* What a program's memory is like when it starts.
StackPages(tid) == user_stack(tid) .. user_stack(tid) + USER_STACK_SIZE - 1

Image(program) ==
  LET segs == ToSet(program)
      In(va) == CHOOSE seg \in segs : va \in Pages(seg)
  IN  [va \in UNION {Pages(seg) : seg \in segs} \union StackPages(0) |->
         IF va \in StackPages(0) THEN [word |-> <<>>, flags |-> {"READ", "WRITE", "USER"}]
         ELSE [word  |-> LET i == va - In(va).start + 1
                         IN  IF i <= Len(In(va).data) THEN In(va).data[i] ELSE <<>>,
               flags |-> In(va).flags \union {"USER"}]]

Abstract == INSTANCE Spaces WITH
  space        <- [p \in Proc |-> SpaceOf(p)],
  Gone         <- None,
  Program      <- {Image(program) : program \in Programs},
  FirstProgram <- Image(initproc),
  Stack        <- {StackPages(tid) : tid \in 1 .. MaxTid},
  StackTop     <- USER_STACK_TOP - 1


\* The frames that somebody owns, as often as they are owned.
Owned ==
  LET Held(a)    == IF a.mapper = Offset THEN <<>>
                    ELSE [j \in 1 .. a.size |-> a.mapper[a.start + j - 1]]
      Frames(ms) == FoldLeft(LAMBDA fs, a : fs \o Held(a), ms.pt.tables, ms.areas)
  IN  FoldLeft(LAMBDA fs, p : fs \o Frames(vm[p]), Frames(kernel),
               SetToSeq({p \in Proc : vm[p] # None}))

\* Every frame that was ever given out is either free, once, or owned by one
\* table or page: none is lost by exec and exit, none is owned twice.
FramesAccounted ==
  up => LET all == m.free \o Owned
        IN  /\ Len(all) = m.next - ekernel
            /\ ToSet(all) = ekernel .. m.next - 1

\* The tables of a process map exactly the pages of its areas, to the frames
\* that these own and with their flags.
TablesTell ==
  up => \A p \in Proc : vm[p] # None =>
          Mapped(m.mem, vm[p].pt.root)
            = UNION {{<<va, new_page(a.mapper[va], a.flags)>> : va \in Pages(a)} : a \in ToSet(vm[p].areas)}

\* The processor walks the tables of the process that runs, never those of a
\* memory set that was dropped, and remembers only what they say.
TlbCoherent ==
  up => /\ ttbr0 = IF current = None THEN NoFrame ELSE vm[current].pt.root
        /\ tlb # <<>> => tlb[2] = Descriptor(m.mem, ttbr0, tlb[1])

\* What remap_test looks at, for every page of the kernel and at all times:
\* frames change hands below the kernel's own mapping and leave it alone.
KernelMapped ==
  \A sec \in ToSet(Sections) : \A va \in sec.start .. sec.end - 1 :
    query(m, kernel.pt, va) = <<va - PHYS_VIRT_OFFSET, sec.flags>>

\* The kernel stops for want of memory, or when a process with several threads
\* calls exec, or when the child of one creates a thread where it inherited a
\* stack, or when a call is given a pointer out of range; the other assertions
\* and panics of memory management never fire.
AssertionsHold ==
  m.status \in {"ok", "no memory", "task_count", "is existed", "uaccess"}
=============================================================================
