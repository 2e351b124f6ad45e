-------------------------------- MODULE Pipe --------------------------------
(***************************************************************************)
(* A pipe and the descriptors that refer to it: os/src/fs/pipe.rs,         *)
(* os/src/syscall/fs.rs and the descriptor tables of os/src/task.          *)
(*                                                                         *)
(* A read or a write is cut into the steps of its loops, and gives up the  *)
(* CPU only where the code calls yield_now: `current` is the thread that   *)
(* is inside a call and has the CPU.  The ends of the pipe are Arcs; one   *)
(* is in a slot of a descriptor table or held by a call in progress, and   *)
(* the ring's weak reference to the write end fails when none is left.     *)
(* Processes share nothing else here, so one pipe is enough.               *)
(***************************************************************************)
EXTENDS Integers, Sequences

CONSTANTS Proc,              \* user processes
          Thread,            \* their threads
          Owner,             \* the process of each thread
          Shell,             \* the first thread
          RING_BUFFER_SIZE,  \* bytes in the ring (256)
          CHUNK_SIZE,        \* bytes that sys_write copies in at a time (256)
          Buffer,            \* the byte sequences that programs write
          Want,              \* the lengths that programs read
          MaxFd,             \* bound on the length of a descriptor table
          NoCall, NoThread

\* A read or a write in progress, and the part of it that is not bookkeeping.
Call == [op : {"read", "write"}, want : Nat, bytes : Seq(Nat), chunk : Nat, k : Nat]
Core == [op : {"read", "write"}, want : Nat, bytes : Seq(Nat)]

ASSUME PipeAssumption ==
  /\ Owner \in [Thread -> Proc]
  /\ Shell \in Thread
  /\ RING_BUFFER_SIZE \in Nat \ {0}
  /\ CHUNK_SIZE \in Nat \ {0}
  /\ Buffer \subseteq Seq(Nat)
  /\ Want \subseteq Nat
  /\ MaxFd \in Nat
  /\ NoThread \notin Thread
  /\ NoCall \notin Call \union Core

VARIABLES ring,      \* PipeRingBuffer, but for its weak reference
          made,      \* sys_pipe was called
          fd_table,  \* per process: the sequence of its files
          call,      \* per thread: the read or write it is in
          state,     \* per thread: "None", "User" or "Zombie"
          current    \* the thread inside a call that has not yielded

vars == <<ring, made, fd_table, call, state, current>>

N == RING_BUFFER_SIZE

\* Files.  "Std" is Stdin or Stdout; "Read" and "Write" are the pipe's ends.
NewTable == <<"Std", "Std", "Std">>

Init ==
  /\ ring = [arr |-> [i \in 0 .. N - 1 |-> 0], head |-> 0, tail |-> 0, status |-> "Empty"]
  /\ made = FALSE
  /\ fd_table = [p \in Proc |-> IF p = Owner[Shell] THEN NewTable ELSE <<>>]
  /\ call = [t \in Thread |-> NoCall]
  /\ state = [t \in Thread |-> IF t = Shell THEN "User" ELSE "None"]
  /\ current = NoThread

----------------------------------------------------------------------------
(* The ring.                                                               *)

\* Mutants: a ring that was filled looks like any other; the tail runs over.
write_byte_NoFull(r, b) ==
  [r EXCEPT !.arr[r.tail] = b, !.tail = (@ + 1) % N, !.status = "Normal"]

write_byte_NoWrap(r, b) ==
  [r EXCEPT !.arr[r.tail] = b, !.tail = @ + 1,
            !.status = IF r.tail + 1 = r.head THEN "Full" ELSE "Normal"]

write_byte(r, b) ==
  [r EXCEPT !.arr[r.tail] = b, !.tail = (@ + 1) % N,
            !.status = IF (r.tail + 1) % N = r.head THEN "Full" ELSE "Normal"]

\* read_byte takes arr[head].
read_byte(r) ==
  [r EXCEPT !.head = (@ + 1) % N,
            !.status = IF (r.head + 1) % N = r.tail THEN "Empty" ELSE "Normal"]

available_read(r) ==
  IF r.status = "Empty" THEN 0
  ELSE IF r.tail > r.head THEN r.tail - r.head
  ELSE r.tail + N - r.head

available_write(r) == IF r.status = "Full" THEN 0 ELSE N - available_read(r)

----------------------------------------------------------------------------
(* Descriptors.                                                            *)

Holds(tab, file) == \E i \in DOMAIN tab : tab[i] = file

Reading(t) == call[t] # NoCall /\ call[t].op = "read"
Writing(t) == call[t] # NoCall /\ call[t].op = "write"

\* Mutant: a write in progress does not keep the write end.
all_write_ends_closed_Table == \A p \in Proc : ~Holds(fd_table[p], "Write")

\* The weak reference cannot be upgraded.  The table of a process goes with the
\* process object, when it is reaped.
all_write_ends_closed ==
  /\ \A p \in Proc : ~Holds(fd_table[p], "Write")
  /\ \A t \in Thread : ~Writing(t)

\* The lowest free slot, or a new one.
Slot(tab) ==
  IF Holds(tab, "None")
  THEN CHOOSE i \in DOMAIN tab : tab[i] = "None" /\ \A j \in 1 .. i - 1 : tab[j] # "None"
  ELSE Len(tab) + 1

alloc_fd(tab, file) ==
  IF Slot(tab) \in DOMAIN tab THEN [tab EXCEPT ![Slot(tab)] = file] ELSE Append(tab, file)

\* Thread t makes a system call.
Calls(t) == state[t] = "User" /\ call[t] = NoCall /\ current = NoThread

\* The file of descriptor fd, which counts from 0.
File(t, fd) ==
  IF fd + 1 \in DOMAIN fd_table[Owner[t]] THEN fd_table[Owner[t]][fd + 1] ELSE "None"

SetTable(t, tab) ==
  /\ fd_table' = [fd_table EXCEPT ![Owner[t]] = tab]
  /\ UNCHANGED <<ring, made, call, state, current>>

sys_pipe(t) ==
  /\ Calls(t)
  /\ ~made /\ made' = TRUE
  /\ fd_table' = [fd_table EXCEPT ![Owner[t]] = alloc_fd(alloc_fd(@, "Read"), "Write")]
  /\ UNCHANGED <<ring, call, state, current>>

sys_dup(t, fd) ==
  /\ Calls(t)
  /\ File(t, fd) \in {"Read", "Write"}
  /\ Slot(fd_table[Owner[t]]) <= MaxFd
  /\ SetTable(t, alloc_fd(fd_table[Owner[t]], File(t, fd)))

\* Programs leave their first three descriptors alone.
sys_close(t, fd) ==
  /\ Calls(t)
  /\ File(t, fd) \in {"Read", "Write"}
  /\ SetTable(t, [fd_table[Owner[t]] EXCEPT ![fd + 1] = "None"])

----------------------------------------------------------------------------
(* Reads and writes.                                                       *)

\* k: bytes left of the inner loop; 0 is the top of the outer loop.
sys_read(t, fd, n) ==
  /\ Calls(t)
  /\ File(t, fd) = "Read"
  /\ call' = [call EXCEPT ![t] = [op |-> "read", want |-> n, bytes |-> <<>>, chunk |-> 0, k |-> 0]]
  /\ current' = t
  /\ UNCHANGED <<ring, made, fd_table, state>>

Chunk(s) == IF Len(s) < CHUNK_SIZE THEN Len(s) ELSE CHUNK_SIZE

\* chunk: bytes left of the chunk that Pipe::write was called with.  A write of
\* no bytes does not get as far.
sys_write(t, fd, s) ==
  /\ Calls(t)
  /\ File(t, fd) = "Write"
  /\ s # <<>>
  /\ call' = [call EXCEPT ![t] = [op |-> "write", want |-> 0, bytes |-> s,
                                  chunk |-> Chunk(s), k |-> 0]]
  /\ current' = t
  /\ UNCHANGED <<ring, made, fd_table, state>>

\* The scheduler gets back to a thread that has yielded.
resume(t) ==
  /\ current = NoThread /\ call[t] # NoCall
  /\ current' = t
  /\ UNCHANGED <<ring, made, fd_table, call, state>>

yield_now(t) ==
  /\ current' = NoThread
  /\ UNCHANGED <<ring, made, fd_table, call, state>>

return(t) ==
  /\ call' = [call EXCEPT ![t] = NoCall]
  /\ current' = NoThread
  /\ UNCHANGED <<ring, made, fd_table, state>>

\* Enter the inner loop for as many bytes as can be moved now.
enter(t, available) ==
  /\ call' = [call EXCEPT ![t].k = available]
  /\ UNCHANGED <<ring, made, fd_table, state, current>>

AtTop(t)  == current = t /\ call[t].k = 0
InLoop(t) == current = t /\ call[t].k > 0

\* Mutant: a reader that finds the ring empty waits.
read_wait_Yields(t) ==
  /\ Reading(t) /\ AtTop(t) /\ available_read(ring) = 0
  /\ yield_now(t)

\* Pipe::read.
read_wait(t) ==
  /\ Reading(t) /\ AtTop(t) /\ available_read(ring) = 0
  /\ IF all_write_ends_closed THEN return(t) ELSE yield_now(t)

read_enter(t) ==
  /\ Reading(t) /\ AtTop(t) /\ available_read(ring) # 0
  /\ enter(t, available_read(ring))

\* Mutant: the reader yields after every byte, in the middle of its loop.
read_next_Yields(t) ==
  /\ Reading(t) /\ InLoop(t)
  /\ IF Len(call[t].bytes) < call[t].want
     THEN /\ call' = [call EXCEPT ![t].bytes = Append(@, ring.arr[ring.head]),
                                  ![t].k = @ - 1]
          /\ ring' = read_byte(ring)
          /\ current' = NoThread
          /\ UNCHANGED <<made, fd_table, state>>
     ELSE return(t)

read_next(t) ==
  /\ Reading(t) /\ InLoop(t)
  /\ IF Len(call[t].bytes) < call[t].want
     THEN /\ call' = [call EXCEPT ![t].bytes = Append(@, ring.arr[ring.head]),
                                  ![t].k = @ - 1]
          /\ ring' = read_byte(ring)
          /\ UNCHANGED <<made, fd_table, state, current>>
     ELSE return(t)

\* Pipe::write, and the loop of sys_write around it.
write_wait(t) ==
  /\ Writing(t) /\ AtTop(t) /\ available_write(ring) = 0
  /\ yield_now(t)

write_enter(t) ==
  /\ Writing(t) /\ AtTop(t) /\ available_write(ring) # 0
  /\ enter(t, available_write(ring))

write_next(t) ==
  /\ Writing(t) /\ InLoop(t)
  /\ IF call[t].chunk > 0
     THEN /\ call' = [call EXCEPT ![t].bytes = Tail(@), ![t].chunk = @ - 1, ![t].k = @ - 1]
          /\ ring' = write_byte(ring, Head(call[t].bytes))
          /\ UNCHANGED <<made, fd_table, state, current>>
     ELSE IF call[t].bytes # <<>>
     THEN /\ call' = [call EXCEPT ![t].chunk = Chunk(call[t].bytes), ![t].k = 0]
          /\ UNCHANGED <<ring, made, fd_table, state, current>>
     ELSE return(t)

----------------------------------------------------------------------------
(* Threads and processes, as far as descriptors go with them.              *)

Unborn(p) == fd_table[p] = <<>> /\ \A u \in Thread : Owner[u] = p => state[u] = "None"

\* The child is process Owner[u], with u as its main thread.
sys_fork(t, u) ==
  /\ Calls(t)
  /\ Unborn(Owner[u])
  /\ fd_table' = [fd_table EXCEPT ![Owner[u]] = fd_table[Owner[t]]]
  /\ state' = [state EXCEPT ![u] = "User"]
  /\ UNCHANGED <<ring, made, call, current>>

sys_thread_create(t, u) ==
  /\ Calls(t)
  /\ Owner[u] = Owner[t] /\ state[u] = "None"
  /\ state' = [state EXCEPT ![u] = "User"]
  /\ UNCHANGED <<ring, made, fd_table, call, current>>

\* Process::exit drops the memory of the process but not its descriptors.
sys_exit(t) ==
  /\ Calls(t)
  /\ state' = [state EXCEPT ![t] = "Zombie"]
  /\ UNCHANGED <<ring, made, fd_table, call, current>>

\* The parent, or the root process, reaps a process whose threads have ended.
waitpid(p) ==
  /\ current = NoThread
  /\ fd_table[p] # <<>>
  /\ \A u \in Thread : Owner[u] = p => state[u] # "User"
  /\ fd_table' = [fd_table EXCEPT ![p] = <<>>]
  /\ UNCHANGED <<ring, made, call, state, current>>

Next ==
  \/ \E t \in Thread :
       \/ sys_pipe(t)
       \/ \E fd \in 3 .. MaxFd - 1 :
            \/ sys_dup(t, fd)
            \/ sys_close(t, fd)
            \/ \E n \in Want : sys_read(t, fd, n)
            \/ \E s \in Buffer : sys_write(t, fd, s)
       \/ resume(t)
       \/ read_wait(t)
       \/ read_enter(t)
       \/ read_next(t)
       \/ write_wait(t)
       \/ write_enter(t)
       \/ write_next(t)
       \/ \E u \in Thread : sys_fork(t, u) \/ sys_thread_create(t, u)
       \/ sys_exit(t)
  \/ \E p \in Proc : waitpid(p)

Spec == Init /\ [][Next]_vars

\* A call in progress goes on, and the scheduler returns to a thread that has
\* yielded again and again (EveryReadyTaskRuns).
FairSpec ==
  /\ Spec
  /\ \A t \in Thread :
       /\ SF_vars(resume(t))
       /\ WF_vars(read_wait(t) \/ read_enter(t) \/ read_next(t))
       /\ WF_vars(write_wait(t) \/ write_enter(t) \/ write_next(t))

----------------------------------------------------------------------------
(* Properties.                                                             *)

TypeOK ==
  /\ ring \in [arr : [0 .. N - 1 -> Nat], head : 0 .. N - 1, tail : 0 .. N - 1,
               status : {"Full", "Empty", "Normal"}]
  /\ made \in BOOLEAN
  /\ fd_table \in [Proc -> Seq({"None", "Std", "Read", "Write"})]
  /\ call \in [Thread -> Call \union {NoCall}]
  /\ state \in [Thread -> {"None", "User", "Zombie"}]
  /\ current \in Thread \union {NoThread}

\* What the ring holds: the bytes from head on, around the end of the array.
Content(r) ==
  [i \in 1 .. available_read(r) |->
     r.arr[IF r.head + i - 1 < N THEN r.head + i - 1 ELSE r.head + i - 1 - N]]

\* A call as the channel sees it.
Seen(c) == IF c = NoCall THEN NoCall
           ELSE [op |-> c.op, want |-> c.want, bytes |-> c.bytes]

Phase == IF ~made THEN "none" ELSE IF all_write_ends_closed THEN "closed" ELSE "open"

Chan == INSTANCE Channel WITH
          Size    <- RING_BUFFER_SIZE,
          phase   <- Phase,
          content <- Content(ring),
          call    <- [t \in Thread |-> Seen(call[t])]

\* However reads, writes, closes, forks and exits of several processes
\* interleave, the ring behind the pipe is a first-in first-out channel that
\* loses, repeats and makes up nothing; a read returns short only at its end,
\* and an end once reached is final.
ImplementsChannel == Chan!Spec

\* head = tail is a full ring or an empty one, and the status tells which.
StatusTells ==
  /\ ring.head = ring.tail <=> ring.status # "Normal"
  /\ available_read(ring) + available_write(ring) = N

\* A loop that has been entered never moves more bytes than it was entered for.
LoopFits ==
  \A t \in Thread : call[t] # NoCall /\ call[t].k > 0 =>
    /\ current = t
    /\ Reading(t) => call[t].k <= available_read(ring)
    /\ Writing(t) => call[t].k <= available_write(ring)

\* A reader whose pipe has lost its last write end returns.
ReaderReturns ==
  \A t \in Thread : Reading(t) /\ all_write_ends_closed ~> ~Reading(t)
=============================================================================
