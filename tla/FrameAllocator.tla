--------------------------- MODULE FrameAllocator ---------------------------
(***************************************************************************)
(* Physical memory and who gives it out: FreeListAllocator of              *)
(* utils/allocator.rs below PhysFrame of mm/frame_allocator.rs.            *)
(*                                                                         *)
(* The operators take and return m = [next, free, mem, status]: the        *)
(* allocator's watermark and stack of free frames, what the frames hold,   *)
(* and "ok" or the panic that ended the kernel.  A frame is ENTRY_COUNT    *)
(* words; a word is a tuple, <<>> when all its bits are zero.              *)
(***************************************************************************)
EXTENDS Integers, Sequences, SequencesExt

CONSTANTS ENTRY_COUNT,   \* words in a frame (512)
          ekernel,       \* the first frame after the kernel image
          MEMORY_END     \* the first frame number past the memory

Frame == 1 .. MEMORY_END - 1
NoFrame == 0

ZeroFrame == [i \in 0 .. ENTRY_COUNT - 1 |-> <<>>]

\* init_frame_allocator.
NewMemory ==
  [next |-> ekernel, free |-> <<>>, mem |-> [f \in Frame |-> ZeroFrame], status |-> "ok"]

panic(m, which) == IF m.status = "ok" THEN [m EXCEPT !.status = which] ELSE m

\* PhysFrame::alloc and the unwrap after it: the frame, dirty as it is.
alloc(m) ==
  IF m.status # "ok" THEN [m |-> m, frame |-> NoFrame]
  ELSE IF m.free # <<>> THEN [m |-> [m EXCEPT !.free = Front(@)], frame |-> Last(m.free)]
  ELSE IF m.next >= MEMORY_END THEN [m |-> panic(m, "no memory"), frame |-> NoFrame]
  ELSE [m |-> [m EXCEPT !.next = @ + 1], frame |-> m.next]

\* The frame a, with these words.
Filled(a, words) ==
  IF a.frame = NoFrame THEN a ELSE [a EXCEPT !.m.mem[a.frame] = words]

alloc_zero(m) == Filled(alloc(m), ZeroFrame)

\* Dropping a PhysFrame.
dealloc(m, f) ==
  IF m.status # "ok" THEN m
  ELSE IF f < ekernel \/ f >= m.next \/ f \in ToSet(m.free) THEN panic(m, "dealloc")
  ELSE [m EXCEPT !.free = Append(@, f)]

\* Dropping a Vec or a map of them.
DropAll(m, frames) == FoldLeft(dealloc, m, frames)
=============================================================================
