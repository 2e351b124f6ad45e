------------------------------- MODULE MCPipe -------------------------------
(***************************************************************************)
(* Pipe on a small instance: Pipe.cfg gives the other constants.           *)
(***************************************************************************)
EXTENDS Pipe

CONSTANTS sh, c1

\* The shell has two threads, its child one.
Threads == {1, 2, 3}
Owners  == [t \in Threads |-> IF t = 3 THEN c1 ELSE sh]

\* A write of two chunks, which fills the ring.
Buffers == {<<1, 2>>}
=============================================================================
