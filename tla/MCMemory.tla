------------------------------ MODULE MCMemory ------------------------------
(***************************************************************************)
(* Memory on a small machine: Memory.cfg gives the other constants.        *)
(***************************************************************************)
EXTENDS Memory, TLC

\* Code, and a word of data before a page of zeros.
Small == <<[start |-> 1, size |-> 1, flags |-> {"READ", "EXECUTE"}, data |-> <<<<1>>>>],
           [start |-> 2, size |-> 2, flags |-> {"READ", "WRITE"}, data |-> <<<<2>>>>]>>

\* Only code.
Tiny == <<[start |-> 1, size |-> 1, flags |-> {"READ", "EXECUTE"}, data |-> <<<<3>>>>]>>

TwoPrograms == {Small, Tiny}

OneValue == {<<4>>}

\* Kernel text, read-only data, data, the rest of memory in pieces, a device.
KernelSections ==
  <<[start |-> 1, end |-> 2, flags |-> {"READ", "EXECUTE"}],
    [start |-> 2, end |-> 3, flags |-> {"READ"}],
    [start |-> 3, end |-> ekernel, flags |-> {"READ", "WRITE"}]>>
  \o [i \in 1 .. (MEMORY_END - ekernel) \div 6 |->
        [start |-> ekernel + 6 * (i - 1), end |-> ekernel + 6 * i, flags |-> {"READ", "WRITE"}]]
  \o <<[start |-> MEMORY_END + 1, end |-> MEMORY_END + 2, flags |-> {"READ", "WRITE", "DEVICE"}]>>
=============================================================================
