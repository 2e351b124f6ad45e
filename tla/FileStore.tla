----------------------------- MODULE FileStore -----------------------------
(***************************************************************************)
(* What the file system promises: files that are sequences of words, and   *)
(* open files that read and write them from an offset of their own.  What  *)
(* a call has done when it returns is there for good.  A call that the     *)
(* machine does not survive may have touched its own file only.            *)
(***************************************************************************)
EXTENDS Integers, Sequences, FiniteSets

CONSTANTS Name,     \* file names
          Handle,   \* open files
          Flags,    \* the flags that open_file is called with
          Buffer,   \* what programs write
          Count,    \* how many words programs read
          Closed,   \* no open file
          Absent    \* no such file

VARIABLES files,    \* per name: Absent, or a sequence of words
          handle,   \* per handle: Closed, or [name, offset, readable, writable]
          ret,      \* the result of the last call
          up        \* the machine runs

vars == <<files, handle, ret, up>>

Init ==
  /\ files = [n \in Name |-> Absent]
  /\ handle = [h \in Handle |-> Closed]
  /\ ret = <<>>
  /\ up = TRUE

\* open_file: with CREATE the file is made or emptied, with TRUNC emptied.
Open(h, n, flags) ==
  /\ handle[h] = Closed
  /\ \/ /\ ret' = <<>> /\ UNCHANGED handle
        /\ files[n] = Absent /\ "CREATE" \notin flags
        /\ UNCHANGED files
     \/ /\ ret' = <<1>>
        /\ handle' = [handle EXCEPT ![h] =
             [name |-> n, offset |-> 0, readable |-> "WRONLY" \notin flags,
              writable |-> flags # {}]]
        /\ files[n] # Absent \/ "CREATE" \in flags
        /\ IF flags \intersect {"CREATE", "TRUNC"} = {} THEN UNCHANGED files
           ELSE files' = [files EXCEPT ![n] = <<>>]

Close(h) ==
  /\ ret' = <<>>
  /\ handle' = [handle EXCEPT ![h] = Closed]
  /\ UNCHANGED files

From(words, offset, n) ==
  SubSeq(words, offset + 1, IF offset + n < Len(words) THEN offset + n ELSE Len(words))

Read(h, n) ==
  /\ handle[h] # Closed /\ handle[h].readable
  /\ handle' = [handle EXCEPT ![h].offset = @ + Len(ret')]
  /\ ret' = From(files[handle[h].name], handle[h].offset, n)
  /\ UNCHANGED files

\* A gap before the offset reads as zeros.
Written(words, offset, buf) ==
  [i \in 1 .. IF offset + Len(buf) > Len(words) THEN offset + Len(buf) ELSE Len(words) |->
     IF i > offset /\ i <= offset + Len(buf) THEN buf[i - offset]
     ELSE IF i <= Len(words) THEN words[i] ELSE 0]

Write(h, buf) ==
  /\ handle[h] # Closed /\ handle[h].writable
  /\ ret' = <<Len(buf)>>
  /\ handle' = [handle EXCEPT ![h].offset = @ + Len(buf)]
  /\ files' = [files EXCEPT ![handle[h].name] = Written(@, handle[h].offset, buf)]

Load(n) ==
  /\ UNCHANGED handle
  /\ ret' = IF files[n] = Absent THEN <<>> ELSE files[n]
  /\ UNCHANGED files

InUse == {n \in Name : files[n] # Absent}

\* The machine starts again, and lists the files.
Restart ==
  /\ handle' = [h \in Handle |-> Closed]
  /\ UNCHANGED files
  /\ {ret'[i] : i \in DOMAIN ret'} = InUse
  /\ Len(ret') = Cardinality(InUse)

\* The machine stops in the middle of a call on some file n.
Stop == \E n \in Name : \A m \in Name \ {n} : files'[m] = files[m]

Next ==
  /\ up
  /\ \/ /\ ~up'
        /\ Stop
     \/ /\ up'
        /\ \/ \E h \in Handle :
                \/ \E n \in Name, flags \in Flags : Open(h, n, flags)
                \/ Close(h)
                \/ \E n \in Count : Read(h, n)
                \/ \E buf \in Buffer : Write(h, buf)
           \/ \E n \in Name : Load(n)
           \/ Restart

Spec == Init /\ [][Next]_vars
============================================================================
