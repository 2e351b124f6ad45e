------------------------------ MODULE Channel ------------------------------
(***************************************************************************)
(* What a pipe promises: a bounded first-in first-out channel of bytes.    *)
(* A write puts its bytes in order and returns when all of them are in.  A *)
(* read takes bytes from the front and returns with as many as it wants,   *)
(* or with fewer once the channel is empty and nobody can write any more.  *)
(* The channel is closed once, when no write is in progress, for good.     *)
(***************************************************************************)
EXTENDS Integers, Sequences

CONSTANTS Thread,   \* who reads and writes
          Want,     \* how many bytes they may read
          Buffer,   \* what they may write
          Size,     \* how many bytes the channel holds
          NoCall    \* a thread that neither reads nor writes

VARIABLES phase,    \* "none", "open" or "closed"
          content,  \* the bytes in the channel
          call      \* per thread: its read or write, with the bytes it has
                    \* taken or has yet to put

vars == <<phase, content, call>>

Init ==
  /\ phase = "none"
  /\ content = <<>>
  /\ call = [t \in Thread |-> NoCall]

Reading(t) == call[t] # NoCall /\ call[t].op = "read"
Writing(t) == call[t] # NoCall /\ call[t].op = "write"

Create ==
  /\ phase = "none" /\ phase' = "open"
  /\ UNCHANGED <<content, call>>

Close ==
  /\ phase = "open" /\ phase' = "closed"
  /\ \A t \in Thread : ~Writing(t)
  /\ UNCHANGED <<content, call>>

StartRead(t, n) ==
  /\ call[t] = NoCall /\ phase # "none"
  /\ call' = [call EXCEPT ![t] = [op |-> "read", want |-> n, bytes |-> <<>>]]
  /\ UNCHANGED <<phase, content>>

StartWrite(t, s) ==
  /\ call[t] = NoCall /\ phase = "open"
  /\ call' = [call EXCEPT ![t] = [op |-> "write", want |-> 0, bytes |-> s]]
  /\ UNCHANGED <<phase, content>>

Take(t) ==
  /\ Reading(t) /\ Len(call[t].bytes) < call[t].want
  /\ content # <<>>
  /\ content' = Tail(content)
  /\ call' = [call EXCEPT ![t].bytes = Append(@, Head(content))]
  /\ UNCHANGED phase

Put(t) ==
  /\ Writing(t) /\ call[t].bytes # <<>>
  /\ Len(content) < Size
  /\ content' = Append(content, Head(call[t].bytes))
  /\ call' = [call EXCEPT ![t].bytes = Tail(@)]
  /\ UNCHANGED phase

EndRead(t) ==
  /\ Reading(t)
  /\ Len(call[t].bytes) = call[t].want \/ (content = <<>> /\ phase = "closed")
  /\ call' = [call EXCEPT ![t] = NoCall]
  /\ UNCHANGED <<phase, content>>

\* The last one to write may have been all that kept the channel open.
EndWrite(t) ==
  /\ Writing(t) /\ call[t].bytes = <<>>
  /\ call' = [call EXCEPT ![t] = NoCall]
  /\ \/ UNCHANGED phase
     \/ phase' = "closed" /\ \A u \in Thread \ {t} : ~Writing(u)
  /\ UNCHANGED content

Next ==
  \/ Create
  \/ Close
  \/ \E t \in Thread :
       \/ \E n \in Want : StartRead(t, n)
       \/ \E s \in Buffer : StartWrite(t, s)
       \/ Take(t)
       \/ Put(t)
       \/ EndRead(t)
       \/ EndWrite(t)

Spec == Init /\ [][Next]_vars
============================================================================
