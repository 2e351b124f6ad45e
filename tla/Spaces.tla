------------------------------- MODULE Spaces -------------------------------
(***************************************************************************)
(* What memory management promises: every process has pages of its own,    *)
(* each with a word and with flags.  A fork copies them, a program that is *)
(* loaded replaces them, a new thread adds a stack of zeros, and a store   *)
(* changes one page of the process that runs.                              *)
(***************************************************************************)
EXTENDS Integers, Sequences

CONSTANTS Proc,          \* processes
          Page,          \* pages that programs touch
          Value,         \* words that they store, and pass as arguments
          Program,       \* what can be loaded: functions from pages to [word, flags]
          Stack,         \* the sets of pages that are stacks of threads
          StackTop,      \* the page that arguments are pushed to
          First, FirstProgram,   \* what runs first
          Gone           \* no process

VARIABLES space,     \* per process: Gone, or what its pages hold
          current,   \* the process that runs, Gone for the kernel's own tasks
          ret,       \* what the last access gave
          up         \* the kernel runs

vars == <<space, current, ret, up>>

Init ==
  /\ space = [p \in Proc |-> IF p = First THEN FirstProgram ELSE Gone]
  /\ current = First
  /\ ret = <<>>
  /\ up = TRUE

Allowed(p, va, kind) ==
  /\ va \in DOMAIN space[p]
  /\ {"USER", "READ"} \subseteq space[p][va].flags
  /\ kind = "write" => "WRITE" \in space[p][va].flags
  /\ kind = "fetch" => "EXECUTE" \in space[p][va].flags

Load(p) ==
  /\ \E va \in Page, kind \in {"read", "fetch"} :
        Allowed(p, va, kind) /\ ret' = <<"word", space[p][va].word>>
  /\ UNCHANGED space

Store(p) ==
  /\ ret' = <<>>
  /\ \E va \in Page, v \in Value :
        Allowed(p, va, "write") /\ space' = [space EXCEPT ![p][va].word = v]

Fork(p) ==
  /\ ret' = <<>>
  /\ \E c \in Proc : space[c] = Gone /\ space' = [space EXCEPT ![c] = space[p]]

\* With an argument on the stack, or without.
Exec(p) ==
  /\ ret' = <<>>
  /\ \E program \in Program :
        \/ space' = [space EXCEPT ![p] = program]
        \/ \E v \in Value : space' = [space EXCEPT ![p] = [program EXCEPT ![StackTop].word = v]]

NewThread(p) ==
  LET zero == [word |-> <<>>, flags |-> {"READ", "WRITE", "USER"}]
  IN  /\ ret' = <<>>
      /\ \E stack \in Stack :
           /\ stack \intersect DOMAIN space[p] = {}
           /\ space' = [space EXCEPT ![p] =
                [va \in DOMAIN @ \union stack |-> IF va \in stack THEN zero ELSE @[va]]]

\* A thread ends: of its own accord, or by an access that is not allowed.  With
\* the last one the process loses its pages.
Exit(p) ==
  /\ \/ ret' = <<>>
     \/ ret' = <<"fault">> /\ \E va \in Page, kind \in {"read", "write", "fetch"} :
                                 ~Allowed(p, va, kind)
  /\ \/ UNCHANGED space
     \/ space' = [space EXCEPT ![p] = Gone]

\* Who may run next.
Live == {p \in Proc : space[p] # Gone} \union {Gone}

Next ==
  /\ up
  /\ \/ ~up'
     \/ /\ up' /\ current # Gone /\ UNCHANGED current
        /\ Load(current) \/ Store(current) \/ Fork(current) \/ Exec(current) \/ NewThread(current)
     \/ /\ up' /\ current' \in Live'
        /\ \/ ret' = <<>> /\ UNCHANGED space
           \/ current # Gone /\ Exit(current)

Spec == Init /\ [][Next]_vars
=============================================================================
