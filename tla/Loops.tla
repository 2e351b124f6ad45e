-------------------------------- MODULE Loops --------------------------------
(***************************************************************************)
(* Loops over sequences.  FoldLeft is the operator of that name in the     *)
(* community module SequencesExt, which is large: a proof would carry all  *)
(* of it along.                                                            *)
(***************************************************************************)
EXTENDS Integers, Sequences, FiniteSetsExt

\* op(... op(op(base, seq[1]), seq[2]) ..., seq[Len(seq)])
FoldLeft(op(_, _), base, seq) ==
  MapThenFoldSet(LAMBDA i, x : op(x, seq[i]), base, LAMBDA i : i, LAMBDA S : Max(S), DOMAIN seq)

\* Vec::remove.
remove(seq, i) == SubSeq(seq, 1, i - 1) \o SubSeq(seq, i + 1, Len(seq))
=============================================================================
