----------------------------- MODULE MCUserSync -----------------------------
(***************************************************************************)
(* UserSync on small instances: UserSync*.cfg give the constants.          *)
(***************************************************************************)
EXTENDS UserSync
============================================================================
