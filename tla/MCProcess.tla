----------------------------- MODULE MCProcess -----------------------------
(***************************************************************************)
(* Process on small instances: Process*.cfg give the constants.            *)
(***************************************************************************)
EXTENDS Process, TLC

\* Programs exit with the code that a fault gives, too.
OneCode == {-1}

\* Or with the code that sys_waittid uses for "not yet".
TwoCodes == {0, -2}

\* A mask that lets kernel signals and a user signal through.
OpenMask == {{9, 10, 19}}

\* A handler of signal 10 lets itself be interrupted by another one, or not.
HandlerMasks == {{}, {10}}

\* Processes other than the shell are told apart by nothing.
Forked == Permutations(Proc \ {Shell})
============================================================================
