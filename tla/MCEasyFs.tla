------------------------------ MODULE MCEasyFs ------------------------------
(***************************************************************************)
(* EasyFs on a small disk: EasyFs.cfg gives the other constants.           *)
(***************************************************************************)
EXTENDS EasyFs, TLC

\* Reading and writing what is there; making a file, or emptying it.
SomeFlags == {{"RDWR"}, {"WRONLY", "CREATE"}}

\* Five words take three blocks, and ten words two blocks below indirect2.
Buffers == {<<1, 2, 3, 4, 5>>}
=============================================================================
