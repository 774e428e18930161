------------------------------ MODULE MCCache ------------------------------
(***************************************************************************)
(* Cache on its own: sets of three ways, as in the program, and files of   *)
(* three addresses, fewer than a set has room for.                         *)
(***************************************************************************)
EXTENDS Cache
=============================================================================
