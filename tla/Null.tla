-------------------------------- MODULE Null --------------------------------
(***************************************************************************)
(* The value that is none: the NULL of the C code.                         *)
(***************************************************************************)
CONSTANT NULL
=============================================================================
