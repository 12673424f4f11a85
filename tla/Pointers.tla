------------------------------ MODULE Pointers ------------------------------
(***************************************************************************)
(* The null pointer, one for the modules that are checked together.        *)
(***************************************************************************)
CONSTANT NULL
=============================================================================
