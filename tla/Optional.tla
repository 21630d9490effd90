------------------------------ MODULE Optional ------------------------------
(***************************************************************************)
(* What an empty pointer, optional or string holds.                         *)
(***************************************************************************)
EXTENDS Integers

CONSTANT none
=============================================================================
