------------------------------- MODULE NoValue -------------------------------
(* What stands where there is no value: one constant for all the components. *)
CONSTANT None
===============================================================================
