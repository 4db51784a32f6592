----------------------------- MODULE MCCondvar ------------------------------
(***************************************************************************)
(* Condvar with three tasks and two items: two tasks that wait behind each *)
(* other while a third puts, takes or is in their way.                     *)
(***************************************************************************)
EXTENDS Condvar
=============================================================================
