------------------------------ MODULE MCMutex -------------------------------
(***************************************************************************)
(* Mutex with three lock futures and two references: one future to hold    *)
(* the mutex and two to wait for it, and a reference that can be dropped   *)
(* while another is left.                                                  *)
(***************************************************************************)
EXTENDS Mutex
=============================================================================
