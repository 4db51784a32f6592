----------------------------- MODULE MCIrqWaker -----------------------------
(***************************************************************************)
(* IrqWaker with two task wakers, so that a waker replaces another. The    *)
(* configurations choose the number of interrupt priorities: one, for      *)
(* which the code is right, and two, for which it is not.                  *)
(***************************************************************************)
EXTENDS IrqWaker
=============================================================================
