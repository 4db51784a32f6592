----------------------------- MODULE MCChannel -----------------------------
(***************************************************************************)
(* Channel with two futures and two handles on each side. The queue holds  *)
(* two values, and there is one more than fits into it.                    *)
(***************************************************************************)
EXTENDS Channel
=============================================================================
