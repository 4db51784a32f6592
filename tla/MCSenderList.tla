----------------------------- MODULE MCSenderList -----------------------------
(***************************************************************************)
(* SenderList with three tasks and a queue of one value: a waiting sender  *)
(* can have a neighbour on either side while others come and go.           *)
(***************************************************************************)
EXTENDS SenderList
=============================================================================
