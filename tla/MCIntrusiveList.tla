--------------------------- MODULE MCIntrusiveList --------------------------
(***************************************************************************)
(* IntrusiveList with four links and two lists: enough for a link with two *)
(* neighbours on either side of a splice, and for a move in both           *)
(* directions.                                                             *)
(***************************************************************************)
EXTENDS IntrusiveList
=============================================================================
