--------------------------- MODULE MCCombinators ----------------------------
(***************************************************************************)
(* All trees of combinators up to three levels: a combinator with two      *)
(* combinators in it.                                                      *)
(***************************************************************************)
EXTENDS Combinators
=============================================================================
