------------------------------ MODULE MCTimer -------------------------------
(***************************************************************************)
(* Timer with two delays of up to two units and two handles: one delay     *)
(* that sleeps while another comes and goes.                               *)
(***************************************************************************)
EXTENDS Timer
=============================================================================
