--------------------------- MODULE AbstractTimer ----------------------------
(***************************************************************************)
(* What the timer of src/timer/mod.rs promises: each delay has a clock of  *)
(* its own. It starts some time after the delay was asked for, ends when   *)
(* it has run down and not before, and does so independently of all other  *)
(* delays, as long as the timer is served. Once nobody wants the timer any *)
(* more its server ends.                                                   *)
(***************************************************************************)
EXTENDS Naturals

CONSTANTS Delays, MaxTime

VARIABLES
  asked,   \* delays whose clock has not started
  left,    \* for the delays whose clock has started, the ticks to go
  served,  \* the server runs
  wanted   \* somebody could ask

vars == <<asked, left, served, wanted>>

Init == asked = {} /\ left = [d \in {} |-> 0] /\ ~served /\ ~wanted

Ask(d) ==
  /\ wanted /\ d \notin asked \cup DOMAIN left
  /\ asked' = asked \cup {d}
  /\ UNCHANGED <<left, served, wanted>>

\* The server looks after its delays: the clocks start that were asked for,
\* and some that have run down end.
Serve(ended) ==
  /\ served
  /\ ended \subseteq {d \in DOMAIN left : left[d] = 0}
  /\ asked' = {}
  /\ \E time \in [asked -> 1 .. MaxTime] :
       left' = [d \in (DOMAIN left \ ended) \cup asked |-> IF d \in asked THEN time[d] ELSE left[d]]
  /\ UNCHANGED <<served, wanted>>

Tick ==
  /\ left' = [d \in DOMAIN left |-> IF left[d] = 0 THEN 0 ELSE left[d] - 1]
  /\ UNCHANGED <<asked, served, wanted>>

\* Somebody leaves, perhaps as the last, and may cancel delays.
Leave(cancelled) ==
  /\ asked' = asked \ cancelled
  /\ left' = [d \in DOMAIN left \ cancelled |-> left[d]]
  /\ wanted' \in {wanted, FALSE} /\ (wanted' \/ (asked' = {} /\ DOMAIN left' = {}))
  /\ UNCHANGED served

Open == wanted' = TRUE /\ UNCHANGED <<asked, left, served>>
StartServing == ~served /\ served' = TRUE /\ UNCHANGED <<asked, left, wanted>>
StopServing == served /\ served' = FALSE /\ UNCHANGED <<asked, left, wanted>>

\* The timer is gone, and with it all delays.
Destroy == asked' = {} /\ left' = [d \in {} |-> 0] /\ ~served' /\ UNCHANGED wanted

Next ==
  \/ \E d \in Delays : Ask(d)
  \/ \E some \in SUBSET Delays : Serve(some) \/ Leave(some)
  \/ Tick \/ Open \/ StartServing \/ StopServing \/ Destroy

Accept(d) == d \in asked /\ \E ended \in SUBSET DOMAIN left : Serve(ended)
Elapse(d) == \E ended \in SUBSET DOMAIN left : d \in ended /\ Serve(ended)

Clocks == Init /\ [][Next]_vars

\* Who asks is accepted, and the server ends when nobody wants it.
Attends == (\A d \in Delays : WF_vars(Accept(d))) /\ WF_vars(StopServing /\ ~wanted)

\* A delay that has run down ends.
Ends == \A d \in Delays : WF_vars(Elapse(d))

Spec == Clocks /\ Attends /\ Ends
=============================================================================
