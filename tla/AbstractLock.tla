---------------------------- MODULE AbstractLock ----------------------------
(***************************************************************************)
(* What Mutex<T> of src/sync/mutex.rs promises: at most one holder, only a *)
(* caller that found the lock held has to wait, and a free lock does not   *)
(* stay free while somebody waits for it. It promises no order among the   *)
(* waiters, and try_lock may overtake them.                                *)
(***************************************************************************)
CONSTANT Waiters

VARIABLES
  held,     \* somebody holds the lock
  waiting   \* those who asked for it and have not got it yet

vars == <<held, waiting>>

Init == held = FALSE /\ waiting = {}

\* A caller that never waited takes the free lock.
Barge == ~held /\ held' = TRUE /\ UNCHANGED waiting

Wait(w) == held /\ waiting' = waiting \cup {w} /\ UNCHANGED held

Grant(w) ==
  /\ ~held /\ w \in waiting
  /\ held' = TRUE
  /\ waiting' = waiting \ {w}

Release == held /\ held' = FALSE /\ UNCHANGED waiting

\* Some stop waiting.
GiveUp == waiting' \subseteq waiting /\ UNCHANGED held

Next ==
  \/ Barge \/ Release \/ GiveUp
  \/ \E w \in Waiters : Wait(w) \/ Grant(w)

\* A free lock that is wanted is taken.
Handover == \E w \in Waiters : Grant(w)

Spec == Init /\ [][Next]_vars /\ WF_vars(Handover)
=============================================================================
