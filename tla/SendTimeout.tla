---------------------------- MODULE SendTimeout ----------------------------
(***************************************************************************)
(* The sends of SenderList.tla with a timeout: tx.send(v).timeout(h, d),   *)
(* that is, SendFuture inside Race and TimeoutFuture of                    *)
(* src/prelude/mod.rs.                                                     *)
(*                                                                         *)
(* In SenderList.tla a future is polled again only after the list gave it  *)
(* back. A timeout breaks that: the timer wakes the task, and Race polls   *)
(* the SendFuture first, whose link is still in the list. Of a delay only  *)
(* counts whether it has elapsed.                                          *)
(***************************************************************************)
EXTENDS SenderList

VARIABLE elapsed  \* tasks whose delay has elapsed

timeoutVars == <<senderVars, elapsed>>

\* On a full queue SendFuture::poll pushes the link and returns Pending. Then
\* Race polls the delay: if that has elapsed, TimeoutFuture returns
\* Err(TimeoutError) and the task drops both.
TimedOut(t) ==
  /\ len = Capacity
  /\ Forget(t, PushBack(heap, Senders, t))
  /\ UNCHANGED len

\* TimeoutFuture::poll. If the value is sent, Race does not ask the delay.
PollRace(t) ==
  /\ Pollable(t)
  /\ Sent(t) \/ (IF t \in elapsed THEN TimedOut(t) ELSE Parks(t))
  /\ elapsed' = IF send'[t] = "none" THEN elapsed \ {t} ELSE elapsed
  /\ woken' = woken \ {t}

\* The timer finds the delay elapsed and wakes the task.
Expire(t) ==
  /\ send[t] = "pending" /\ t \notin elapsed
  /\ elapsed' = elapsed \cup {t}
  /\ woken' = woken \cup {t}
  /\ UNCHANGED <<vars, len, send>>

CancelRace(t) == Cancel(t) /\ elapsed' = elapsed \ {t}

TimeoutInit == SendersInit /\ elapsed = {}

TimeoutNext ==
  \/ \E t \in Tasks : PollRace(t) \/ Expire(t) \/ CancelRace(t)
  \/ \E t \in Tasks : Start(t) /\ UNCHANGED elapsed
  \/ Receive /\ UNCHANGED elapsed

TimeoutSpec == TimeoutInit /\ [][TimeoutNext]_timeoutVars

\* NoDangling of IntrusiveList.tla does not hold here: a second push makes the
\* link its own neighbour, and its drop does not reach the list any more,
\* which keeps pointing at the future that was dropped.
=============================================================================
