----------------------------- MODULE SenderList -----------------------------
(***************************************************************************)
(* Tasks that send on one channel: SendFuture of src/channel/mod.rs with   *)
(* waiting_senders as the pointers it is made of. The tasks are clients of *)
(* the list: their futures are the links of IntrusiveList.tla, whose live  *)
(* and lists say what exists. It shows that the futures of Channel.tla use *)
(* the list as its unsafe methods ask, and that keeping it as a set there  *)
(* loses nothing.                                                          *)
(*                                                                         *)
(* There is always a receiver, and of the queue only its length counts.    *)
(* LockFuture, WaitFuture and ReceiveFuture use their lists the same way.  *)
(***************************************************************************)
EXTENDS IntrusiveList, SequencesExt

CONSTANT Capacity   \* the length of the queue

ASSUME CapacityAssumption == Capacity \in Nat \ {0}

\* A task has at most one send at a time, so it stands for the link in it.
Tasks == Links

\* The list of the channel, and the local list of notify_waiting_senders.
Senders == "waiting_senders"
Notified == "notified"

ASSUME ListsAssumption == Lists = {Senders, Notified}

VARIABLES
  len,    \* Channel::len
  send,   \* per task its SendFuture: "none", "new" or "pending"
  woken   \* tasks whose waker was called since their last poll

senderVars == <<vars, len, send, woken>>

SendersTypeOK ==
  /\ TypeOK
  /\ len \in 0 .. Capacity
  /\ send \in [Tasks -> {"none", "new", "pending"}]
  /\ woken \subseteq Tasks

SendersInit ==
  /\ heap = EmptyHeap
  /\ live = {}
  /\ lists = {Senders}
  /\ len = 0
  /\ send = [t \in Tasks |-> "none"]
  /\ woken = {}

NotifyForgetsTheRest(h) ==
  [heap   |-> DropSentinels(PopFront(MoveToFrontOf(h, Senders, Notified), Notified), Notified),
   called |-> {FrontOf(MoveToFrontOf(h, Senders, Notified), Notified)} \ {Null}]

\* notify_waiting_senders: all links move to a local list and are popped one
\* after the other; then the local list is dropped. Pops(h)[k] is the heap
\* after k calls of pop_front, which does nothing to an empty list.
Pops(h) ==
  LET after[k \in 0 .. Cardinality(Tasks)] ==
        IF k = 0 THEN MoveToFrontOf(h, Senders, Notified) ELSE PopFront(after[k - 1], Notified)
  IN  after

NotifyAll(h) ==
  LET after == Pops(h)
  IN  [heap   |-> DropSentinels(after[Cardinality(Tasks)], Notified),
       called |-> {FrontOf(after[k], Notified) : k \in 0 .. Cardinality(Tasks)} \ {Null}]

\* A call of send makes the future and the link in it.
Start(t) ==
  /\ send[t] = "none"
  /\ send' = [send EXCEPT ![t] = "new"]
  /\ NewLink(t)
  /\ UNCHANGED <<len, woken>>

\* The future of task t is dropped: with it the link, which unlinks itself.
Forget(t, h) ==
  /\ send' = [send EXCEPT ![t] = "none"]
  /\ heap' = Unlink(h, t)
  /\ live' = live \ {t}
  /\ UNCHANGED lists

\* SendFuture::poll with room. The task gets its result and drops the future.
Sent(t) ==
  /\ len < Capacity
  /\ len' = len + 1
  /\ Forget(t, heap)

\* SendFuture::poll on a full queue pushes the link. What PushLinkBack of
\* IntrusiveList.tla asks of its caller, a link in no list, is not tested.
Parks(t) ==
  /\ len = Capacity
  /\ heap' = PushBack(heap, Senders, t)
  /\ send' = [send EXCEPT ![t] = "pending"]
  /\ UNCHANGED <<live, lists, len>>

Pollable(t) == send[t] = "new" \/ (send[t] = "pending" /\ t \in woken)

\* SendFuture::poll.
Poll(t) ==
  /\ Pollable(t)
  /\ Sent(t) \/ Parks(t)
  /\ woken' = woken \ {t}

CancelLeavesLink(t) ==
  /\ send[t] # "none"
  /\ send' = [send EXCEPT ![t] = "none"]
  /\ live' = live \ {t}
  /\ woken' = woken \ {t}
  /\ UNCHANGED <<heap, lists, len>>

\* A task is cancelled and drops its future.
Cancel(t) ==
  /\ send[t] # "none"
  /\ Forget(t, heap)
  /\ woken' = woken \ {t}
  /\ UNCHANGED len

\* Receiver::try_recv.
Receive ==
  /\ len > 0
  /\ len' = len - 1
  /\ heap' = NotifyAll(heap).heap
  /\ woken' = woken \cup NotifyAll(heap).called
  /\ UNCHANGED <<live, lists, send>>

SendersNext ==
  \/ \E t \in Tasks : Start(t) \/ Poll(t) \/ Cancel(t)
  \/ Receive

SendersSpec == SendersInit /\ [][SendersNext]_senderVars

----------------------------------------------------------------------------
(* Properties. Pushing the link is "safe since x and me.link are both      *)
(* stored inside the future": NoDangling of IntrusiveList.tla, that no     *)
(* pointer leads from the list, or from a future in it, to a future that   *)
(* was dropped. And of what the futures use the list for:                  *)

\* The list holds the pending senders that nobody has woken, each once.
ListHoldsTheParked ==
  /\ ToSet(Forward(heap, Senders)) = {t \in Tasks : send[t] = "pending" /\ t \notin woken}
  /\ IsInjective(Forward(heap, Senders))
=============================================================================
