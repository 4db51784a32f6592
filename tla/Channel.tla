------------------------------ MODULE Channel ------------------------------
(***************************************************************************)
(* The bounded channel of src/channel/mod.rs: any number of senders and    *)
(* receivers of one single-threaded executor, each side counted by an      *)
(* RcAnchor of its own (src/intrusive/rc.rs).                              *)
(*                                                                         *)
(* One action is one call that runs to its end, as in Mutex.tla: a send or *)
(* receive future stands for the task that awaits it, a waker call marks   *)
(* it woken, and the executor polls a new or woken future. The two waiting *)
(* lists are sets, since a notification empties the whole list.            *)
(*                                                                         *)
(* Values are identities: a value is offered again only when it is nowhere *)
(* in the channel. heapless::spsc::Queue is a FIFO of Capacity values.     *)
(***************************************************************************)
EXTENDS Naturals, Sequences, FiniteSets

CONSTANTS
  SendFutures,     \* the SendFutures that can exist at a time
  ReceiveFutures,  \* the ReceiveFutures that can exist at a time
  Values,          \* the values that are sent
  None,            \* the value field of a SendFuture once it was taken
  Capacity,        \* the length L of the queue
  MaxHandles       \* bound on the Senders, and on the Receivers, at a time

ASSUME SidesAssumption ==
  /\ IsFiniteSet(SendFutures) /\ IsFiniteSet(ReceiveFutures)
  /\ SendFutures \cap ReceiveFutures = {}
ASSUME ValuesAssumption == None \notin Values
ASSUME BoundsAssumption == Capacity \in Nat \ {0} /\ MaxHandles \in Nat \ {0}

VARIABLES
  channel,           \* "new", "split", "dropped", or "panicked" in its drop
  queue,             \* the values sent and not yet received
  senders,           \* number of Senders that exist
  receivers,         \* number of Receivers that exist
  tx,                \* the count of the senders' anchor
  rx,                \* the count of the receivers' anchor
  send,              \* SendFutures: "none", "new", "pending" or "done"
  value,             \* SendFuture.value
  receive,           \* ReceiveFutures, likewise
  waiting_senders,   \* the SendFutures whose link is in that list
  waiting_receivers, \* the ReceiveFutures whose link is in that list
  woken              \* futures whose waker was called since their last poll

refs == <<senders, receivers, tx, rx>>
futures == <<send, value, receive>>
lists == <<waiting_senders, waiting_receivers, woken>>
vars == <<channel, queue, refs, futures, lists>>

FutureStates == {"none", "new", "pending", "done"}

TypeOK ==
  /\ channel \in {"new", "split", "dropped", "panicked"}
  /\ queue \in Seq(Values) /\ Len(queue) <= Capacity
  /\ senders \in 0 .. MaxHandles /\ receivers \in 0 .. MaxHandles
  /\ tx \in Nat /\ rx \in Nat
  /\ send \in [SendFutures -> FutureStates]
  /\ value \in [SendFutures -> Values \cup {None}]
  /\ receive \in [ReceiveFutures -> FutureStates]
  /\ waiting_senders \subseteq SendFutures
  /\ waiting_receivers \subseteq ReceiveFutures
  /\ woken \subseteq SendFutures \cup ReceiveFutures

\* Channel::new.
Init ==
  /\ channel = "new"
  /\ queue = <<>>
  /\ senders = 0 /\ receivers = 0
  /\ tx = 0 /\ rx = 0
  /\ send = [f \in SendFutures |-> "none"]
  /\ value = [f \in SendFutures |-> None]
  /\ receive = [f \in ReceiveFutures |-> "none"]
  /\ waiting_senders = {} /\ waiting_receivers = {} /\ woken = {}

Running == channel # "panicked"

Sending == {f \in SendFutures : send[f] # "none"}
Receiving == {f \in ReceiveFutures : receive[f] # "none"}
PendingSends == {f \in SendFutures : send[f] = "pending"}
PendingReceives == {f \in ReceiveFutures : receive[f] = "pending"}

Queued == {queue[i] : i \in 1 .. Len(queue)}
Unused == Values \ (Queued \cup {value[f] : f \in SendFutures})

----------------------------------------------------------------------------
(* The two lists.                                                          *)

\* Channel::notify_waiting_receivers: the list is emptied and all of it is
\* woken, beside the futures w that are woken already.
NotifyReceivers(w) ==
  /\ waiting_receivers' = {}
  /\ woken' = w \cup waiting_receivers

SendersForgotten(w) ==
  /\ waiting_senders' = {}
  /\ woken' = w

\* Channel::notify_waiting_senders.
NotifySenders(w) ==
  /\ waiting_senders' = {}
  /\ woken' = w \cup waiting_senders

----------------------------------------------------------------------------
(* Handles.                                                                *)

\* Channel::split. It returns None from the second call on.
Split ==
  /\ channel = "new"
  /\ channel' = "split"
  /\ senders' = 1 /\ receivers' = 1
  /\ tx' = 1 /\ rx' = 1
  /\ UNCHANGED <<queue, futures, lists>>

\* Sender::clone and Receiver::clone.
CloneSender ==
  /\ Running /\ senders \in 1 .. MaxHandles - 1
  /\ senders' = senders + 1
  /\ tx' = tx + 1
  /\ UNCHANGED <<channel, queue, receivers, rx, futures, lists>>

CloneReceiver ==
  /\ Running /\ receivers \in 1 .. MaxHandles - 1
  /\ receivers' = receivers + 1
  /\ rx' = rx + 1
  /\ UNCHANGED <<channel, queue, senders, tx, futures, lists>>

DropSenderRefTooLate(w) ==
  /\ tx' = tx - 1
  /\ IF tx = 0
     THEN NotifyReceivers(w)
     ELSE woken' = w /\ UNCHANGED waiting_receivers

\* Drop for SenderRef: the last one wakes the receivers.
DropSenderRef(w) ==
  /\ tx' = tx - 1
  /\ IF tx = 1
     THEN NotifyReceivers(w)
     ELSE woken' = w /\ UNCHANGED waiting_receivers

DropReceiverRefSilently(w) ==
  /\ rx' = rx - 1
  /\ woken' = w /\ UNCHANGED waiting_senders

\* Drop for ReceiverRef: the last one wakes the senders.
DropReceiverRef(w) ==
  /\ rx' = rx - 1
  /\ IF rx = 1
     THEN NotifySenders(w)
     ELSE woken' = w /\ UNCHANGED waiting_senders

DropSender ==
  /\ Running /\ senders > 0
  /\ senders' = senders - 1
  /\ DropSenderRef(woken)
  /\ UNCHANGED <<channel, queue, receivers, rx, futures, waiting_senders>>

DropReceiver ==
  /\ Running /\ receivers > 0
  /\ receivers' = receivers - 1
  /\ DropReceiverRef(woken)
  /\ UNCHANGED <<channel, queue, senders, tx, futures, waiting_receivers>>

----------------------------------------------------------------------------
(* Sending. The operators take the futures that are woken already.         *)

EnqueueWithoutReceivers(v, w) ==
  /\ Len(queue) < Capacity
  /\ queue' = Append(queue, v)
  /\ NotifyReceivers(w)

\* ChannelOps::try_send with room in the queue.
Enqueue(v, w) ==
  /\ rx > 0 /\ Len(queue) < Capacity
  /\ queue' = Append(queue, v)
  /\ NotifyReceivers(w)

\* Sender::try_send. A value that is refused, because the queue is full or
\* because there is no receiver, goes back to the caller.
TrySend(v) ==
  /\ Running /\ senders > 0 /\ v \in Unused
  /\ Enqueue(v, woken)
  /\ UNCHANGED <<channel, refs, futures, waiting_senders>>

\* Sender::send only makes the future.
Send(f, v) ==
  /\ Running /\ senders > 0 /\ send[f] = "none" /\ v \in Unused
  /\ send' = [send EXCEPT ![f] = "new"]
  /\ value' = [value EXCEPT ![f] = v]
  /\ tx' = tx + 1
  /\ UNCHANGED <<channel, queue, senders, receivers, rx, receive, lists>>

PollableSend(f) == send[f] = "new" \/ (send[f] = "pending" /\ f \in woken)

SendDone(f) ==
  /\ send' = [send EXCEPT ![f] = "done"]
  /\ value' = [value EXCEPT ![f] = None]

\* The three results of SendFuture::poll: Ok, Err with the value given back,
\* and Pending with the value put back and the link pushed.
SendAccepted(f) ==
  /\ Enqueue(value[f], woken \ {f})
  /\ SendDone(f)
  /\ UNCHANGED waiting_senders

SendRefused(f) ==
  /\ rx = 0
  /\ SendDone(f)
  /\ woken' = woken \ {f}
  /\ UNCHANGED <<queue, waiting_senders, waiting_receivers>>

SendParksWithoutValue(f) ==
  /\ rx > 0 /\ Len(queue) = Capacity
  /\ send' = [send EXCEPT ![f] = "pending"]
  /\ value' = [value EXCEPT ![f] = None]
  /\ waiting_senders' = waiting_senders \cup {f}
  /\ woken' = woken \ {f}
  /\ UNCHANGED <<queue, waiting_receivers>>

SendParks(f) ==
  /\ rx > 0 /\ Len(queue) = Capacity
  /\ send' = [send EXCEPT ![f] = "pending"]
  /\ waiting_senders' = waiting_senders \cup {f}
  /\ woken' = woken \ {f}
  /\ UNCHANGED <<queue, value, waiting_receivers>>

\* SendFuture::poll.
PollSend(f) ==
  /\ Running /\ PollableSend(f)
  /\ SendAccepted(f) \/ SendRefused(f) \/ SendParks(f)
  /\ UNCHANGED <<channel, refs, receive>>

\* A SendFuture is dropped, with its value if it still has it: the link
\* unlinks itself, then the SenderRef goes.
DropSend(f) ==
  /\ Running /\ send[f] # "none"
  /\ send' = [send EXCEPT ![f] = "none"]
  /\ value' = [value EXCEPT ![f] = None]
  /\ waiting_senders' = waiting_senders \ {f}
  /\ DropSenderRef(woken \ {f})
  /\ UNCHANGED <<channel, queue, senders, receivers, rx, receive>>

----------------------------------------------------------------------------
(* Receiving.                                                              *)

\* ChannelOps::try_recv with a value in the queue. That there is no sender
\* left only matters once the queue is empty.
Dequeue(w) ==
  /\ queue # <<>>
  /\ queue' = Tail(queue)
  /\ NotifySenders(w)

\* Receiver::try_recv. With nothing to return it changes nothing.
TryRecv ==
  /\ Running /\ receivers > 0
  /\ Dequeue(woken)
  /\ UNCHANGED <<channel, refs, futures, waiting_receivers>>

\* Receiver::recv only makes the future.
Recv(f) ==
  /\ Running /\ receivers > 0 /\ receive[f] = "none"
  /\ receive' = [receive EXCEPT ![f] = "new"]
  /\ rx' = rx + 1
  /\ UNCHANGED <<channel, queue, senders, receivers, tx, send, value, lists>>

PollableReceive(f) == receive[f] = "new" \/ (receive[f] = "pending" /\ f \in woken)

ReceiveDone(f) == receive' = [receive EXCEPT ![f] = "done"]

\* The three results of ReceiveFuture::poll.
ReceiveValue(f) ==
  /\ Dequeue(woken \ {f})
  /\ ReceiveDone(f)
  /\ UNCHANGED waiting_receivers

ReceiveClosed(f) ==
  /\ queue = <<>> /\ tx = 0
  /\ ReceiveDone(f)
  /\ woken' = woken \ {f}
  /\ UNCHANGED <<queue, waiting_senders, waiting_receivers>>

ReceiveParksWhenClosed(f) ==
  /\ queue = <<>>
  /\ receive' = [receive EXCEPT ![f] = "pending"]
  /\ waiting_receivers' = waiting_receivers \cup {f}
  /\ woken' = woken \ {f}
  /\ UNCHANGED <<queue, waiting_senders>>

ReceiveParks(f) ==
  /\ queue = <<>> /\ tx > 0
  /\ receive' = [receive EXCEPT ![f] = "pending"]
  /\ waiting_receivers' = waiting_receivers \cup {f}
  /\ woken' = woken \ {f}
  /\ UNCHANGED <<queue, waiting_senders>>

\* ReceiveFuture::poll.
PollReceive(f) ==
  /\ Running /\ PollableReceive(f)
  /\ ReceiveValue(f) \/ ReceiveClosed(f) \/ ReceiveParks(f)
  /\ UNCHANGED <<channel, refs, send, value>>

\* A ReceiveFuture is dropped: its link, then the ReceiverRef.
DropReceive(f) ==
  /\ Running /\ receive[f] # "none"
  /\ receive' = [receive EXCEPT ![f] = "none"]
  /\ waiting_receivers' = waiting_receivers \ {f}
  /\ DropReceiverRef(woken \ {f})
  /\ UNCHANGED <<channel, queue, senders, receivers, tx, send, value>>

----------------------------------------------------------------------------
(* The end of the channel.                                                 *)

DropChannelChecksReceivers ==
  /\ channel \in {"new", "split"}
  /\ channel' = IF rx = 0 THEN "dropped" ELSE "panicked"
  /\ queue' = <<>>
  /\ UNCHANGED <<refs, futures, lists>>

\* The channel is dropped, with the values in it. The Drop of either RcAnchor
\* panics if it is still referred to; the program ends there.
DropChannel ==
  /\ channel \in {"new", "split"}
  /\ channel' = IF tx = 0 /\ rx = 0 THEN "dropped" ELSE "panicked"
  /\ queue' = <<>>
  /\ UNCHANGED <<refs, futures, lists>>

Next ==
  \/ Split \/ CloneSender \/ CloneReceiver \/ DropSender \/ DropReceiver
  \/ \E v \in Values : TrySend(v)
  \/ \E f \in SendFutures, v \in Values : Send(f, v)
  \/ \E f \in SendFutures : PollSend(f) \/ DropSend(f)
  \/ TryRecv
  \/ \E f \in ReceiveFutures : Recv(f) \/ PollReceive(f) \/ DropReceive(f)
  \/ DropChannel

Spec == Init /\ [][Next]_vars

\* The executor polls every task that was woken. Nothing else is assumed: no
\* task has to send, to receive or to drop anything.
Fairness ==
  /\ \A f \in SendFutures : WF_vars(PollSend(f))
  /\ \A f \in ReceiveFutures : WF_vars(PollReceive(f))

FairSpec == Spec /\ Fairness

----------------------------------------------------------------------------
(* Properties.                                                             *)

\* A receiver only sleeps in the list while there is nothing to receive and
\* somebody who could send: neither the value nor the end of the channel can
\* have come without waking it.
ReceiversParkOnlyWhenEmpty == waiting_receivers # {} => queue = <<>> /\ tx > 0

\* A sender only sleeps in the list while the queue is full and somebody
\* could make room.
SendersParkOnlyWhenFull == Running /\ waiting_senders # {} => Len(queue) = Capacity /\ rx > 0

\* A future that returned Pending is in its list or has been woken, never
\* both and never neither.
ParkedOrWoken ==
  /\ waiting_senders \cup waiting_receivers \cup woken = PendingSends \cup PendingReceives
  /\ (waiting_senders \cup waiting_receivers) \cap woken = {}

\* Both counts are exact: the two sides see the last reference of the other
\* go, in whatever order handles and futures are dropped.
CountsReferences ==
  /\ tx = senders + Cardinality(Sending)
  /\ rx = receivers + Cardinality(Receiving)

\* A channel that was dropped without a panic has nothing pointing at it.
NothingOutlivesChannel ==
  channel = "dropped" =>
    senders = 0 /\ receivers = 0 /\ Sending = {} /\ Receiving = {}

\* A value is in one place: in the queue once, or in one future that has not
\* sent it. A future that will be polled has its value, so the expect in
\* SendFuture::poll does not panic however often the queue was full.
ValuesInOnePlace ==
  /\ \A i, j \in 1 .. Len(queue) : queue[i] = queue[j] => i = j
  /\ \A f \in SendFutures :
       /\ value[f] # None <=> send[f] \in {"new", "pending"}
       /\ value[f] \notin Queued
       /\ \A g \in SendFutures : value[f] = value[g] => f = g \/ value[f] = None

\* TryRecvError::Closed is final, "so no future values will be added": when
\* the last reference of the senders is gone, none comes back and nothing
\* joins the queue. The same holds of the receivers.
SendersGone == channel # "new" /\ tx = 0
ReceiversGone == channel # "new" /\ rx = 0

ClosedIsFinal ==
  [][ /\ SendersGone => SendersGone' /\ Len(queue') <= Len(queue)
      /\ ReceiversGone => ReceiversGone' /\ Len(queue') <= Len(queue) ]_vars

\* Whoever waits on a channel whose other side is gone is told, with a value
\* that was left or with an error.
ClosedIsTold ==
  /\ \A f \in ReceiveFutures :
       receive[f] = "pending" /\ SendersGone ~> receive[f] # "pending" \/ ~Running
  /\ \A f \in SendFutures :
       send[f] = "pending" /\ ReceiversGone ~> send[f] # "pending" \/ ~Running

Abstract == INSTANCE AbstractChannel
  WITH Senders <- SendFutures, Receivers <- ReceiveFutures,
       offered <- IF Running THEN {<<f, value[f]>> : f \in PendingSends} ELSE {},
       waiting <- IF Running THEN PendingReceives ELSE {},
       tx_open <- Running /\ (channel = "new" \/ tx > 0) /\ channel # "dropped",
       rx_open <- Running /\ (channel = "new" \/ rx > 0) /\ channel # "dropped"

\* The channel is the FIFO of AbstractChannel, its progress included: when
\* there is room, or a value, some of those who wait get it, although every
\* one of them has to be polled first, may be overtaken, and may go away.
ImplementsAbstractChannel == Abstract!Spec
=============================================================================
