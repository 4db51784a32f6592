-------------------------- MODULE AbstractChannel --------------------------
(***************************************************************************)
(* What the channel of src/channel/mod.rs promises: a FIFO of at most      *)
(* Capacity values. Callers wait only on a full or an empty queue and only *)
(* while the other side exists; of those who wait some are served when     *)
(* there is something to do for them; and a side that is gone stays gone.  *)
(* There is no order among those who wait, and who does not wait may       *)
(* overtake them.                                                          *)
(***************************************************************************)
EXTENDS Naturals, Sequences

CONSTANTS Senders, Receivers, Values, Capacity

VARIABLES
  queue,    \* the values accepted and not yet delivered
  offered,  \* pairs of a waiting sender and its value
  waiting,  \* waiting receivers
  tx_open,  \* senders may still exist
  rx_open   \* receivers may still exist

vars == <<queue, offered, waiting, tx_open, rx_open>>

Init ==
  /\ queue = <<>>
  /\ offered = {} /\ waiting = {}
  /\ tx_open = TRUE /\ rx_open = TRUE

Room == rx_open /\ Len(queue) < Capacity

Put(v) ==
  /\ Room /\ tx_open
  /\ queue' = Append(queue, v)
  /\ UNCHANGED <<offered, waiting, tx_open, rx_open>>

WaitToSend(s, v) ==
  /\ rx_open /\ tx_open /\ Len(queue) = Capacity
  /\ offered' = offered \cup {<<s, v>>}
  /\ UNCHANGED <<queue, waiting, tx_open, rx_open>>

\* The value of a waiting sender is accepted, or given back.
ServeSender(o) ==
  /\ o \in offered
  /\ \/ Room /\ queue' = Append(queue, o[2])
     \/ ~rx_open /\ UNCHANGED queue
  /\ offered' = offered \ {o}
  /\ UNCHANGED <<waiting, tx_open, rx_open>>

Take ==
  /\ queue # <<>> /\ rx_open
  /\ queue' = Tail(queue)
  /\ UNCHANGED <<offered, waiting, tx_open, rx_open>>

WaitToReceive(r) ==
  /\ tx_open /\ rx_open /\ queue = <<>>
  /\ waiting' = waiting \cup {r}
  /\ UNCHANGED <<queue, offered, tx_open, rx_open>>

\* A waiting receiver gets a value, or hears that there will be none.
ServeReceiver(r) ==
  /\ r \in waiting
  /\ \/ queue # <<>> /\ queue' = Tail(queue)
     \/ queue = <<>> /\ ~tx_open /\ UNCHANGED queue
  /\ waiting' = waiting \ {r}
  /\ UNCHANGED <<offered, tx_open, rx_open>>

\* Some senders leave, perhaps the last. Who waits counts as being there.
SendersLeave ==
  /\ offered' \subseteq offered
  /\ tx_open' \in {tx_open, FALSE} /\ (tx_open' \/ offered' = {})
  /\ UNCHANGED <<queue, waiting, rx_open>>

ReceiversLeave ==
  /\ waiting' \subseteq waiting
  /\ rx_open' \in {rx_open, FALSE} /\ (rx_open' \/ waiting' = {})
  /\ UNCHANGED <<queue, offered, tx_open>>

\* The channel is destroyed, and its values with it.
Destroy ==
  /\ queue' = <<>>
  /\ offered' = {} /\ waiting' = {}
  /\ tx_open' = FALSE /\ rx_open' = FALSE

Next ==
  \/ \E v \in Values : Put(v)
  \/ \E s \in Senders, v \in Values : WaitToSend(s, v)
  \/ \E o \in offered : ServeSender(o)
  \/ Take
  \/ \E r \in Receivers : WaitToReceive(r) \/ ServeReceiver(r)
  \/ SendersLeave \/ ReceiversLeave \/ Destroy

Fairness ==
  /\ WF_vars(\E o \in Senders \X Values : ServeSender(o))
  /\ WF_vars(\E r \in Receivers : ServeReceiver(r))

Spec == Init /\ [][Next]_vars /\ Fairness
=============================================================================
