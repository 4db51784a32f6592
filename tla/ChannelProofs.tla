--------------------------- MODULE ChannelProofs ---------------------------
(***************************************************************************)
(* The safety properties of Channel.tla, for any finite sets of futures,   *)
(* any set of values, any capacity and any number of handles.              *)
(***************************************************************************)
EXTENDS Channel, FiniteSetTheorems, TLAPS

\* Before the split nobody refers to the channel. Without this the first
\* split could start the counts from 1 while more than one thing exists.
UnsplitIsUnused ==
  channel = "new" => senders = 0 /\ receivers = 0 /\ Sending = {} /\ Receiving = {}

\* The inductive invariant. The properties need each other: the last one to
\* leave a side is seen because the counts are exact, the counts stay natural
\* numbers because everybody who leaves was counted, and a polled future is in
\* no list because it was woken.
IInv ==
  /\ TypeOK
  /\ ReceiversParkOnlyWhenEmpty
  /\ SendersParkOnlyWhenFull
  /\ ParkedOrWoken
  /\ CountsReferences
  /\ NothingOutlivesChannel
  /\ ValuesInOnePlace
  /\ UnsplitIsUnused

----------------------------------------------------------------------------
(* The queue. No two of its places hold the same value.                    *)

Distinct(q) == \A i, j \in 1 .. Len(q) : q[i] = q[j] => i = j
Held(q) == {q[i] : i \in 1 .. Len(q)}

\* Appending a value that is not in the queue.
LEMMA AppendDistinct ==
  ASSUME NEW q \in Seq(Values), NEW v \in Values, Distinct(q), v \notin Held(q)
  PROVE  /\ Append(q, v) \in Seq(Values)
         /\ Len(Append(q, v)) = Len(q) + 1
         /\ Held(Append(q, v)) = Held(q) \cup {v}
         /\ Distinct(Append(q, v))
<1> DEFINE r == Append(q, v)
<1>1. r \in Seq(Values) /\ Len(r) = Len(q) + 1 /\ Len(q) \in Nat
  OBVIOUS
<1>2. \A i \in 1 .. Len(q) : r[i] = q[i]
  OBVIOUS
<1>3. r[Len(q) + 1] = v
  OBVIOUS
<1>4. 1 .. Len(r) = (1 .. Len(q)) \cup {Len(q) + 1}
  BY <1>1
<1> HIDE DEF r
<1>5. Held(r) = Held(q) \cup {v}
  BY <1>2, <1>3, <1>4 DEF Held
<1>6. Distinct(r)
  BY <1>2, <1>3, <1>4 DEF Distinct, Held
<1> QED BY <1>1, <1>5, <1>6 DEF r

\* Taking the first one out.
LEMMA TailDistinct ==
  ASSUME NEW q \in Seq(Values), q # <<>>, Distinct(q)
  PROVE  /\ Tail(q) \in Seq(Values)
         /\ Len(Tail(q)) = Len(q) - 1
         /\ Held(Tail(q)) \subseteq Held(q)
         /\ Distinct(Tail(q))
<1> DEFINE r == Tail(q)
<1>1. r \in Seq(Values) /\ Len(r) = Len(q) - 1 /\ Len(q) \in Nat \ {0}
  OBVIOUS
<1>2. \A i \in 1 .. Len(r) : r[i] = q[i + 1]
  OBVIOUS
<1>3. \A i \in 1 .. Len(r) : i + 1 \in 1 .. Len(q)
  BY <1>1
<1> HIDE DEF r
<1>4. Held(r) \subseteq Held(q)
  BY <1>2, <1>3 DEF Held
<1>5. Distinct(r)
  <2> SUFFICES ASSUME NEW i \in 1 .. Len(r), NEW j \in 1 .. Len(r), r[i] = r[j]
               PROVE  i = j
    BY DEF Distinct
  <2>1. q[i + 1] = q[j + 1]
    BY <1>2
  <2>2. i + 1 = j + 1
    BY <1>3, <2>1 DEF Distinct
  <2> QED BY <1>1, <2>2
<1> QED BY <1>1, <1>4, <1>5 DEF r

----------------------------------------------------------------------------
(* Counting the futures of either side. The lemmas are about any function  *)
(* s from a finite set to FutureStates, which send and receive both are.   *)

Made(F, s) == {f \in F : s[f] # "none"}

LEMMA MadeFinite ==
  ASSUME NEW F, IsFiniteSet(F), NEW s
  PROVE  IsFiniteSet(Made(F, s)) /\ Cardinality(Made(F, s)) \in Nat
<1>1. IsFiniteSet(Made(F, s))
  BY FS_Subset DEF Made
<1> QED BY <1>1, FS_CardinalityType

\* Creating a future adds one.
LEMMA OneMore ==
  ASSUME NEW F, IsFiniteSet(F), NEW s \in [F -> FutureStates], NEW f \in F, s[f] = "none"
  PROVE  Cardinality(Made(F, [s EXCEPT ![f] = "new"])) = Cardinality(Made(F, s)) + 1
<1>1. Made(F, [s EXCEPT ![f] = "new"]) = Made(F, s) \cup {f}
  BY DEF Made
<1>2. f \notin Made(F, s)
  BY DEF Made
<1> QED BY <1>1, <1>2, MadeFinite, FS_AddElement

\* Dropping one takes one away.
LEMMA OneLess ==
  ASSUME NEW F, IsFiniteSet(F), NEW s \in [F -> FutureStates], NEW f \in F, s[f] # "none"
  PROVE  /\ Cardinality(Made(F, [s EXCEPT ![f] = "none"])) = Cardinality(Made(F, s)) - 1
         /\ Cardinality(Made(F, s)) > 0
<1>1. Made(F, [s EXCEPT ![f] = "none"]) = Made(F, s) \ {f}
  BY DEF Made
<1>2. f \in Made(F, s)
  BY DEF Made
<1>3. IsFiniteSet(Made(F, s)) /\ Cardinality(Made(F, s)) \in Nat
  BY MadeFinite
<1>4. Cardinality(Made(F, s)) # 0
  BY <1>2, <1>3, FS_EmptySet
<1>5. Cardinality(Made(F, s) \ {f}) = Cardinality(Made(F, s)) - 1
  BY <1>2, <1>3, FS_RemoveElement
<1>6. Cardinality(Made(F, s)) > 0
  BY <1>3, <1>4
<1> QED BY <1>1, <1>5, <1>6, Zenon

\* Polling changes what a future does and not how many there are.
LEMMA SameNumber ==
  ASSUME NEW F, NEW s \in [F -> FutureStates], NEW f \in F, s[f] # "none",
         NEW t \in FutureStates, t # "none"
  PROVE  Made(F, [s EXCEPT ![f] = t]) = Made(F, s)
  BY DEF Made

\* What send and receive give for the two sides of the channel.
LEMMA SidesCounted ==
  ASSUME TypeOK
  PROVE  /\ Sending = Made(SendFutures, send) /\ Sending' = Made(SendFutures, send')
         /\ Receiving = Made(ReceiveFutures, receive)
         /\ Receiving' = Made(ReceiveFutures, receive')
         /\ IsFiniteSet(Sending) /\ Cardinality(Sending) \in Nat
         /\ IsFiniteSet(Receiving) /\ Cardinality(Receiving) \in Nat
<1>1. /\ Sending = Made(SendFutures, send) /\ Sending' = Made(SendFutures, send')
      /\ Receiving = Made(ReceiveFutures, receive)
      /\ Receiving' = Made(ReceiveFutures, receive')
  BY DEF Sending, Receiving, Made
<1> QED BY <1>1, SidesAssumption, MadeFinite

----------------------------------------------------------------------------
(* The invariant.                                                          *)

LEMMA InitEstablishes == Init => IInv
<1> SUFFICES ASSUME Init PROVE IInv
  OBVIOUS
<1>1. /\ Sending = {} /\ Receiving = {}
      /\ PendingSends = {} /\ PendingReceives = {}
      /\ Queued = {}
  BY DEF Init, Sending, Receiving, PendingSends, PendingReceives, Queued
<1>2. TypeOK
  BY BoundsAssumption DEF Init, TypeOK, FutureStates
<1>3. CountsReferences
  <2>1. Cardinality(Sending) = 0 /\ Cardinality(Receiving) = 0
    BY <1>1, FS_EmptySet
  <2> QED BY <2>1 DEF Init, CountsReferences
<1>4. ValuesInOnePlace
  BY <1>1 DEF Init, ValuesInOnePlace
<1> QED
  BY <1>1, <1>2, <1>3, <1>4
  DEF Init, IInv, ReceiversParkOnlyWhenEmpty, SendersParkOnlyWhenFull, ParkedOrWoken,
      NothingOutlivesChannel, UnsplitIsUnused, Running

\* A step keeps the types. Appending stays within the capacity because
\* there was room, and the counts stay natural numbers because they count
\* the handle or the future that goes.
LEMMA CountPreserved ==
  ASSUME IInv, Next
  PROVE  TypeOK' /\ CountsReferences'
<1> USE BoundsAssumption
    DEF TypeOK, CountsReferences, IInv, Running, refs, futures, lists
<1>0. Cardinality(Sending) \in Nat /\ Cardinality(Receiving) \in Nat
  BY SidesCounted
<1>1. CASE Split
  <2>1. Sending = {} /\ Receiving = {}
    BY <1>1 DEF Split, UnsplitIsUnused
  <2>2. Sending' = {} /\ Receiving' = {}
    BY <1>1, <2>1 DEF Split, Sending, Receiving
  <2>3. Cardinality(Sending') = 0 /\ Cardinality(Receiving') = 0
    BY <2>2, FS_EmptySet
  <2> QED BY <1>1, <2>3 DEF Split
<1>2. CASE CloneSender
  <2>1. Sending' = Sending /\ Receiving' = Receiving
    BY <1>2 DEF CloneSender, Sending, Receiving
  <2> QED BY <1>0, <1>2, <2>1 DEF CloneSender
<1>3. CASE CloneReceiver
  <2>1. Sending' = Sending /\ Receiving' = Receiving
    BY <1>3 DEF CloneReceiver, Sending, Receiving
  <2> QED BY <1>0, <1>3, <2>1 DEF CloneReceiver
<1>4. CASE DropSender
  <2>1. Sending' = Sending /\ Receiving' = Receiving
    BY <1>4 DEF DropSender, Sending, Receiving
  <2> QED BY <1>0, <1>4, <2>1, SMTT(20) DEF DropSender, DropSenderRef, NotifyReceivers
<1>5. CASE DropReceiver
  <2>1. Sending' = Sending /\ Receiving' = Receiving
    BY <1>5 DEF DropReceiver, Sending, Receiving
  <2> QED BY <1>0, <1>5, <2>1, SMTT(20) DEF DropReceiver, DropReceiverRef, NotifySenders
<1>6. ASSUME NEW v \in Values, TrySend(v)
      PROVE  TypeOK' /\ CountsReferences'
  <2>1. Sending' = Sending /\ Receiving' = Receiving
    BY <1>6 DEF TrySend, Sending, Receiving
  <2> QED BY <1>6, <2>1 DEF TrySend, Enqueue, NotifyReceivers
<1>7. ASSUME NEW f \in SendFutures, NEW v \in Values, Send(f, v)
      PROVE  TypeOK' /\ CountsReferences'
  <2>1. Receiving' = Receiving
    BY <1>7 DEF Send, Receiving
  <2>2. Cardinality(Sending') = Cardinality(Sending) + 1
    <3>1. send[f] = "none" /\ send' = [send EXCEPT ![f] = "new"]
      BY <1>7 DEF Send
    <3>2. Cardinality(Made(SendFutures, [send EXCEPT ![f] = "new"]))
            = Cardinality(Made(SendFutures, send)) + 1
      BY <3>1, SidesAssumption, OneMore
    <3> QED BY <3>1, <3>2, SidesCounted, Zenon
  <2>3. CountsReferences'
    BY <1>0, <1>7, <2>1, <2>2 DEF Send
  <2>4. TypeOK'
    BY <1>7 DEF Send, FutureStates
  <2> QED BY <2>3, <2>4
<1>8. ASSUME NEW f \in SendFutures, PollSend(f)
      PROVE  TypeOK' /\ CountsReferences'
  <2>1. Receiving' = Receiving
    BY <1>8 DEF PollSend, Receiving
  <2>2. send[f] # "none" /\ value[f] \in Values
    BY <1>8 DEF PollSend, PollableSend, ValuesInOnePlace
  <2>3. CASE SendAccepted(f)
    <3>1. Sending' = Sending
      BY <2>2, <2>3, SidesCounted, SameNumber DEF SendAccepted, SendDone, FutureStates
    <3> QED
      BY <1>8, <2>1, <2>2, <2>3, <3>1
      DEF PollSend, SendAccepted, SendDone, Enqueue, NotifyReceivers, FutureStates
  <2>4. CASE SendRefused(f)
    <3>1. Sending' = Sending
      BY <2>2, <2>4, SidesCounted, SameNumber DEF SendRefused, SendDone, FutureStates
    <3> QED
      BY <1>8, <2>1, <2>4, <3>1 DEF PollSend, SendRefused, SendDone, FutureStates
  <2>5. CASE SendParks(f)
    <3>1. Sending' = Sending
      BY <2>2, <2>5, SidesCounted, SameNumber DEF SendParks, FutureStates
    <3> QED
      BY <1>8, <2>1, <2>5, <3>1 DEF PollSend, SendParks, FutureStates
  <2> QED BY <1>8, <2>3, <2>4, <2>5 DEF PollSend
<1>9. ASSUME NEW f \in SendFutures, DropSend(f)
      PROVE  TypeOK' /\ CountsReferences'
  <2>1. Receiving' = Receiving
    BY <1>9 DEF DropSend, Receiving
  <2>2. Cardinality(Sending') = Cardinality(Sending) - 1 /\ Cardinality(Sending) > 0
    <3>1. send[f] # "none" /\ send' = [send EXCEPT ![f] = "none"]
      BY <1>9 DEF DropSend
    <3>2. /\ Cardinality(Made(SendFutures, [send EXCEPT ![f] = "none"]))
               = Cardinality(Made(SendFutures, send)) - 1
          /\ Cardinality(Made(SendFutures, send)) > 0
      BY <3>1, SidesAssumption, OneLess
    <3> QED BY <3>1, <3>2, SidesCounted, Zenon
  <2>3. CountsReferences' /\ tx' \in Nat
    BY <1>0, <1>9, <2>1, <2>2, SMTT(20) DEF DropSend, DropSenderRef
  <2>4. waiting_receivers' \subseteq waiting_receivers /\ woken' \subseteq woken \cup waiting_receivers
    BY <1>9 DEF DropSend, DropSenderRef, NotifyReceivers
  <2> QED BY <1>9, <2>3, <2>4 DEF DropSend, FutureStates
<1>10. CASE TryRecv
  <2>1. Sending' = Sending /\ Receiving' = Receiving
    BY <1>10 DEF TryRecv, Sending, Receiving
  <2> QED BY <1>10, <2>1 DEF TryRecv, Dequeue, NotifySenders
<1>11. ASSUME NEW f \in ReceiveFutures, Recv(f)
       PROVE  TypeOK' /\ CountsReferences'
  <2>1. Sending' = Sending
    BY <1>11 DEF Recv, Sending
  <2>2. Cardinality(Receiving') = Cardinality(Receiving) + 1
    <3>1. receive[f] = "none" /\ receive' = [receive EXCEPT ![f] = "new"]
      BY <1>11 DEF Recv
    <3>2. Cardinality(Made(ReceiveFutures, [receive EXCEPT ![f] = "new"]))
            = Cardinality(Made(ReceiveFutures, receive)) + 1
      BY <3>1, SidesAssumption, OneMore
    <3> QED BY <3>1, <3>2, SidesCounted, Zenon
  <2> QED BY <1>0, <1>11, <2>1, <2>2, SMTT(20) DEF Recv, FutureStates
<1>12. ASSUME NEW f \in ReceiveFutures, PollReceive(f)
       PROVE  TypeOK' /\ CountsReferences'
  <2>1. Sending' = Sending
    BY <1>12 DEF PollReceive, Sending
  <2>2. receive[f] # "none"
    BY <1>12 DEF PollReceive, PollableReceive
  <2>3. CASE ReceiveValue(f)
    <3>1. Receiving' = Receiving
      BY <2>2, <2>3, SidesCounted, SameNumber DEF ReceiveValue, ReceiveDone, FutureStates
    <3> QED
      BY <1>12, <2>1, <2>3, <3>1
      DEF PollReceive, ReceiveValue, ReceiveDone, Dequeue, NotifySenders, FutureStates
  <2>4. CASE ReceiveClosed(f)
    <3>1. Receiving' = Receiving
      BY <2>2, <2>4, SidesCounted, SameNumber DEF ReceiveClosed, ReceiveDone, FutureStates
    <3> QED
      BY <1>12, <2>1, <2>4, <3>1 DEF PollReceive, ReceiveClosed, ReceiveDone, FutureStates
  <2>5. CASE ReceiveParks(f)
    <3>1. Receiving' = Receiving
      BY <2>2, <2>5, SidesCounted, SameNumber DEF ReceiveParks, FutureStates
    <3> QED
      BY <1>12, <2>1, <2>5, <3>1 DEF PollReceive, ReceiveParks, FutureStates
  <2> QED BY <1>12, <2>3, <2>4, <2>5 DEF PollReceive
<1>13. ASSUME NEW f \in ReceiveFutures, DropReceive(f)
       PROVE  TypeOK' /\ CountsReferences'
  <2>1. Sending' = Sending
    BY <1>13 DEF DropReceive, Sending
  <2>2. Cardinality(Receiving') = Cardinality(Receiving) - 1 /\ Cardinality(Receiving) > 0
    <3>1. receive[f] # "none" /\ receive' = [receive EXCEPT ![f] = "none"]
      BY <1>13 DEF DropReceive
    <3>2. /\ Cardinality(Made(ReceiveFutures, [receive EXCEPT ![f] = "none"]))
               = Cardinality(Made(ReceiveFutures, receive)) - 1
          /\ Cardinality(Made(ReceiveFutures, receive)) > 0
      BY <3>1, SidesAssumption, OneLess
    <3> QED BY <3>1, <3>2, SidesCounted, Zenon
  <2> QED
    BY <1>0, <1>13, <2>1, <2>2, SMTT(20)
    DEF DropReceive, DropReceiverRef, NotifySenders, FutureStates
<1>14. CASE DropChannel
  <2>1. Sending' = Sending /\ Receiving' = Receiving
    BY <1>14 DEF DropChannel, Sending, Receiving
  <2> QED BY <1>14, <2>1 DEF DropChannel
<1> QED
  BY <1>1, <1>2, <1>3, <1>4, <1>5, <1>6, <1>7, <1>8, <1>9, <1>10, <1>11, <1>12, <1>13, <1>14
  DEF Next

\* A future that is polled sits in no list, and afterwards it is in the list
\* of its side exactly if it is pending. Whoever else was parked or woken
\* stays so, since a list is only ever emptied into woken.
LEMMA WaitersPreserved ==
  ASSUME IInv, Next
  PROVE  ParkedOrWoken'
<1> USE SidesAssumption
    DEF TypeOK, ParkedOrWoken, IInv, PendingSends, PendingReceives, refs, futures, lists
<1>1. CASE Split
  BY <1>1 DEF Split
<1>2. CASE CloneSender
  BY <1>2 DEF CloneSender
<1>3. CASE CloneReceiver
  BY <1>3 DEF CloneReceiver
<1>4. CASE DropSender
  BY <1>4 DEF DropSender, DropSenderRef, NotifyReceivers
<1>5. CASE DropReceiver
  BY <1>5 DEF DropReceiver, DropReceiverRef, NotifySenders
<1>6. ASSUME NEW v \in Values, TrySend(v)
      PROVE  ParkedOrWoken'
  BY <1>6 DEF TrySend, Enqueue, NotifyReceivers
<1>7. ASSUME NEW f \in SendFutures, NEW v \in Values, Send(f, v)
      PROVE  ParkedOrWoken'
  <2>1. PendingSends' = PendingSends /\ PendingReceives' = PendingReceives
    BY <1>7 DEF Send
  <2> QED BY <1>7, <2>1 DEF Send
<1>8. ASSUME NEW f \in SendFutures, PollSend(f)
      PROVE  ParkedOrWoken'
  <2>1. f \notin waiting_senders \cup waiting_receivers /\ f \notin PendingReceives
    BY <1>8 DEF PollSend, PollableSend
  <2>2. PendingReceives' = PendingReceives
    BY <1>8 DEF PollSend
  <2>3. CASE SendAccepted(f)
    <3>1. PendingSends' = PendingSends \ {f}
      BY <2>3 DEF SendAccepted, SendDone
    <3> QED BY <2>1, <2>2, <2>3, <3>1 DEF SendAccepted, Enqueue, NotifyReceivers
  <2>4. CASE SendRefused(f)
    <3>1. PendingSends' = PendingSends \ {f}
      BY <2>4 DEF SendRefused, SendDone
    <3> QED BY <2>1, <2>2, <2>4, <3>1 DEF SendRefused
  <2>5. CASE SendParks(f)
    <3>1. PendingSends' = PendingSends \cup {f}
      BY <2>5 DEF SendParks
    <3> QED BY <2>1, <2>2, <2>5, <3>1 DEF SendParks
  <2> QED BY <1>8, <2>3, <2>4, <2>5 DEF PollSend
<1>9. ASSUME NEW f \in SendFutures, DropSend(f)
      PROVE  ParkedOrWoken'
  <2>1. PendingSends' = PendingSends \ {f} /\ PendingReceives' = PendingReceives
    BY <1>9 DEF DropSend
  <2>2. f \notin waiting_receivers /\ f \notin PendingReceives
    OBVIOUS
  <2> QED BY <1>9, <2>1, <2>2 DEF DropSend, DropSenderRef, NotifyReceivers
<1>10. CASE TryRecv
  BY <1>10 DEF TryRecv, Dequeue, NotifySenders
<1>11. ASSUME NEW f \in ReceiveFutures, Recv(f)
       PROVE  ParkedOrWoken'
  <2>1. PendingSends' = PendingSends /\ PendingReceives' = PendingReceives
    BY <1>11 DEF Recv
  <2> QED BY <1>11, <2>1 DEF Recv
<1>12. ASSUME NEW f \in ReceiveFutures, PollReceive(f)
       PROVE  ParkedOrWoken'
  <2>1. f \notin waiting_senders \cup waiting_receivers /\ f \notin PendingSends
    BY <1>12 DEF PollReceive, PollableReceive
  <2>2. PendingSends' = PendingSends
    BY <1>12 DEF PollReceive
  <2>3. CASE ReceiveValue(f)
    <3>1. PendingReceives' = PendingReceives \ {f}
      BY <2>3 DEF ReceiveValue, ReceiveDone
    <3> QED BY <2>1, <2>2, <2>3, <3>1 DEF ReceiveValue, Dequeue, NotifySenders
  <2>4. CASE ReceiveClosed(f)
    <3>1. PendingReceives' = PendingReceives \ {f}
      BY <2>4 DEF ReceiveClosed, ReceiveDone
    <3> QED BY <2>1, <2>2, <2>4, <3>1 DEF ReceiveClosed
  <2>5. CASE ReceiveParks(f)
    <3>1. PendingReceives' = PendingReceives \cup {f}
      BY <2>5 DEF ReceiveParks
    <3> QED BY <2>1, <2>2, <2>5, <3>1 DEF ReceiveParks
  <2> QED BY <1>12, <2>3, <2>4, <2>5 DEF PollReceive
<1>13. ASSUME NEW f \in ReceiveFutures, DropReceive(f)
       PROVE  ParkedOrWoken'
  <2>1. PendingReceives' = PendingReceives \ {f} /\ PendingSends' = PendingSends
    BY <1>13 DEF DropReceive
  <2>2. f \notin waiting_senders /\ f \notin PendingSends
    OBVIOUS
  <2> QED BY <1>13, <2>1, <2>2 DEF DropReceive, DropReceiverRef, NotifySenders
<1>14. CASE DropChannel
  BY <1>14 DEF DropChannel
<1> QED
  BY <1>1, <1>2, <1>3, <1>4, <1>5, <1>6, <1>7, <1>8, <1>9, <1>10, <1>11, <1>12, <1>13, <1>14
  DEF Next

\* Whoever makes a value, room or the end of a side possible empties the list
\* of those who sleep for it.
LEMMA SleepersPreserved ==
  ASSUME IInv, Next
  PROVE  ReceiversParkOnlyWhenEmpty' /\ SendersParkOnlyWhenFull'
<1> USE BoundsAssumption
    DEF TypeOK, ReceiversParkOnlyWhenEmpty, SendersParkOnlyWhenFull, IInv, Running,
        refs, futures, lists
<1>1. CASE Split
  <2>1. Sending = {} /\ Receiving = {}
    BY <1>1 DEF Split, UnsplitIsUnused
  <2>2. PendingSends = {} /\ PendingReceives = {}
    BY <2>1 DEF PendingSends, PendingReceives, Sending, Receiving
  <2>3. waiting_senders = {} /\ waiting_receivers = {}
    BY <2>2 DEF ParkedOrWoken
  <2> QED BY <1>1, <2>3 DEF Split
<1>2. CASE CloneSender
  BY <1>2 DEF CloneSender
<1>3. CASE CloneReceiver
  BY <1>3 DEF CloneReceiver
<1>4. CASE DropSender
  BY <1>4 DEF DropSender, DropSenderRef, NotifyReceivers
<1>5. CASE DropReceiver
  BY <1>5 DEF DropReceiver, DropReceiverRef, NotifySenders
<1>6. ASSUME NEW v \in Values, TrySend(v)
      PROVE  ReceiversParkOnlyWhenEmpty' /\ SendersParkOnlyWhenFull'
  BY <1>6 DEF TrySend, Enqueue, NotifyReceivers
<1>7. ASSUME NEW f \in SendFutures, NEW v \in Values, Send(f, v)
      PROVE  ReceiversParkOnlyWhenEmpty' /\ SendersParkOnlyWhenFull'
  BY <1>7 DEF Send
<1>8. ASSUME NEW f \in SendFutures, PollSend(f)
      PROVE  ReceiversParkOnlyWhenEmpty' /\ SendersParkOnlyWhenFull'
  <2>1. CASE SendAccepted(f)
    BY <1>8, <2>1 DEF PollSend, SendAccepted, Enqueue, NotifyReceivers
  <2>2. CASE SendRefused(f)
    BY <1>8, <2>2 DEF PollSend, SendRefused
  <2>3. CASE SendParks(f)
    BY <1>8, <2>3 DEF PollSend, SendParks
  <2> QED BY <1>8, <2>1, <2>2, <2>3 DEF PollSend
<1>9. ASSUME NEW f \in SendFutures, DropSend(f)
      PROVE  ReceiversParkOnlyWhenEmpty' /\ SendersParkOnlyWhenFull'
  BY <1>9 DEF DropSend, DropSenderRef, NotifyReceivers
<1>10. CASE TryRecv
  BY <1>10 DEF TryRecv, Dequeue, NotifySenders
<1>11. ASSUME NEW f \in ReceiveFutures, Recv(f)
       PROVE  ReceiversParkOnlyWhenEmpty' /\ SendersParkOnlyWhenFull'
  BY <1>11 DEF Recv
<1>12. ASSUME NEW f \in ReceiveFutures, PollReceive(f)
       PROVE  ReceiversParkOnlyWhenEmpty' /\ SendersParkOnlyWhenFull'
  <2>1. CASE ReceiveValue(f)
    BY <1>12, <2>1 DEF PollReceive, ReceiveValue, Dequeue, NotifySenders
  <2>2. CASE ReceiveClosed(f)
    BY <1>12, <2>2 DEF PollReceive, ReceiveClosed
  <2>3. CASE ReceiveParks(f)
    BY <1>12, <2>3 DEF PollReceive, ReceiveParks
  <2> QED BY <1>12, <2>1, <2>2, <2>3 DEF PollReceive
<1>13. ASSUME NEW f \in ReceiveFutures, DropReceive(f)
       PROVE  ReceiversParkOnlyWhenEmpty' /\ SendersParkOnlyWhenFull'
  BY <1>13 DEF DropReceive, DropReceiverRef, NotifySenders
<1>14. CASE DropChannel
  <2>1. ReceiversParkOnlyWhenEmpty'
    BY <1>14 DEF DropChannel
  <2>2. CASE channel' = "panicked"
    BY <2>1, <2>2
  <2>3. CASE channel' # "panicked"
    <3>1. rx = 0
      BY <1>14, <2>3 DEF DropChannel
    <3> QED BY <1>14, <2>1, <3>1 DEF DropChannel
  <2> QED BY <2>2, <2>3
<1> QED
  BY <1>1, <1>2, <1>3, <1>4, <1>5, <1>6, <1>7, <1>8, <1>9, <1>10, <1>11, <1>12, <1>13, <1>14
  DEF Next

\* ValuesInOnePlace in the terms of the lemmas on the queue.
LEMMA ValuesByPlace ==
  /\ Queued = Held(queue) /\ Queued' = Held(queue')
  /\ ValuesInOnePlace <=>
       /\ Distinct(queue)
       /\ \A f \in SendFutures :
            /\ value[f] # None <=> send[f] \in {"new", "pending"}
            /\ value[f] \notin Queued
            /\ \A g \in SendFutures : value[f] = value[g] => f = g \/ value[f] = None
  /\ ValuesInOnePlace' <=>
       /\ Distinct(queue')
       /\ \A f \in SendFutures :
            /\ value'[f] # None <=> send'[f] \in {"new", "pending"}
            /\ value'[f] \notin Queued'
            /\ \A g \in SendFutures : value'[f] = value'[g] => f = g \/ value'[f] = None
  BY DEF ValuesInOnePlace, Distinct, Held, Queued

\* A value enters from outside only if it is nowhere, and moves from a
\* future into the queue and out of it: at no step is it in two places.
LEMMA ValuesPreserved ==
  ASSUME IInv, Next
  PROVE  ValuesInOnePlace'
<1> USE ValuesAssumption DEF TypeOK, IInv, refs, futures, lists
<1>0. /\ Distinct(queue)
      /\ \A f \in SendFutures :
            /\ value[f] # None <=> send[f] \in {"new", "pending"}
            /\ value[f] \notin Queued
            /\ \A g \in SendFutures : value[f] = value[g] => f = g \/ value[f] = None
      /\ Queued = Held(queue)
  BY ValuesByPlace
<1>a. ASSUME UNCHANGED <<queue, send, value>>
      PROVE  ValuesInOnePlace'
  BY <1>a DEF ValuesInOnePlace, Queued
<1>b. ASSUME queue # <<>>, queue' = Tail(queue), UNCHANGED <<send, value>>
      PROVE  ValuesInOnePlace'
  <2>1. Distinct(queue') /\ Held(queue') \subseteq Held(queue)
    BY <1>0, <1>b, TailDistinct
  <2> QED BY <1>0, <1>b, <2>1, ValuesByPlace
<1>1. CASE Split \/ CloneSender \/ CloneReceiver \/ DropSender \/ DropReceiver
  BY <1>1, <1>a DEF Split, CloneSender, CloneReceiver, DropSender, DropReceiver
<1>2. ASSUME NEW v \in Values, TrySend(v)
      PROVE  ValuesInOnePlace'
  <2>1. queue' = Append(queue, v) /\ v \notin Queued /\ UNCHANGED <<send, value>>
    BY <1>2 DEF TrySend, Enqueue, Unused
  <2>2. \A f \in SendFutures : value[f] # v
    BY <1>2 DEF TrySend, Unused
  <2>3. Distinct(queue') /\ Held(queue') = Queued \cup {v}
    BY <1>0, <2>1, AppendDistinct
  <2> QED BY <1>0, <2>1, <2>2, <2>3, ValuesByPlace
<1>3. ASSUME NEW f \in SendFutures, NEW v \in Values, Send(f, v)
      PROVE  ValuesInOnePlace'
  <2>1. /\ send' = [send EXCEPT ![f] = "new"]
        /\ value' = [value EXCEPT ![f] = v]
        /\ queue' = queue
    BY <1>3 DEF Send
  <2>2. v \notin Queued /\ \A g \in SendFutures : value[g] # v
    BY <1>3 DEF Send, Unused
  <2> QED BY <1>0, <2>1, <2>2, ValuesByPlace
<1>4. ASSUME NEW f \in SendFutures, PollSend(f)
      PROVE  ValuesInOnePlace'
  <2>1. send[f] \in {"new", "pending"} /\ value[f] \in Values /\ value[f] # None
    BY <1>0, <1>4 DEF PollSend, PollableSend
  <2>2. CASE SendAccepted(f)
    <3>1. queue' = Append(queue, value[f])
      BY <2>2 DEF SendAccepted, Enqueue
    <3>2. /\ send' = [send EXCEPT ![f] = "done"]
          /\ value' = [value EXCEPT ![f] = None]
      BY <2>2 DEF SendAccepted, SendDone
    <3>3. Distinct(queue') /\ Held(queue') = Queued \cup {value[f]} /\ queue' \in Seq(Values)
      BY <1>0, <2>1, <3>1, AppendDistinct
    <3>4. None \notin Held(queue')
      BY <3>3 DEF Held
    <3> QED BY <1>0, <2>1, <3>2, <3>3, <3>4, ValuesByPlace
  <2>3. CASE SendRefused(f)
    <3>1. /\ queue' = queue
          /\ send' = [send EXCEPT ![f] = "done"]
          /\ value' = [value EXCEPT ![f] = None]
      BY <2>3 DEF SendRefused, SendDone
    <3>2. None \notin Queued
      BY DEF Queued
    <3> QED BY <1>0, <3>1, <3>2, ValuesByPlace
  <2>4. CASE SendParks(f)
    <3>1. send' = [send EXCEPT ![f] = "pending"] /\ UNCHANGED <<queue, value>>
      BY <2>4 DEF SendParks
    <3> QED BY <1>0, <2>1, <3>1, ValuesByPlace
  <2> QED BY <1>4, <2>2, <2>3, <2>4 DEF PollSend
<1>5. ASSUME NEW f \in SendFutures, DropSend(f)
      PROVE  ValuesInOnePlace'
  <2>1. /\ queue' = queue
        /\ send' = [send EXCEPT ![f] = "none"]
        /\ value' = [value EXCEPT ![f] = None]
    BY <1>5 DEF DropSend
  <2>2. None \notin Queued
    BY DEF Queued
  <2> QED BY <1>0, <2>1, <2>2, ValuesByPlace
<1>6. CASE TryRecv
  BY <1>6, <1>b DEF TryRecv, Dequeue
<1>7. ASSUME NEW f \in ReceiveFutures, Recv(f)
      PROVE  ValuesInOnePlace'
  BY <1>7, <1>a DEF Recv
<1>8. ASSUME NEW f \in ReceiveFutures, PollReceive(f)
      PROVE  ValuesInOnePlace'
  BY <1>8, <1>a, <1>b
  DEF PollReceive, ReceiveValue, ReceiveClosed, ReceiveParks, Dequeue
<1>9. ASSUME NEW f \in ReceiveFutures, DropReceive(f)
      PROVE  ValuesInOnePlace'
  BY <1>9, <1>a DEF DropReceive
<1>10. CASE DropChannel
  <2>1. queue' = <<>> /\ UNCHANGED <<send, value>>
    BY <1>10 DEF DropChannel
  <2>2. Distinct(queue') /\ Held(queue') = {}
    BY <2>1 DEF Distinct, Held
  <2> QED BY <1>0, <2>1, <2>2, ValuesByPlace
<1> QED
  BY <1>1, <1>2, <1>3, <1>4, <1>5, <1>6, <1>7, <1>8, <1>9, <1>10 DEF Next

\* Nothing comes to exist before the split or after the channel is dropped,
\* and it is dropped in peace only when both counts are zero.
LEMMA EndsPreserved ==
  ASSUME IInv, Next
  PROVE  NothingOutlivesChannel' /\ UnsplitIsUnused'
<1> USE DEF TypeOK, NothingOutlivesChannel, UnsplitIsUnused, Sending, Receiving,
            FutureStates, IInv, refs, futures, lists
<1>1. CASE Split \/ CloneSender \/ CloneReceiver \/ DropSender \/ DropReceiver
  BY <1>1 DEF Split, CloneSender, CloneReceiver, DropSender, DropReceiver
<1>2. ASSUME NEW v \in Values, TrySend(v)
      PROVE  NothingOutlivesChannel' /\ UnsplitIsUnused'
  BY <1>2 DEF TrySend
<1>3. ASSUME NEW f \in SendFutures, NEW v \in Values, Send(f, v)
      PROVE  NothingOutlivesChannel' /\ UnsplitIsUnused'
  BY <1>3 DEF Send
<1>4. ASSUME NEW f \in SendFutures, PollSend(f)
      PROVE  NothingOutlivesChannel' /\ UnsplitIsUnused'
  <2>1. Sending # {}
    BY <1>4 DEF PollSend, PollableSend
  <2> QED BY <1>4, <2>1 DEF PollSend
<1>5. ASSUME NEW f \in SendFutures, DropSend(f)
      PROVE  NothingOutlivesChannel' /\ UnsplitIsUnused'
  <2>1. Sending # {}
    BY <1>5 DEF DropSend
  <2> QED BY <1>5, <2>1 DEF DropSend
<1>6. CASE TryRecv
  BY <1>6 DEF TryRecv
<1>7. ASSUME NEW f \in ReceiveFutures, Recv(f)
      PROVE  NothingOutlivesChannel' /\ UnsplitIsUnused'
  BY <1>7 DEF Recv
<1>8. ASSUME NEW f \in ReceiveFutures, PollReceive(f)
      PROVE  NothingOutlivesChannel' /\ UnsplitIsUnused'
  <2>1. Receiving # {}
    BY <1>8 DEF PollReceive, PollableReceive
  <2> QED BY <1>8, <2>1 DEF PollReceive
<1>9. ASSUME NEW f \in ReceiveFutures, DropReceive(f)
      PROVE  NothingOutlivesChannel' /\ UnsplitIsUnused'
  <2>1. Receiving # {}
    BY <1>9 DEF DropReceive
  <2> QED BY <1>9, <2>1 DEF DropReceive
<1>10. CASE DropChannel
  <2>1. CASE tx = 0 /\ rx = 0
    <3>1. /\ senders + Cardinality(Sending) = 0 /\ Cardinality(Sending) \in Nat
          /\ receivers + Cardinality(Receiving) = 0 /\ Cardinality(Receiving) \in Nat
      BY <2>1, SidesCounted DEF CountsReferences
    <3>2. /\ senders = 0 /\ Cardinality(Sending) = 0
          /\ receivers = 0 /\ Cardinality(Receiving) = 0
      BY <3>1
    <3>3. Sending = {} /\ Receiving = {}
      BY <3>2, SidesCounted, FS_EmptySet
    <3> QED BY <1>10, <3>2, <3>3 DEF DropChannel
  <2>2. CASE ~(tx = 0 /\ rx = 0)
    BY <1>10, <2>2 DEF DropChannel
  <2> QED BY <2>1, <2>2
<1> QED
  BY <1>1, <1>2, <1>3, <1>4, <1>5, <1>6, <1>7, <1>8, <1>9, <1>10 DEF Next

\* A step that changes nothing.
LEMMA Stutters ==
  ASSUME IInv, UNCHANGED vars
  PROVE  IInv'
<1> USE DEF vars, refs, futures, lists, IInv
<1>1. TypeOK'
  BY DEF TypeOK
<1>2. ReceiversParkOnlyWhenEmpty' /\ SendersParkOnlyWhenFull' /\ ParkedOrWoken'
  BY DEF ReceiversParkOnlyWhenEmpty, SendersParkOnlyWhenFull, ParkedOrWoken, Running,
         PendingSends, PendingReceives
<1>3. CountsReferences' /\ NothingOutlivesChannel' /\ UnsplitIsUnused'
  BY DEF CountsReferences, NothingOutlivesChannel, UnsplitIsUnused, Sending, Receiving
<1>4. ValuesInOnePlace'
  BY DEF ValuesInOnePlace, Queued
<1> QED BY <1>1, <1>2, <1>3, <1>4

----------------------------------------------------------------------------
(* The theorems.                                                           *)

\* The strengthened invariant holds in every reachable state.
THEOREM Invariance == Spec => []IInv
<1>1. Init => IInv
  BY InitEstablishes
<1>2. IInv /\ [Next]_vars => IInv'
  BY CountPreserved, WaitersPreserved, SleepersPreserved, ValuesPreserved, EndsPreserved, Stutters
  DEF IInv
<1> QED BY <1>1, <1>2, PTL DEF Spec

\* The variables keep their types: the queue never holds more than Capacity
\* values, and neither count goes below zero.
THEOREM TypeCorrectness == Spec => []TypeOK
<1>1. IInv => TypeOK
  BY DEF IInv
<1> QED BY <1>1, Invariance, PTL

\* No receiver sleeps in the list beside a value, or after the last sender.
THEOREM NoReceiverSleepsOnWork == Spec => []ReceiversParkOnlyWhenEmpty
<1>1. IInv => ReceiversParkOnlyWhenEmpty
  BY DEF IInv
<1> QED BY <1>1, Invariance, PTL

\* No sender sleeps in the list beside room, or after the last receiver.
THEOREM NoSenderSleepsOnRoom == Spec => []SendersParkOnlyWhenFull
<1>1. IInv => SendersParkOnlyWhenFull
  BY DEF IInv
<1> QED BY <1>1, Invariance, PTL

\* Nobody who returned Pending is outside its list without a wake-up.
THEOREM PendingIsParkedOrWoken == Spec => []ParkedOrWoken
<1>1. IInv => ParkedOrWoken
  BY DEF IInv
<1> QED BY <1>1, Invariance, PTL

\* Both reference counts are exact, and a channel that goes away in peace
\* leaves no handle and no future behind.
THEOREM ReferencesAreSafe == Spec => [](CountsReferences /\ NothingOutlivesChannel)
<1>1. IInv => CountsReferences /\ NothingOutlivesChannel
  BY DEF IInv
<1> QED BY <1>1, Invariance, PTL

\* No value is duplicated, and a send that will be polled still has its own.
THEOREM ValuesAreKept == Spec => []ValuesInOnePlace
<1>1. IInv => ValuesInOnePlace
  BY DEF IInv
<1> QED BY <1>1, Invariance, PTL

\* A side whose count is zero has no handle and no future.
LEMMA NobodyLeft ==
  ASSUME IInv
  PROVE  /\ tx = 0 => senders = 0 /\ Sending = {}
         /\ rx = 0 => receivers = 0 /\ Receiving = {}
<1>1. /\ tx = senders + Cardinality(Sending) /\ senders \in Nat
      /\ rx = receivers + Cardinality(Receiving) /\ receivers \in Nat
  BY BoundsAssumption DEF IInv, TypeOK, CountsReferences
<1>2. /\ IsFiniteSet(Sending) /\ Cardinality(Sending) \in Nat
      /\ IsFiniteSet(Receiving) /\ Cardinality(Receiving) \in Nat
  BY SidesCounted DEF IInv
<1>3. /\ tx = 0 => senders = 0 /\ Cardinality(Sending) = 0
      /\ rx = 0 => receivers = 0 /\ Cardinality(Receiving) = 0
  BY <1>1, <1>2
<1> QED BY <1>2, <1>3, FS_EmptySet

LEMMA ClosedStaysClosed ==
  ASSUME IInv, [Next]_vars
  PROVE  /\ SendersGone => SendersGone' /\ Len(queue') <= Len(queue)
         /\ ReceiversGone => ReceiversGone' /\ Len(queue') <= Len(queue)
<1> USE DEF SendersGone, ReceiversGone, Running, refs, futures, lists
<1>0. queue \in Seq(Values) /\ tx \in Nat /\ rx \in Nat
  BY DEF IInv, TypeOK
<1>a. /\ tx = 0 => senders = 0 /\ \A f \in SendFutures : send[f] = "none"
      /\ rx = 0 => receivers = 0 /\ \A f \in ReceiveFutures : receive[f] = "none"
  BY NobodyLeft DEF Sending, Receiving
<1>b. ASSUME queue # <<>>, queue' = Tail(queue)
      PROVE  Len(queue') <= Len(queue)
  BY <1>0, <1>b
<1>c. Len(queue) \in Nat
  BY <1>0
<1>1. CASE Split
  BY <1>1, <1>c DEF Split
<1>2. CASE CloneSender \/ CloneReceiver
  BY <1>2, <1>a, <1>c DEF CloneSender, CloneReceiver
<1>3. CASE DropSender \/ DropReceiver
  BY <1>3, <1>a, <1>c DEF DropSender, DropReceiver
<1>4. ASSUME NEW v \in Values, TrySend(v)
      PROVE  ~SendersGone /\ ~ReceiversGone
  BY <1>4, <1>a DEF TrySend, Enqueue
<1>5. ASSUME NEW f \in SendFutures, NEW v \in Values, Send(f, v)
      PROVE  ~SendersGone /\ UNCHANGED <<channel, queue, rx>>
  BY <1>5, <1>a DEF Send
<1>6. ASSUME NEW f \in SendFutures, PollSend(f)
      PROVE  ~SendersGone /\ (ReceiversGone => UNCHANGED <<channel, queue, rx>>)
  BY <1>6, <1>a DEF PollSend, PollableSend, SendAccepted, SendRefused, SendParks, Enqueue
<1>7. ASSUME NEW f \in SendFutures, DropSend(f)
      PROVE  ~SendersGone /\ UNCHANGED <<channel, queue, rx>>
  BY <1>7, <1>a DEF DropSend
<1>8. CASE TryRecv
  BY <1>8, <1>a, <1>b DEF TryRecv, Dequeue
<1>9. ASSUME NEW f \in ReceiveFutures, Recv(f)
      PROVE  ~ReceiversGone /\ UNCHANGED <<channel, queue, tx>>
  BY <1>9, <1>a DEF Recv
<1>10. ASSUME NEW f \in ReceiveFutures, PollReceive(f)
       PROVE  ~ReceiversGone /\ UNCHANGED <<channel, tx>> /\ Len(queue') <= Len(queue)
  BY <1>10, <1>a, <1>b, <1>c
  DEF PollReceive, PollableReceive, ReceiveValue, ReceiveClosed, ReceiveParks, Dequeue
<1>11. ASSUME NEW f \in ReceiveFutures, DropReceive(f)
       PROVE  ~ReceiversGone /\ UNCHANGED <<channel, queue, tx>>
  BY <1>11, <1>a DEF DropReceive
<1>12. CASE DropChannel
  BY <1>12, <1>c DEF DropChannel
<1>13. CASE UNCHANGED vars
  BY <1>13, <1>c DEF vars
<1> QED
  BY <1>1, <1>2, <1>3, <1>4, <1>5, <1>6, <1>7, <1>8, <1>9, <1>10, <1>11, <1>12, <1>13, <1>c
  DEF Next

\* When the last sender is gone no value is added any more, and when the last
\* receiver is gone none is accepted; neither side comes back.
THEOREM ClosedForGood == Spec => ClosedIsFinal
<1>1. IInv /\ [Next]_vars =>
        [ /\ SendersGone => SendersGone' /\ Len(queue') <= Len(queue)
          /\ ReceiversGone => ReceiversGone' /\ Len(queue') <= Len(queue) ]_vars
  BY ClosedStaysClosed
<1> QED BY <1>1, Invariance, PTL DEF Spec, ClosedIsFinal

----------------------------------------------------------------------------
(* The channel implements AbstractChannel, but for its progress.           *)

\* The abstract variables, as Abstract in Channel.tla maps them.
Offered == IF Running THEN {<<f, value[f]>> : f \in PendingSends} ELSE {}
Waiting == IF Running THEN PendingReceives ELSE {}
TxOpen == Running /\ (channel = "new" \/ tx > 0) /\ channel # "dropped"
RxOpen == Running /\ (channel = "new" \/ rx > 0) /\ channel # "dropped"

\* A side that somebody belongs to is open.
LEMMA PresentMeansOpen ==
  ASSUME IInv, Running
  PROVE  /\ senders > 0 \/ Sending # {} => TxOpen /\ tx > 0
         /\ receivers > 0 \/ Receiving # {} => RxOpen /\ rx > 0
<1>1. tx \in Nat /\ rx \in Nat
  BY DEF IInv, TypeOK
<1>2. /\ senders > 0 \/ Sending # {} => tx > 0 /\ channel # "dropped"
      /\ receivers > 0 \/ Receiving # {} => rx > 0 /\ channel # "dropped"
  BY <1>1, NobodyLeft DEF IInv, NothingOutlivesChannel
<1> QED BY <1>2 DEF TxOpen, RxOpen

\* What the abstraction does not see.
LEMMA Unseen ==
  ASSUME UNCHANGED <<channel, send, value, receive>>
  PROVE  Offered' = Offered /\ Waiting' = Waiting
  BY DEF Offered, Waiting, Running, PendingSends, PendingReceives

LEMMA InitRefines == Init => Abstract!Init
<1> SUFFICES ASSUME Init PROVE Abstract!Init
  OBVIOUS
<1>1. Running /\ PendingSends = {} /\ PendingReceives = {} /\ channel = "new" /\ queue = <<>>
  BY DEF Init, Running, PendingSends, PendingReceives
<1> QED BY <1>1 DEF Abstract!Init

\* Handles that come are not seen; the last one that goes closes its side,
\* where nobody waits any more.
LEMMA HandlesRefine ==
  ASSUME IInv, Split \/ CloneSender \/ CloneReceiver \/ DropSender \/ DropReceiver
  PROVE  \/ UNCHANGED <<queue, Offered, Waiting, TxOpen, RxOpen>>
         \/ Abstract!SendersLeave
         \/ Abstract!ReceiversLeave
<1> USE DEF Running, futures, lists
<1>1. CASE Split
  <2>1. Offered' = Offered /\ Waiting' = Waiting
    BY <1>1 DEF Split, Offered, Waiting, PendingSends, PendingReceives
  <2> QED BY <1>1, <2>1 DEF Split, TxOpen, RxOpen
<1>2. CASE CloneSender
  <2>1. Offered' = Offered /\ Waiting' = Waiting
    BY <1>2, Unseen DEF CloneSender
  <2>2. TxOpen /\ tx > 0
    BY <1>2, PresentMeansOpen DEF CloneSender
  <2> QED BY <1>2, <2>1, <2>2 DEF CloneSender, TxOpen, RxOpen, IInv, TypeOK
<1>3. CASE CloneReceiver
  <2>1. Offered' = Offered /\ Waiting' = Waiting
    BY <1>3, Unseen DEF CloneReceiver
  <2>2. RxOpen /\ rx > 0
    BY <1>3, PresentMeansOpen DEF CloneReceiver
  <2> QED BY <1>3, <2>1, <2>2 DEF CloneReceiver, TxOpen, RxOpen, IInv, TypeOK
<1>4. CASE DropSender
  <2>1. Offered' = Offered /\ Waiting' = Waiting
    BY <1>4, Unseen DEF DropSender
  <2>2. TxOpen /\ tx > 0 /\ tx' = tx - 1 /\ RxOpen' = RxOpen /\ channel # "new"
    BY <1>4, PresentMeansOpen
    DEF DropSender, DropSenderRef, RxOpen, IInv, UnsplitIsUnused, TypeOK
  <2>3. ~TxOpen' => Offered' = {}
    <3> SUFFICES ASSUME ~TxOpen' PROVE Offered = {}
      BY <2>1
    <3>1. tx = 1
      BY <1>4, <2>2 DEF DropSender, TxOpen, IInv, TypeOK
    <3>2. Sending = {}
      BY <1>4, <3>1, SidesCounted, FS_EmptySet DEF DropSender, CountsReferences, IInv, TypeOK
    <3> QED BY <3>2 DEF Offered, PendingSends, Sending
  <2>4. TxOpen' \in {TxOpen, FALSE}
    BY <2>2 DEF TxOpen
  <2>5. Abstract!SendersLeave
    BY <1>4, <2>1, <2>2, <2>3, <2>4
    DEF DropSender, Abstract!SendersLeave, Offered, Waiting, TxOpen, RxOpen
  <2> QED BY <2>5
<1>5. CASE DropReceiver
  <2>1. Offered' = Offered /\ Waiting' = Waiting
    BY <1>5, Unseen DEF DropReceiver
  <2>2. RxOpen /\ rx > 0 /\ rx' = rx - 1 /\ TxOpen' = TxOpen /\ channel # "new"
    BY <1>5, PresentMeansOpen
    DEF DropReceiver, DropReceiverRef, TxOpen, IInv, UnsplitIsUnused, TypeOK
  <2>3. ~RxOpen' => Waiting' = {}
    <3> SUFFICES ASSUME ~RxOpen' PROVE Waiting = {}
      BY <2>1
    <3>1. rx = 1
      BY <1>5, <2>2 DEF DropReceiver, RxOpen, IInv, TypeOK
    <3>2. Receiving = {}
      BY <1>5, <3>1, SidesCounted, FS_EmptySet DEF DropReceiver, CountsReferences, IInv, TypeOK
    <3> QED BY <3>2 DEF Waiting, PendingReceives, Receiving
  <2>4. RxOpen' \in {RxOpen, FALSE}
    BY <2>2 DEF RxOpen
  <2>5. Abstract!ReceiversLeave
    BY <1>5, <2>1, <2>2, <2>3, <2>4
    DEF DropReceiver, Abstract!ReceiversLeave, Offered, Waiting, TxOpen, RxOpen
  <2> QED BY <2>5
<1> QED BY <1>1, <1>2, <1>3, <1>4, <1>5

\* A send that never waited puts its value or comes too late; a send that
\* waited is served; and a send that is dropped leaves.
LEMMA PollSendRefines ==
  ASSUME IInv, NEW f \in SendFutures, PollSend(f)
  PROVE  \/ UNCHANGED <<queue, Offered, Waiting, TxOpen, RxOpen>>
         \/ \E v \in Values : Abstract!Put(v) \/ Abstract!WaitToSend(f, v)
         \/ \E o \in Offered : Abstract!ServeSender(o)
<1>1. /\ Running /\ UNCHANGED <<channel, tx, rx, receive>>
      /\ send[f] \in {"new", "pending"}
      /\ send \in [SendFutures -> FutureStates]
      /\ value \in [SendFutures -> Values \cup {None}]
  BY DEF PollSend, PollableSend, refs, IInv, TypeOK
<1>2. PICK v \in Values, o \in SendFutures \X Values : v = value[f] /\ o = <<f, v>>
  BY <1>1 DEF IInv, ValuesInOnePlace
<1>3. TxOpen /\ channel # "dropped" /\ channel # "new"
  BY <1>1, PresentMeansOpen DEF Sending, TxOpen, IInv, UnsplitIsUnused
<1>4. UNCHANGED <<Waiting, TxOpen, RxOpen>>
  BY <1>1 DEF Waiting, PendingReceives, TxOpen, RxOpen, Running
<1>5. RxOpen <=> rx > 0
  BY <1>1, <1>3 DEF RxOpen
<1>6. rx \in Nat
  BY DEF IInv, TypeOK
<1>7. send[f] = "pending" => o \in Offered
  BY <1>1, <1>2 DEF Offered, PendingSends
<1>8. CASE SendAccepted(f) \/ SendRefused(f)
  <2>1. SendDone(f)
    BY <1>8 DEF SendAccepted, SendRefused
  <2>2. Offered' = Offered \ {o}
    <3>1. PendingSends' = PendingSends \ {f}
      BY <1>1, <2>1 DEF SendDone, PendingSends
    <3>2. \A g \in PendingSends' : value'[g] = value[g]
      BY <1>1, <2>1, <3>1 DEF SendDone, PendingSends
    <3> QED BY <1>1, <1>2, <3>1, <3>2 DEF Offered, Running
  <2>3. \/ rx > 0 /\ Len(queue) < Capacity /\ queue' = Append(queue, v)
        \/ rx = 0 /\ UNCHANGED queue
    BY <1>2, <1>8 DEF SendAccepted, SendRefused, Enqueue
  <2>4. CASE send[f] = "pending"
    <3>1. o[2] = v
      BY <1>2
    <3>2. Abstract!ServeSender(o)
      BY <1>4, <1>5, <1>6, <1>7, <2>2, <2>3, <2>4, <3>1
      DEF Abstract!ServeSender, Abstract!Room, Offered, Waiting, TxOpen, RxOpen
    <3> QED BY <1>7, <2>4, <3>2
  <2>5. CASE send[f] = "new"
    <3>1. o \notin Offered
      BY <1>2, <2>5 DEF Offered, PendingSends
    <3>2. Offered' = Offered
      BY <2>2, <3>1
    <3>3. CASE rx > 0 /\ Len(queue) < Capacity /\ queue' = Append(queue, v)
      <4>1. Abstract!Put(v)
        BY <1>3, <1>4, <1>5, <3>2, <3>3
        DEF Abstract!Put, Abstract!Room, Offered, Waiting, TxOpen, RxOpen
      <4> QED BY <4>1
    <3> QED BY <1>4, <2>3, <3>2, <3>3
  <2> QED BY <1>1, <2>4, <2>5
<1>9. CASE SendParks(f)
  <2>1. Offered' = Offered \cup {o}
    <3>1. PendingSends' = PendingSends \cup {f}
      BY <1>1, <1>9 DEF SendParks, PendingSends
    <3>2. value' = value
      BY <1>9 DEF SendParks
    <3> QED BY <1>1, <1>2, <3>1, <3>2 DEF Offered, Running
  <2>2. RxOpen /\ TxOpen /\ Len(queue) = Capacity /\ queue' = queue
    BY <1>3, <1>5, <1>9 DEF SendParks
  <2>3. Abstract!WaitToSend(f, v)
    BY <1>2, <1>4, <2>1, <2>2
    DEF Abstract!WaitToSend, Offered, Waiting, TxOpen, RxOpen
  <2> QED BY <2>3
<1> QED BY <1>8, <1>9 DEF PollSend

LEMMA DropSendRefines ==
  ASSUME IInv, NEW f \in SendFutures, DropSend(f)
  PROVE  Abstract!SendersLeave
<1>1. /\ Running /\ send[f] # "none" /\ UNCHANGED <<channel, queue, senders, rx, receive>>
      /\ send' = [send EXCEPT ![f] = "none"] /\ value' = [value EXCEPT ![f] = None]
      /\ tx' = tx - 1
  BY DEF DropSend, DropSenderRef
<1>2. TxOpen /\ tx > 0 /\ channel # "new"
  BY <1>1, PresentMeansOpen DEF Sending, IInv, UnsplitIsUnused
<1>3. UNCHANGED <<Waiting, RxOpen>>
  BY <1>1 DEF Waiting, PendingReceives, RxOpen, Running
<1>4. Offered' \subseteq Offered
  <2>1. PendingSends' = PendingSends \ {f}
    BY <1>1 DEF PendingSends, IInv, TypeOK
  <2>2. \A g \in PendingSends' : value'[g] = value[g]
    BY <1>1, <2>1 DEF PendingSends, IInv, TypeOK
  <2> QED BY <1>1, <2>1, <2>2 DEF Offered, Running
<1>5. ~TxOpen' => Offered' = {}
  <2> SUFFICES ASSUME ~TxOpen' PROVE Offered' = {}
    OBVIOUS
  <2>1. tx' = 0
    BY <1>1, <1>2 DEF TxOpen, Running, IInv, TypeOK
  <2>2. tx' = senders' + Cardinality(Sending') /\ senders' \in Nat
    <3>1. Next
      BY DEF Next
    <3> QED BY <3>1, CountPreserved, BoundsAssumption DEF TypeOK, CountsReferences
  <2>3. IsFiniteSet(Sending') /\ Cardinality(Sending') \in Nat
    <3>1. Sending' = Made(SendFutures, send')
      BY DEF Sending, Made
    <3>2. IsFiniteSet(Made(SendFutures, send')) /\ Cardinality(Made(SendFutures, send')) \in Nat
      BY SidesAssumption, MadeFinite
    <3> QED BY <3>1, <3>2, Zenon
  <2>4. Cardinality(Sending') = 0
    BY <2>1, <2>2, <2>3
  <2>5. Sending' = {}
    BY <2>3, <2>4, FS_EmptySet
  <2> QED BY <2>5 DEF Offered, PendingSends, Sending
<1>6. TxOpen' \in {TxOpen, FALSE}
  BY <1>2 DEF TxOpen
<1> QED
  BY <1>1, <1>3, <1>4, <1>5, <1>6 DEF Abstract!SendersLeave, Offered, Waiting, TxOpen, RxOpen

\* The receiving side, likewise.
LEMMA PollReceiveRefines ==
  ASSUME IInv, NEW f \in ReceiveFutures, PollReceive(f)
  PROVE  \/ UNCHANGED <<queue, Offered, Waiting, TxOpen, RxOpen>>
         \/ Abstract!Take
         \/ Abstract!WaitToReceive(f)
         \/ Abstract!ServeReceiver(f)
<1>1. /\ Running /\ UNCHANGED <<channel, tx, rx, send, value>>
      /\ receive[f] \in {"new", "pending"}
      /\ receive \in [ReceiveFutures -> FutureStates]
  BY DEF PollReceive, PollableReceive, refs, IInv, TypeOK
<1>2. RxOpen /\ channel # "dropped" /\ channel # "new"
  BY <1>1, PresentMeansOpen DEF Receiving, RxOpen, IInv, UnsplitIsUnused
<1>3. UNCHANGED <<Offered, TxOpen, RxOpen>>
  BY <1>1 DEF Offered, PendingSends, TxOpen, RxOpen, Running
<1>4. (TxOpen <=> tx > 0) /\ tx \in Nat
  BY <1>1, <1>2 DEF TxOpen, IInv, TypeOK
<1>5. f \in Waiting <=> receive[f] = "pending"
  BY <1>1 DEF Waiting, PendingReceives
<1>6. CASE ReceiveValue(f) \/ ReceiveClosed(f)
  <2>1. Waiting' = Waiting \ {f}
    BY <1>1, <1>6
    DEF ReceiveValue, ReceiveClosed, ReceiveDone, Waiting, PendingReceives, Running
  <2>2. \/ queue # <<>> /\ queue' = Tail(queue)
        \/ queue = <<>> /\ ~TxOpen /\ UNCHANGED queue
    BY <1>4, <1>6 DEF ReceiveValue, ReceiveClosed, Dequeue
  <2>3. CASE receive[f] = "pending"
    <3>1. Abstract!ServeReceiver(f)
      BY <1>3, <1>5, <2>1, <2>2, <2>3
      DEF Abstract!ServeReceiver, Offered, Waiting, TxOpen, RxOpen
    <3> QED BY <3>1
  <2>4. CASE receive[f] = "new"
    <3>1. Waiting' = Waiting
      BY <1>5, <2>1, <2>4
    <3>2. CASE queue # <<>> /\ queue' = Tail(queue)
      <4>1. Abstract!Take
        BY <1>2, <1>3, <3>1, <3>2 DEF Abstract!Take, Offered, Waiting, TxOpen, RxOpen
      <4> QED BY <4>1
    <3> QED BY <1>3, <2>2, <3>1, <3>2
  <2> QED BY <1>1, <2>3, <2>4
<1>7. CASE ReceiveParks(f)
  <2>1. Waiting' = Waiting \cup {f}
    BY <1>1, <1>7 DEF ReceiveParks, Waiting, PendingReceives, Running, FutureStates
  <2>2. TxOpen /\ queue = <<>> /\ queue' = queue
    BY <1>4, <1>7 DEF ReceiveParks
  <2>3. Abstract!WaitToReceive(f)
    BY <1>2, <1>3, <2>1, <2>2
    DEF Abstract!WaitToReceive, Offered, Waiting, TxOpen, RxOpen
  <2> QED BY <2>3
<1> QED BY <1>6, <1>7 DEF PollReceive

LEMMA DropReceiveRefines ==
  ASSUME IInv, NEW f \in ReceiveFutures, DropReceive(f)
  PROVE  Abstract!ReceiversLeave
<1>1. /\ Running /\ receive[f] # "none" /\ UNCHANGED <<channel, queue, receivers, tx, send, value>>
      /\ receive' = [receive EXCEPT ![f] = "none"]
      /\ rx' = rx - 1
  BY DEF DropReceive, DropReceiverRef
<1>2. RxOpen /\ rx > 0 /\ channel # "new"
  BY <1>1, PresentMeansOpen DEF Receiving, IInv, UnsplitIsUnused
<1>3. UNCHANGED <<Offered, TxOpen>>
  BY <1>1 DEF Offered, PendingSends, TxOpen, Running
<1>4. Waiting' \subseteq Waiting
  BY <1>1 DEF Waiting, PendingReceives, Running, IInv, TypeOK
<1>5. ~RxOpen' => Waiting' = {}
  <2> SUFFICES ASSUME ~RxOpen' PROVE Waiting' = {}
    OBVIOUS
  <2>1. rx' = 0
    BY <1>1, <1>2 DEF RxOpen, Running, IInv, TypeOK
  <2>2. rx' = receivers' + Cardinality(Receiving') /\ receivers' \in Nat
    <3>1. Next
      BY DEF Next
    <3> QED BY <3>1, CountPreserved, BoundsAssumption DEF TypeOK, CountsReferences
  <2>3. IsFiniteSet(Receiving') /\ Cardinality(Receiving') \in Nat
    <3>1. Receiving' = Made(ReceiveFutures, receive')
      BY DEF Receiving, Made
    <3>2. /\ IsFiniteSet(Made(ReceiveFutures, receive'))
          /\ Cardinality(Made(ReceiveFutures, receive')) \in Nat
      BY SidesAssumption, MadeFinite
    <3> QED BY <3>1, <3>2, Zenon
  <2>4. Cardinality(Receiving') = 0
    BY <2>1, <2>2, <2>3
  <2>5. Receiving' = {}
    BY <2>3, <2>4, FS_EmptySet
  <2> QED BY <2>5 DEF Waiting, PendingReceives, Receiving
<1>6. RxOpen' \in {RxOpen, FALSE}
  BY <1>2 DEF RxOpen
<1> QED
  BY <1>1, <1>3, <1>4, <1>5, <1>6 DEF Abstract!ReceiversLeave, Offered, Waiting, TxOpen, RxOpen

LEMMA StepRefines ==
  ASSUME IInv, [Next]_vars
  PROVE  [Abstract!Next]_(Abstract!vars)
<1>0. UNCHANGED <<queue, Offered, Waiting, TxOpen, RxOpen>> => UNCHANGED Abstract!vars
  BY DEF Abstract!vars, Offered, Waiting, TxOpen, RxOpen
<1>1. CASE Split \/ CloneSender \/ CloneReceiver \/ DropSender \/ DropReceiver
  BY <1>0, <1>1, HandlesRefine DEF Abstract!Next
<1>2. ASSUME NEW v \in Values, TrySend(v)
      PROVE  Abstract!Next
  <2>1. /\ UNCHANGED <<channel, tx, rx, send, value, receive>>
        /\ Running /\ senders > 0 /\ rx > 0
        /\ Len(queue) < Capacity /\ queue' = Append(queue, v)
    BY <1>2 DEF TrySend, Enqueue, refs, futures
  <2>2. TxOpen /\ RxOpen
    BY <2>1, PresentMeansOpen DEF TxOpen, RxOpen
  <2>3. UNCHANGED <<Offered, Waiting, TxOpen, RxOpen>>
    BY <2>1, Unseen DEF TxOpen, RxOpen, Running
  <2>4. Abstract!Put(v)
    BY <2>1, <2>2, <2>3 DEF Abstract!Put, Abstract!Room, Offered, Waiting, TxOpen, RxOpen
  <2> QED BY <2>4 DEF Abstract!Next
<1>3. ASSUME NEW f \in SendFutures, NEW v \in Values, Send(f, v)
      PROVE  UNCHANGED <<queue, Offered, Waiting, TxOpen, RxOpen>>
  <2>1. /\ UNCHANGED <<channel, queue, rx, receive>> /\ tx' = tx + 1
        /\ Running /\ senders > 0
        /\ send[f] = "none" /\ send' = [send EXCEPT ![f] = "new"]
        /\ value' = [value EXCEPT ![f] = v]
    BY <1>3 DEF Send
  <2>2. TxOpen /\ tx > 0
    BY <2>1, PresentMeansOpen
  <2>3. UNCHANGED <<TxOpen, RxOpen>>
    BY <2>1, <2>2 DEF TxOpen, RxOpen, Running, IInv, TypeOK
  <2>4. PendingSends' = PendingSends /\ \A g \in PendingSends : value'[g] = value[g]
    BY <2>1 DEF PendingSends, IInv, TypeOK
  <2>5. Offered' = Offered /\ Waiting' = Waiting
    BY <2>1, <2>4 DEF Offered, Waiting, PendingReceives, Running
  <2> QED BY <2>1, <2>3, <2>5
<1>4. ASSUME NEW f \in SendFutures, PollSend(f)
      PROVE  [Abstract!Next]_(Abstract!vars)
  BY <1>0, <1>4, PollSendRefines DEF Abstract!Next, Offered
<1>5. ASSUME NEW f \in SendFutures, DropSend(f)
      PROVE  Abstract!Next
  BY <1>5, DropSendRefines DEF Abstract!Next
<1>6. CASE TryRecv
  <2>1. /\ UNCHANGED <<channel, tx, rx, send, value, receive>>
        /\ Running /\ receivers > 0
        /\ queue # <<>> /\ queue' = Tail(queue)
    BY <1>6 DEF TryRecv, Dequeue, refs, futures
  <2>2. RxOpen
    BY <2>1, PresentMeansOpen
  <2>3. UNCHANGED <<Offered, Waiting, TxOpen, RxOpen>>
    BY <2>1, Unseen DEF TxOpen, RxOpen, Running
  <2>4. Abstract!Take
    BY <2>1, <2>2, <2>3 DEF Abstract!Take, Offered, Waiting, TxOpen, RxOpen
  <2> QED BY <2>4 DEF Abstract!Next
<1>7. ASSUME NEW f \in ReceiveFutures, Recv(f)
      PROVE  UNCHANGED <<queue, Offered, Waiting, TxOpen, RxOpen>>
  <2>1. /\ UNCHANGED <<channel, queue, tx, send, value>> /\ rx' = rx + 1
        /\ Running /\ receivers > 0
        /\ receive[f] = "none" /\ receive' = [receive EXCEPT ![f] = "new"]
    BY <1>7 DEF Recv
  <2>2. RxOpen /\ rx > 0
    BY <2>1, PresentMeansOpen
  <2>3. UNCHANGED <<TxOpen, RxOpen>>
    BY <2>1, <2>2 DEF TxOpen, RxOpen, Running, IInv, TypeOK
  <2>4. Offered' = Offered /\ Waiting' = Waiting
    BY <2>1 DEF Offered, Waiting, PendingSends, PendingReceives, Running, IInv, TypeOK
  <2> QED BY <2>1, <2>3, <2>4
<1>8. ASSUME NEW f \in ReceiveFutures, PollReceive(f)
      PROVE  [Abstract!Next]_(Abstract!vars)
  BY <1>0, <1>8, PollReceiveRefines DEF Abstract!Next
<1>9. ASSUME NEW f \in ReceiveFutures, DropReceive(f)
      PROVE  Abstract!Next
  BY <1>9, DropReceiveRefines DEF Abstract!Next
<1>10. CASE DropChannel
  <2>1. IInv' /\ channel' \in {"dropped", "panicked"} /\ queue' = <<>>
    <3>1. Next
      BY <1>10 DEF Next
    <3> QED
      BY <1>10, <3>1, CountPreserved, WaitersPreserved, SleepersPreserved, ValuesPreserved,
         EndsPreserved
      DEF IInv, DropChannel
  <2>2. channel' = "dropped" => PendingSends' = {} /\ PendingReceives' = {}
    BY <2>1
    DEF IInv, NothingOutlivesChannel, PendingSends, PendingReceives, Sending, Receiving
  <2>3. Offered' = {} /\ Waiting' = {} /\ TxOpen' = FALSE /\ RxOpen' = FALSE
    BY <2>1, <2>2 DEF Offered, Waiting, TxOpen, RxOpen, Running
  <2>4. Abstract!Destroy
    BY <2>1, <2>3 DEF Abstract!Destroy, Offered, Waiting, TxOpen, RxOpen
  <2> QED BY <2>4 DEF Abstract!Next
<1>11. CASE UNCHANGED vars
  <2>1. UNCHANGED <<channel, queue, tx, rx, send, value, receive>>
    BY <1>11 DEF vars, refs, futures
  <2> QED BY <1>0, <2>1, Unseen DEF TxOpen, RxOpen, Running
<1> QED
  BY <1>0, <1>1, <1>2, <1>3, <1>4, <1>5, <1>6, <1>7, <1>8, <1>9, <1>10, <1>11 DEF Next

\* Every behaviour of the channel is one of the FIFO's: values come out once
\* and in the order they were accepted, and callers wait only on a full or an
\* empty queue whose other side is there.
THEOREM RefinesChannel == Spec => Abstract!Init /\ [][Abstract!Next]_(Abstract!vars)
<1>1. Init => Abstract!Init
  BY InitRefines
<1>2. IInv /\ [Next]_vars => [Abstract!Next]_(Abstract!vars)
  BY StepRefines
<1> QED BY <1>1, <1>2, Invariance, PTL DEF Spec
=============================================================================
