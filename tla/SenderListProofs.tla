-------------------------- MODULE SenderListProofs --------------------------
(***************************************************************************)
(* The safety properties of SenderList.tla, for any finite set of tasks    *)
(* and any capacity of the queue. The invariant of the lists is kept by    *)
(* tasks that call their methods without looking, and what follows from it *)
(* holds for the futures: nothing dangles.                                 *)
(***************************************************************************)
EXTENDS SenderList, IntrusiveListProofs

----------------------------------------------------------------------------
(* The invariant.                                                          *)

\* Who waits in the list.
Parked == {t \in Tasks : send[t] = "pending" /\ t \notin woken}

\* What exists. A future exists from the call of send until it is dropped, and
\* with it its link. The local list exists only inside a call.
Owned ==
  /\ live = {t \in Tasks : send[t] # "none"}
  /\ lists = {Senders}

\* The heap is sound, and between two steps only waiting_senders is in use. It
\* holds the parked, and the link of everybody else is null.
SendersInv ==
  /\ SendersTypeOK
  /\ Owned
  /\ Sound(heap)
  /\ Fresh(heap, Notified)
  /\ \E o : Holds(heap, o) /\ ToSet(o[Senders]) = Parked
  /\ \A t \in Tasks \ Parked : Unlinked(heap, t)

\* The two lists.
LEMMA TwoLists == Senders \in Lists /\ Notified \in Lists /\ Senders # Notified
  BY ListsAssumption DEF Senders, Notified

\* In the beginning nobody waits.
LEMMA SendersInitHolds == SendersInit => SendersInv
<1> SUFFICES ASSUME SendersInit PROVE SendersInv
  OBVIOUS
<1> DEFINE o == [l \in Lists |-> <<>>]
<1>1. /\ heap \in Heaps /\ \A n \in Nodes : heap.next[n] = Null /\ heap.prev[n] = Null
  BY DEF SendersInit, EmptyHeap, Heaps
<1>2. Sound(heap) /\ \A l \in Lists : Fresh(heap, l)
  BY <1>1, SentinelsDiffer DEF Sound, Linked, Ended, Fresh, Unlinked
<1>3. o \in Orders /\ \A l \in Lists : o[l] = <<>> /\ Len(o[l]) = 0
  BY DEF Orders
<1> HIDE DEF o
<1>4. Holds(heap, o)
  <2>1. Apart(o)
    <3>1. ASSUME NEW l \in Lists, NEW i \in 1 .. Len(o[l])
          PROVE  FALSE
      BY <1>3
    <3> QED BY <3>1 DEF Apart
  <2> QED BY <1>2, <1>3, <2>1 DEF Holds
<1>5. ToSet(o[Senders]) = {} /\ Parked = {}
  BY <1>3, TwoLists DEF ToSet, Parked, SendersInit, Tasks
<1>6. SendersTypeOK
  <2>1. TypeOK
    BY <1>1, SentinelsDiffer, TwoLists DEF SendersInit, TypeOK, Unlinked
  <2> QED BY <2>1, CapacityAssumption DEF SendersInit, SendersTypeOK, Tasks
<1>7. \A t \in Tasks : Unlinked(heap, t)
  BY <1>1, SentinelsDiffer DEF Unlinked, Tasks
<1>8. Owned
  BY DEF SendersInit, Owned
<1> QED BY <1>2, <1>4, <1>5, <1>6, <1>7, <1>8, TwoLists DEF SendersInv

\* A step to a heap in which whoever is not parked is null keeps the types.
LEMMA KeepsTheTypes ==
  ASSUME Sound(heap'), Owned', \A t \in Tasks \ Parked' : Unlinked(heap', t),
         len' \in 0 .. Capacity, woken' \subseteq Tasks,
         send' \in [Tasks -> {"none", "new", "pending"}]
  PROVE  SendersTypeOK'
<1>1. live' \subseteq Links /\ lists' \subseteq Lists
  BY TwoLists DEF Owned, Tasks
<1>2. \A x \in Links \ live' : Unlinked(heap', x)
  BY DEF Owned, Tasks, Parked
<1> QED BY <1>1, <1>2 DEF SendersTypeOK, TypeOK, Sound

----------------------------------------------------------------------------
(* One future at a time.                                                   *)

\* A fresh list is empty.
LEMMA FreshIsEmpty ==
  ASSUME NEW h, NEW o, Sound(h), Holds(h, o), NEW l \in Lists, Fresh(h, l)
  PROVE  o[l] = <<>>
<1> SUFFICES ASSUME Strung(h, l, o[l])
             PROVE  FALSE
  BY HoldsList
<1>1. o[l] \in Seq(Links)
  BY HoldsList
<1>2. h.next[HeadOf(l)] = Pos(l, o[l], 1) /\ Pos(l, o[l], 1) \in Nodes
  BY <1>1, StrungBack, NeighboursAreLinked
<1> QED BY <1>2, SentinelsDiffer DEF Fresh, Unlinked

\* The link of a future that comes into existence is null already.
LEMMA StartHolds ==
  ASSUME SendersInv, NEW t \in Tasks, Start(t)
  PROVE  SendersInv'
<1> DEFINE h1 == SetNext(heap, t, Null)
           h2 == SetPrev(h1, t, Null)
<1>1. /\ send[t] = "none" /\ t \notin Parked /\ t \in Nodes /\ heap \in Heaps /\ Null \in Nodes \cup {Null}
      /\ Unlinked(heap, t)
  BY SentinelsDiffer DEF SendersInv, Start, Parked, Tasks, Sound
<1>2. NextIs(heap, h1, t, Null) /\ h1 \in Heaps
  BY <1>1, AssignedNext
<1>3. heap' = h2
  BY DEF Start, NewLink
<1> HIDE DEF h1
<1>4. PrevIs(h1, h2, t, Null) /\ h2 \in Heaps
  BY <1>1, <1>2, AssignedPrev
<1> HIDE DEF h2
<1>5. \A n \in Nodes : h2.next[n] = heap.next[n] /\ h2.prev[n] = heap.prev[n]
  BY <1>1, <1>2, <1>4 DEF NextIs, PrevIs, Unlinked
<1>6. heap' = heap
  BY <1>1, <1>3, <1>4, <1>5, SameFields
<1>7. Parked' = Parked
  BY <1>1 DEF Start, Parked, SendersInv, SendersTypeOK
<1>8. Owned'
  BY DEF Start, NewLink, Owned, SendersInv, SendersTypeOK, Tasks
<1>9. SendersTypeOK'
  <2>1. /\ Sound(heap') /\ \A u \in Tasks \ Parked' : Unlinked(heap', u)
        /\ len' \in 0 .. Capacity /\ woken' \subseteq Tasks
        /\ send' \in [Tasks -> {"none", "new", "pending"}]
    BY <1>6, <1>7 DEF Start, SendersInv, SendersTypeOK
  <2> QED BY <1>8, <2>1, KeepsTheTypes
<1> QED BY <1>6, <1>7, <1>8, <1>9 DEF SendersInv

\* A future that is dropped leaves the list if it is in it.
LEMMA ForgetHolds ==
  ASSUME SendersInv, NEW t \in Tasks, Forget(t, heap), woken' = woken \ {t}, len' \in 0 .. Capacity
  PROVE  SendersInv'
<1>1. PICK o : Holds(heap, o) /\ ToSet(o[Senders]) = Parked
  BY DEF SendersInv
<1> DEFINE s == o[Senders]
<1>2. /\ Sound(heap) /\ t \in Links /\ t \in Nodes /\ Tasks = Links
      /\ heap' = Unlink(heap, t) /\ send' = [send EXCEPT ![t] = "none"]
      /\ s \in Seq(Links) /\ Len(s) \in Nat /\ o \in Orders /\ Apart(o) /\ o[Notified] = <<>>
  BY <1>1, SentinelsDiffer, TwoLists, HoldsList, FreshIsEmpty DEF SendersInv, Forget, Tasks
<1>3. /\ Sound(heap') /\ Unlinked(heap', t)
      /\ \A n \in Nodes : Unlinked(heap, n) => Unlinked(heap', n)
  BY <1>2, UnlinkIsSound
<1>4. Parked' = Parked \ {t}
  BY <1>2 DEF Parked, SendersInv, SendersTypeOK
<1>5. Fresh(heap', Notified)
  BY <1>3, TwoLists, SentinelsDiffer DEF SendersInv, Fresh
<1>6. \A u \in Tasks \ Parked' : Unlinked(heap', u)
  BY <1>2, <1>3, <1>4, SentinelsDiffer DEF SendersInv
<1>7. Owned' /\ SendersTypeOK'
  <2>1. Owned'
    BY <1>2 DEF Forget, Owned, SendersInv, SendersTypeOK
  <2>2. woken' \subseteq Tasks /\ send' \in [Tasks -> {"none", "new", "pending"}]
    BY <1>2 DEF SendersInv, SendersTypeOK
  <2> QED BY <1>3, <1>6, <2>1, <2>2, KeepsTheTypes
<1>8. \E w : Holds(heap', w) /\ ToSet(w[Senders]) = Parked \ {t}
  <2>1. CASE t \in Parked
    <3>1. PICK i \in 1 .. Len(s) : s[i] = t
      BY <1>1, <1>2, <2>1 DEF ToSet
    <3> DEFINE w == Without(o, Senders, i)
               r == RemoveAt(s, i)
    <3>2. Holds(heap', w) /\ w[Senders] = r
      <4>1. Holds(heap', w)
        BY <1>1, <1>2, <3>1, TwoLists, UnlinkMember
      <4>2. w[Senders] = r
        BY <1>2, TwoLists DEF Without, Orders
      <4> QED BY <4>1, <4>2
    <3>3. /\ r \in Seq(Links) /\ Len(r) = Len(s) - 1
          /\ \A k \in 1 .. Len(s) - 1 : r[k] = IF k < i THEN s[k] ELSE s[k + 1]
      BY <1>2, Removed
    <3> HIDE DEF r, w, s
    <3>4. \A j, k \in 1 .. Len(s) : s[j] = s[k] => j = k
      BY <1>2, TwoLists DEF Apart, s
    <3>5. ASSUME NEW k \in 1 .. Len(s) - 1
          PROVE  r[k] \in ToSet(s) \ {t}
      <4>1. CASE k < i
        <5>1. k \in 1 .. Len(s) /\ k # i /\ r[k] = s[k]
          BY <1>2, <3>3, <4>1
        <5> QED BY <3>1, <3>4, <5>1 DEF ToSet
      <4>2. CASE ~(k < i)
        <5>1. k + 1 \in 1 .. Len(s) /\ k + 1 # i /\ r[k] = s[k + 1]
          BY <1>2, <3>3, <4>2
        <5> QED BY <3>1, <3>4, <5>1 DEF ToSet
      <4> QED BY <4>1, <4>2
    <3>6. ASSUME NEW j \in 1 .. Len(s), s[j] # t
          PROVE  \E k \in 1 .. Len(s) - 1 : r[k] = s[j]
      <4>1. CASE j < i
        <5>1. j \in 1 .. Len(s) - 1 /\ r[j] = s[j]
          BY <1>2, <3>3, <4>1
        <5> QED BY <5>1
      <4>2. CASE j > i
        <5>1. j - 1 \in 1 .. Len(s) - 1 /\ ~(j - 1 < i) /\ (j - 1) + 1 = j
          BY <1>2, <4>2
        <5>2. r[j - 1] = s[(j - 1) + 1]
          BY <3>3, <5>1
        <5> QED BY <5>1, <5>2
      <4>3. j # i
        BY <3>1, <3>6
      <4> QED BY <4>1, <4>2, <4>3
    <3>7. ToSet(r) = ToSet(s) \ {t}
      <4>1. ToSet(r) = {r[k] : k \in 1 .. Len(s) - 1} /\ ToSet(s) = {s[k] : k \in 1 .. Len(s)}
        BY <1>2, <3>3 DEF ToSet, s
      <4>2. ToSet(r) \subseteq ToSet(s) \ {t}
        BY <3>5, <4>1
      <4>3. ToSet(s) \ {t} \subseteq ToSet(r)
        BY <3>6, <4>1
      <4> QED BY <4>2, <4>3
    <3> QED BY <1>1, <3>2, <3>7 DEF s
  <2>2. CASE t \notin Parked
    <3>1. ASSUME NEW k \in 1 .. Len(s)
          PROVE  s[k] # t
      BY <1>1, <1>2, <2>2 DEF ToSet
    <3>2. ASSUME NEW m \in Lists
          PROVE  Fresh(heap, m) \/ \A i \in 0 .. Len(o[m]) + 1 : Pos(m, o[m], i) # t
      <4>1. CASE m = Notified
        BY <4>1 DEF SendersInv
      <4>2. CASE m = Senders
        BY <1>2, <3>1, <4>2, SentinelsDiffer DEF Pos
      <4> QED BY <4>1, <4>2, ListsAssumption
    <3>3. Holds(heap', o)
      BY <1>1, <1>2, <3>2, UnlinkOutside
    <3> QED BY <1>1, <2>2, <3>3
  <2> QED BY <2>1, <2>2
<1> QED BY <1>3, <1>4, <1>5, <1>6, <1>7, <1>8 DEF SendersInv

\* A future that finds the queue full puts its link, which is null, at the end.
LEMMA ParksHolds ==
  ASSUME SendersInv, NEW t \in Tasks, Pollable(t), Parks(t), woken' = woken \ {t}
  PROVE  SendersInv'
<1>1. PICK o : Holds(heap, o) /\ ToSet(o[Senders]) = Parked
  BY DEF SendersInv
<1> DEFINE s == o[Senders]
           w == [o EXCEPT ![Senders] = Append(@, t)]
<1>2. /\ Sound(heap) /\ t \in Links /\ t \in Nodes /\ Tasks = Links
      /\ heap' = PushBack(heap, Senders, t) /\ send' = [send EXCEPT ![t] = "pending"] /\ len' = len
      /\ s \in Seq(Links) /\ Len(s) \in Nat /\ o \in Orders
  BY <1>1, SentinelsDiffer, TwoLists, HoldsList DEF SendersInv, Parks, Tasks
<1>3. t \notin Parked /\ Unlinked(heap, t)
  BY DEF Pollable, Parked, SendersInv
<1>4. /\ Sound(heap') /\ Holds(heap', w)
      /\ \A n \in Nodes \ {t, HeadOf(Senders), TailOf(Senders)} : Unlinked(heap, n) => Unlinked(heap', n)
  BY <1>1, <1>2, <1>3, TwoLists, PushBackHolds
<1>5. ToSet(w[Senders]) = Parked \cup {t}
  <2>1. w[Senders] = Append(s, t)
    BY <1>2, TwoLists DEF Orders
  <2>2. /\ Len(Append(s, t)) = Len(s) + 1 /\ Append(s, t) \in Seq(Links)
        /\ \A k \in 1 .. Len(s) : Append(s, t)[k] = s[k]
        /\ Append(s, t)[Len(s) + 1] = t
    BY <1>2
  <2>3. 1 .. Len(s) + 1 = 1 .. Len(s) \cup {Len(s) + 1}
    BY <1>2
  <2> DEFINE u == Append(s, t)
  <2> HIDE DEF u, s
  <2>4. ToSet(u) = {u[k] : k \in 1 .. Len(s) + 1} /\ ToSet(s) = {s[k] : k \in 1 .. Len(s)}
    BY <1>2, <2>2 DEF ToSet, u
  <2>5. ToSet(u) = ToSet(s) \cup {t}
    BY <2>2, <2>3, <2>4 DEF u
  <2> QED BY <1>1, <2>1, <2>5 DEF u, s
<1> HIDE DEF w
<1>6. Parked' = Parked \cup {t}
  BY <1>2 DEF Parked, SendersInv, SendersTypeOK
<1>7. Fresh(heap', Notified)
  BY <1>2, <1>4, TwoLists, SentinelsDiffer DEF SendersInv, Fresh
<1>8. \A u \in Tasks \ Parked' : Unlinked(heap', u)
  BY <1>2, <1>4, <1>6, TwoLists, SentinelsDiffer DEF SendersInv
<1>9. Owned' /\ SendersTypeOK'
  <2>1. Owned'
    <3>1. send[t] # "none" /\ UNCHANGED <<live, lists>>
      BY DEF Pollable, Parks
    <3> QED BY <1>2, <3>1 DEF Owned, SendersInv, SendersTypeOK
  <2>2. /\ woken' \subseteq Tasks /\ send' \in [Tasks -> {"none", "new", "pending"}]
        /\ len' \in 0 .. Capacity
    BY <1>2 DEF SendersInv, SendersTypeOK
  <2> QED BY <1>4, <1>8, <2>1, <2>2, KeepsTheTypes
<1> QED BY <1>4, <1>5, <1>6, <1>7, <1>8, <1>9 DEF SendersInv

\* A poll sends or parks.
LEMMA PollHolds ==
  ASSUME SendersInv, NEW t \in Tasks, Poll(t)
  PROVE  SendersInv'
<1>1. CASE Sent(t)
  <2>1. Forget(t, heap) /\ woken' = woken \ {t} /\ len' \in 0 .. Capacity
    BY <1>1, CapacityAssumption DEF Sent, Poll, SendersInv, SendersTypeOK
  <2> QED BY <2>1, ForgetHolds
<1>2. CASE Parks(t)
  BY <1>2, ParksHolds DEF Poll
<1> QED BY <1>1, <1>2 DEF Poll

\* A cancelled task drops its future.
LEMMA CancelHolds ==
  ASSUME SendersInv, NEW t \in Tasks, Cancel(t)
  PROVE  SendersInv'
<1>1. Forget(t, heap) /\ woken' = woken \ {t} /\ len' \in 0 .. Capacity
  BY DEF Cancel, SendersInv, SendersTypeOK
<1> QED BY <1>1, ForgetHolds

----------------------------------------------------------------------------
(* Notifying everybody.                                                    *)

\* The first n steps of Pops(h).
PopsFrom(f, n, h) ==
  f = [k \in 0 .. n |-> IF k = 0 THEN MoveToFrontOf(h, Senders, Notified)
                        ELSE PopFront(f[k - 1], Notified)]

\* However many there are, the calls have results.
LEMMA PopsExist ==
  ASSUME NEW h, NEW n \in Nat
  PROVE  \E f : PopsFrom(f, n, h)
<1> DEFINE T == {k \in Nat : ~\E f : PopsFrom(f, k, h)}
<1> SUFFICES ASSUME T # {}
             PROVE  FALSE
  OBVIOUS
<1>1. PICK k \in T : \A m \in T : k <= m
  <2>1. T \in SUBSET Nat
    OBVIOUS
  <2> HIDE DEF T
  <2> QED BY <2>1, LeastNumber
<1>2. k \in Nat /\ ~\E f : PopsFrom(f, k, h)
  OBVIOUS
<1>3. k # 0
  <2>1. PopsFrom([j \in 0 .. 0 |-> MoveToFrontOf(h, Senders, Notified)], 0, h)
    BY DEF PopsFrom
  <2> QED BY <1>2, <2>1
<1>4. k - 1 \in Nat /\ ~(k <= k - 1)
  BY <1>2, <1>3
<1>5. PICK f : PopsFrom(f, k - 1, h)
  BY <1>1, <1>4
<1> DEFINE g == [j \in 0 .. k |-> IF j = k THEN PopFront(f[k - 1], Notified) ELSE f[j]]
<1>6. PopsFrom(g, k, h)
  <2>1. ASSUME NEW j \in 0 .. k
        PROVE  g[j] = IF j = 0 THEN MoveToFrontOf(h, Senders, Notified) ELSE PopFront(g[j - 1], Notified)
    <3>1. CASE j = k
      <4>1. j - 1 \in 0 .. k /\ j - 1 # k /\ g[j - 1] = f[k - 1] /\ g[j] = PopFront(f[k - 1], Notified)
        BY <1>2, <1>3, <3>1
      <4> HIDE DEF g
      <4> QED BY <1>3, <3>1, <4>1
    <3>2. CASE j # k
      <4>1. j \in 0 .. k - 1 /\ g[j] = f[j]
        BY <1>2, <3>2
      <4>2. f[j] = IF j = 0 THEN MoveToFrontOf(h, Senders, Notified) ELSE PopFront(f[j - 1], Notified)
        BY <1>5, <4>1 DEF PopsFrom
      <4>3. j # 0 => g[j - 1] = f[j - 1]
        BY <1>2, <4>1
      <4> HIDE DEF g
      <4> QED BY <4>1, <4>2, <4>3
    <3> QED BY <3>1, <3>2
  <2>2. g = [j \in 0 .. k |-> g[j]]
    OBVIOUS
  <2> HIDE DEF g
  <2> QED BY <2>1, <2>2 DEF PopsFrom
<1> QED BY <1>2, <1>6

\* Pops takes these steps.
LEMMA PopsAre ==
  ASSUME NEW h
  PROVE  /\ Cardinality(Tasks) \in Nat
         /\ Pops(h)[0] = MoveToFrontOf(h, Senders, Notified)
         /\ \A k \in 1 .. Cardinality(Tasks) : Pops(h)[k] = PopFront(Pops(h)[k - 1], Notified)
<1> DEFINE N == Cardinality(Tasks)
           P(f) == f = [k \in 0 .. N |-> IF k = 0 THEN MoveToFrontOf(h, Senders, Notified)
                                         ELSE PopFront(f[k - 1], Notified)]
<1>1. N \in Nat
  BY FiniteAssumption, FS_CardinalityType DEF Tasks
<1>2. Pops(h) = CHOOSE f : P(f)
  BY DEF Pops
<1>3. \E f : P(f)
  <2> HIDE DEF N
  <2> QED BY <1>1, PopsExist DEF PopsFrom
<1>4. P(Pops(h))
  <2> HIDE DEF P
  <2> QED BY <1>2, <1>3
<1> HIDE DEF N
<1>5. ASSUME NEW k \in 0 .. N
      PROVE  Pops(h)[k] = IF k = 0 THEN MoveToFrontOf(h, Senders, Notified)
                          ELSE PopFront(Pops(h)[k - 1], Notified)
  <2> DEFINE W == Pops(h)
  <2>1. W = [i \in 0 .. N |-> IF i = 0 THEN MoveToFrontOf(h, Senders, Notified)
                              ELSE PopFront(W[i - 1], Notified)]
    BY <1>4
  <2> HIDE DEF W
  <2>2. W[k] = IF k = 0 THEN MoveToFrontOf(h, Senders, Notified) ELSE PopFront(W[k - 1], Notified)
    BY <2>1
  <2> QED BY <2>2 DEF W
<1>6. 0 \in 0 .. N /\ \A k \in 1 .. N : k \in 0 .. N /\ k # 0
  BY <1>1
<1> QED BY <1>1, <1>5, <1>6 DEF N

\* What is left of a sequence after k calls.
Rest(s, k) == SubSeq(s, k + 1, Len(s))

\* One call after the other takes the first of what is left.
LEMMA RestIs ==
  ASSUME NEW s \in Seq(Links), NEW k \in Nat
  PROVE  /\ Rest(s, k) \in Seq(Links) /\ Rest(s, 0) = s
         /\ k < Len(s) => /\ Rest(s, k) # <<>> /\ Head(Rest(s, k)) = s[k + 1]
                          /\ Tail(Rest(s, k)) = Rest(s, k + 1)
         /\ ~(k < Len(s)) => Rest(s, k) = <<>>
<1>1. Len(s) \in Nat
  BY LenProperties
<1>2. /\ Rest(s, k) \in Seq(Links)
      /\ Len(Rest(s, k)) = IF k < Len(s) THEN Len(s) - k ELSE 0
      /\ \A i \in 1 .. Len(Rest(s, k)) : Rest(s, k)[i] = s[k + i]
  BY <1>1 DEF Rest
<1>3. ~(k < Len(s)) => Rest(s, k) = <<>>
  BY <1>2, EmptySeq
<1>4. Rest(s, 0) = s
  BY <1>1 DEF Rest
<1>5. ASSUME k < Len(s)
      PROVE  /\ Rest(s, k) # <<>> /\ Head(Rest(s, k)) = s[k + 1]
             /\ Tail(Rest(s, k)) = Rest(s, k + 1)
  <2> DEFINE u == Rest(s, k)
             v == Rest(s, k + 1)
  <2>1. /\ u \in Seq(Links) /\ Len(u) = Len(s) - k /\ Len(u) # 0
        /\ \A i \in 1 .. Len(u) : u[i] = s[k + i]
    BY <1>1, <1>2, <1>5
  <2>2. /\ v \in Seq(Links) /\ Len(v) = Len(s) - (k + 1)
        /\ \A i \in 1 .. Len(v) : v[i] = s[(k + 1) + i]
    BY <1>1, <1>5 DEF Rest
  <2> HIDE DEF u, v
  <2>3. u # <<>> /\ 1 \in 1 .. Len(u)
    BY <1>1, <2>1, EmptySeq
  <2>4. /\ Head(u) = u[1] /\ Tail(u) \in Seq(Links) /\ Len(Tail(u)) = Len(u) - 1
        /\ \A i \in 1 .. Len(u) - 1 : Tail(u)[i] = u[i + 1]
    BY <2>1, <2>3, HeadTailProperties
  <2>5. ASSUME NEW i \in 1 .. Len(v)
        PROVE  Tail(u)[i] = v[i]
    <3>1. i \in 1 .. Len(u) - 1 /\ i + 1 \in 1 .. Len(u) /\ k + (i + 1) = (k + 1) + i
      BY <1>1, <2>1, <2>2
    <3> QED BY <2>1, <2>2, <2>4, <3>1
  <2>6. Len(Tail(u)) = Len(v)
    BY <1>1, <2>1, <2>2, <2>4
  <2>7. Tail(u) = v
    BY <2>2, <2>4, <2>5, <2>6, SeqEqual
  <2> QED BY <2>1, <2>3, <2>4, <2>7 DEF u, v
<1> QED BY <1>2, <1>3, <1>4, <1>5

\* The sequences after k calls.
After(o, k) == [Joined(o, Senders, Notified) EXCEPT ![Notified] = Rest(o[Senders], k)]

\* What one call of pop_front does to them.
LEMMA OnePop ==
  ASSUME NEW o \in Orders, Apart(o), o[Notified] = <<>>, NEW k \in Nat,
         NEW h, Sound(h), Holds(h, After(o, k))
  PROVE  /\ Sound(PopFront(h, Notified)) /\ Holds(PopFront(h, Notified), After(o, k + 1))
         /\ IF k < Len(o[Senders])
            THEN /\ FrontOf(h, Notified) = o[Senders][k + 1]
                 /\ Unlinked(PopFront(h, Notified), o[Senders][k + 1])
            ELSE FrontOf(h, Notified) = Null
         /\ \A n \in Nodes \ {HeadOf(Notified), TailOf(Notified)} :
              Unlinked(h, n) => Unlinked(PopFront(h, Notified), n)
<1> DEFINE s == o[Senders]
           w == After(o, k)
<1>1. s \in Seq(Links) /\ Len(s) \in Nat
  BY TwoLists, LenProperties DEF Orders
<1>2. Joined(o, Senders, Notified) \in Orders
  BY TwoLists, MovedApart
<1>3. w \in Orders /\ w[Notified] = Rest(s, k)
  BY <1>1, <1>2, TwoLists, RestIs DEF After, Orders
<1>4. After(o, k + 1) = [w EXCEPT ![Notified] = Rest(s, k + 1)]
  BY <1>2, TwoLists DEF After, Orders
<1> DEFINE g == PopFront(h, Notified)
<1> HIDE DEF w, s, g
<1>5. /\ Sound(g)
      /\ w[Notified] = <<>> => FrontOf(h, Notified) = Null /\ Holds(g, w)
      /\ w[Notified] # <<>> => /\ FrontOf(h, Notified) = Head(w[Notified])
                               /\ Holds(g, [w EXCEPT ![Notified] = Tail(@)])
                               /\ Unlinked(g, Head(w[Notified]))
      /\ \A n \in Nodes \ {HeadOf(Notified), TailOf(Notified)} : Unlinked(h, n) => Unlinked(g, n)
  BY TwoLists, PopFrontHolds DEF w, g
<1>6. CASE k < Len(s)
  <2>1. /\ w[Notified] # <<>> /\ Head(w[Notified]) = s[k + 1]
        /\ Tail(w[Notified]) = Rest(s, k + 1)
    BY <1>1, <1>3, <1>6, RestIs
  <2>2. [w EXCEPT ![Notified] = Tail(@)] = After(o, k + 1)
    BY <1>4, <2>1
  <2> QED BY <1>5, <1>6, <2>1, <2>2 DEF g, s
<1>7. CASE ~(k < Len(s))
  <2>1. w[Notified] = <<>> /\ ~(k + 1 < Len(s)) /\ k + 1 \in Nat
    BY <1>1, <1>3, <1>7, RestIs
  <2>2. Rest(s, k + 1) = w[Notified]
    BY <1>1, <2>1, RestIs
  <2>3. After(o, k + 1) = w
    BY <1>3, <1>4, <2>2 DEF Orders
  <2> QED BY <1>5, <1>7, <2>1, <2>3 DEF g, s
<1> QED BY <1>6, <1>7

\* The heap after k calls.
LEMMA AllPops ==
  ASSUME NEW o \in Orders, o[Notified] = <<>>, NEW h, Sound(h), Holds(h, o),
         NEW k \in 0 .. Cardinality(Tasks)
  PROVE  /\ Sound(Pops(h)[k]) /\ Holds(Pops(h)[k], After(o, k))
         /\ \A i \in 1 .. Len(o[Senders]) : i <= k => Unlinked(Pops(h)[k], o[Senders][i])
         /\ \A n \in Nodes \ {HeadOf(Senders), TailOf(Senders), HeadOf(Notified), TailOf(Notified)} :
              Unlinked(h, n) => Unlinked(Pops(h)[k], n)
<1> DEFINE N == Cardinality(Tasks)
           s == o[Senders]
           Others == Nodes \ {HeadOf(Senders), TailOf(Senders), HeadOf(Notified), TailOf(Notified)}
           P(j) == /\ Sound(Pops(h)[j]) /\ Holds(Pops(h)[j], After(o, j))
                   /\ \A i \in 1 .. Len(s) : i <= j => Unlinked(Pops(h)[j], s[i])
                   /\ \A n \in Others : Unlinked(h, n) => Unlinked(Pops(h)[j], n)
           T == {j \in 0 .. N : ~P(j)}
<1>1. /\ N \in Nat /\ Pops(h)[0] = MoveToFrontOf(h, Senders, Notified)
      /\ \A j \in 1 .. N : Pops(h)[j] = PopFront(Pops(h)[j - 1], Notified)
  BY PopsAre
<1>2. s \in Seq(Links) /\ Len(s) \in Nat /\ Apart(o)
  BY TwoLists, HoldsList
<1>3. P(0)
  <2> DEFINE g == MoveToFrontOf(h, Senders, Notified)
  <2>1. /\ Sound(g) /\ Holds(g, Joined(o, Senders, Notified))
        /\ \A n \in Others : Unlinked(h, n) => Unlinked(g, n)
    BY TwoLists, MoveHolds
  <2>2. Joined(o, Senders, Notified) = After(o, 0)
    <3>1. /\ Joined(o, Senders, Notified) \in Orders
          /\ Joined(o, Senders, Notified)[Notified] = s \o <<>>
      <4>1. /\ Joined(o, Senders, Notified) \in Orders
            /\ Joined(o, Senders, Notified)[Notified] = o[Senders] \o o[Notified]
        BY <1>2, TwoLists, MovedApart
      <4> QED BY <4>1
    <3>2. s \o <<>> = s /\ Rest(s, 0) = s
      BY <1>2, ConcatEmptySeq, RestIs
    <3> QED BY <3>1, <3>2 DEF After, Orders
  <2>3. \A i \in 1 .. Len(s) : ~(i <= 0)
    BY <1>2
  <2> HIDE DEF g, s, Others
  <2>4. Pops(h)[0] = g
    BY <1>1 DEF g
  <2> QED BY <2>1, <2>2, <2>3, <2>4
<1> SUFFICES T = {}
  <2>1. k \in 0 .. N
    OBVIOUS
  <2> HIDE DEF P
  <2>2. ASSUME T = {}
        PROVE  P(k)
    BY <2>1, <2>2
  <2> QED BY <2>2 DEF P
<1> HIDE DEF N
<1> SUFFICES ASSUME T # {}
             PROVE  FALSE
  OBVIOUS
<1>4. PICK j \in T : \A m \in T : j <= m
  <2>1. T \in SUBSET Nat
    BY <1>1
  <2> HIDE DEF T
  <2> QED BY <2>1, LeastNumber
<1> HIDE DEF P
<1>5. j \in 0 .. N /\ ~P(j) /\ j # 0
  BY <1>3
<1>6. j - 1 \in 0 .. N /\ ~(j <= j - 1) /\ j \in 1 .. N /\ j - 1 \in Nat /\ (j - 1) + 1 = j
  BY <1>1, <1>5
<1>7. P(j - 1)
  BY <1>4, <1>6
<1> DEFINE g0 == Pops(h)[j - 1]
           g == PopFront(g0, Notified)
<1>8. /\ Sound(g0) /\ Holds(g0, After(o, j - 1))
      /\ \A i \in 1 .. Len(s) : i <= j - 1 => Unlinked(g0, s[i])
      /\ \A n \in Others : Unlinked(h, n) => Unlinked(g0, n)
  BY <1>7 DEF P
<1>9. Pops(h)[j] = g
  BY <1>1, <1>6
<1> HIDE DEF g0, g
<1>10. /\ Sound(g) /\ Holds(g, After(o, j))
       /\ j - 1 < Len(s) => Unlinked(g, s[j])
       /\ \A n \in Nodes \ {HeadOf(Notified), TailOf(Notified)} : Unlinked(g0, n) => Unlinked(g, n)
  <2>1. /\ Sound(g) /\ Holds(g, After(o, (j - 1) + 1))
        /\ j - 1 < Len(s) => Unlinked(g, s[(j - 1) + 1])
        /\ \A n \in Nodes \ {HeadOf(Notified), TailOf(Notified)} : Unlinked(g0, n) => Unlinked(g, n)
    BY <1>2, <1>6, <1>8, OnePop DEF g
  <2> HIDE DEF s
  <2> QED BY <1>6, <2>1
<1>11. ASSUME NEW i \in 1 .. Len(s), i <= j
       PROVE  Unlinked(g, s[i])
  <2>1. CASE i = j
    <3>1. j - 1 < Len(s)
      BY <1>2, <1>6, <2>1
    <3> QED BY <1>10, <2>1, <3>1
  <2>2. CASE i # j
    <3>1. i <= j - 1
      BY <1>2, <1>6, <1>11, <2>2
    <3>2. s[i] \in Links
      BY <1>2, ElementOfSeq
    <3>3. s[i] \in Nodes \ {HeadOf(Notified), TailOf(Notified)}
      BY <3>2, TwoLists, SentinelsDiffer
    <3> HIDE DEF s
    <3> QED BY <1>8, <1>10, <3>1, <3>3
  <2> QED BY <2>1, <2>2
<1>12. \A n \in Others : Unlinked(h, n) => Unlinked(g, n)
  BY <1>8, <1>10
<1>13. P(j)
  BY <1>9, <1>10, <1>11, <1>12 DEF P
<1> QED BY <1>5, <1>13

\* There are no more links in the list than there are tasks.
LEMMA FewAreParked ==
  ASSUME NEW s \in Seq(Links), \A i, j \in 1 .. Len(s) : s[i] = s[j] => i = j
  PROVE  Len(s) <= Cardinality(Tasks)
<1> DEFINE N == Len(s)
           f == [i \in 1 .. N |-> s[i]]
<1>1. N \in Nat /\ \A i \in 1 .. N : s[i] \in Links
  BY LenProperties, ElementOfSeq
<1>2. f \in Injection(1 .. N, Links)
  <2>1. f \in [1 .. N -> Links] /\ \A i, j \in 1 .. N : f[i] = f[j] => i = j
    BY <1>1
  <2> HIDE DEF f
  <2> QED BY <2>1, Fun_IsInj
<1> HIDE DEF N, f
<1>3. Cardinality(1 .. N) <= Cardinality(Links)
  BY <1>2, FiniteAssumption, FS_Injection
<1>4. Cardinality(1 .. N) = N
  <2>1. 1 \in Int /\ N \in Int
    BY <1>1
  <2>2. Cardinality(1 .. N) = IF 1 > N THEN 0 ELSE N - 1 + 1
    BY <2>1, FS_Interval
  <2> QED BY <1>1, <2>2
<1> QED BY <1>3, <1>4 DEF N, Tasks

\* Afterwards nobody is in the list, and everybody who was in it was called.
LEMMA NotifyAllHolds ==
  ASSUME NEW o \in Orders, o[Notified] = <<>>, NEW h, Sound(h), Holds(h, o),
         \A t \in Tasks \ ToSet(o[Senders]) : Unlinked(h, t)
  PROVE  /\ Sound(NotifyAll(h).heap) /\ Fresh(NotifyAll(h).heap, Notified)
         /\ \E w : Holds(NotifyAll(h).heap, w) /\ ToSet(w[Senders]) = {}
         /\ \A t \in Tasks : Unlinked(NotifyAll(h).heap, t)
         /\ NotifyAll(h).called = ToSet(o[Senders])
<1> DEFINE B == Cardinality(Tasks)
           s == o[Senders]
           g == Pops(h)[B]
           w == After(o, B)
<1>1. /\ B \in Nat /\ s \in Seq(Links) /\ Len(s) \in Nat /\ Apart(o) /\ B \in 0 .. B
      /\ \A i \in 1 .. Len(s) : s[i] \in Links
  <2>1. B \in Nat
    BY PopsAre
  <2>2. s \in Seq(Links) /\ Len(s) \in Nat /\ Apart(o)
    BY TwoLists, HoldsList
  <2> QED BY <2>1, <2>2, ElementOfSeq
<1>2. \A i, j \in 1 .. Len(s) : s[i] = s[j] => i = j
  BY <1>1, TwoLists DEF Apart
<1>3. Len(s) <= B
  BY <1>1, <1>2, FewAreParked
<1>4. ToSet(s) = {s[i] : i \in 1 .. Len(s)}
  BY <1>1 DEF ToSet
<1>5. /\ Sound(g) /\ Holds(g, w)
      /\ \A i \in 1 .. Len(s) : i <= B => Unlinked(g, s[i])
      /\ \A n \in Nodes \ {HeadOf(Senders), TailOf(Senders), HeadOf(Notified), TailOf(Notified)} :
           Unlinked(h, n) => Unlinked(g, n)
  BY <1>1, AllPops
<1>6. /\ NotifyAll(h).heap = DropSentinels(g, Notified)
      /\ NotifyAll(h).called = {FrontOf(Pops(h)[k], Notified) : k \in 0 .. B} \ {Null}
  BY DEF NotifyAll
<1>7. /\ Sound(NotifyAll(h).heap) /\ Fresh(NotifyAll(h).heap, Notified)
      /\ Holds(NotifyAll(h).heap, [w EXCEPT ![Notified] = <<>>])
      /\ \A n \in Nodes : Unlinked(g, n) => Unlinked(NotifyAll(h).heap, n)
  <2> HIDE DEF g, w
  <2> QED BY <1>5, <1>6, TwoLists, DropHolds
<1>8. ToSet([w EXCEPT ![Notified] = <<>>][Senders]) = {}
  <2>1. Joined(o, Senders, Notified) \in Orders /\ Joined(o, Senders, Notified)[Senders] = <<>>
    BY <1>1, TwoLists, MovedApart
  <2>2. [w EXCEPT ![Notified] = <<>>][Senders] = <<>>
    BY <2>1, TwoLists DEF After, Orders
  <2>3. ToSet(<<>>) = {}
    BY DEF ToSet
  <2> QED BY <2>2, <2>3
<1>9. ASSUME NEW t \in Tasks
      PROVE  Unlinked(NotifyAll(h).heap, t)
  <2>1. t \in Links /\ t \in Nodes
    BY SentinelsDiffer DEF Tasks
  <2> HIDE DEF s, g, B
  <2>2. CASE t \in ToSet(s)
    <3>1. PICK i \in 1 .. Len(s) : s[i] = t
      BY <1>4, <2>2
    <3>2. i <= B
      BY <1>1, <1>3
    <3> QED BY <1>5, <1>7, <2>1, <3>1, <3>2
  <2>3. CASE t \notin ToSet(s)
    <3>1. Unlinked(h, t)
      BY <2>3 DEF s
    <3>2. t \in Nodes \ {HeadOf(Senders), TailOf(Senders), HeadOf(Notified), TailOf(Notified)}
      BY <2>1, TwoLists, SentinelsDiffer
    <3> QED BY <1>5, <1>7, <2>1, <3>1, <3>2
  <2> QED BY <2>2, <2>3
<1> HIDE DEF w, g
<1>10. ASSUME NEW k \in 0 .. B
       PROVE  FrontOf(Pops(h)[k], Notified) = IF k < Len(s) THEN s[k + 1] ELSE Null
  <2>1. k \in Nat /\ Sound(Pops(h)[k]) /\ Holds(Pops(h)[k], After(o, k))
    BY <1>1, AllPops
  <2> QED BY <1>1, <2>1, OnePop
<1>11. NotifyAll(h).called = ToSet(s)
  <2>1. ASSUME NEW k \in 0 .. B, FrontOf(Pops(h)[k], Notified) # Null
        PROVE  FrontOf(Pops(h)[k], Notified) \in ToSet(s)
    <3>1. k < Len(s) /\ FrontOf(Pops(h)[k], Notified) = s[k + 1]
      BY <1>10, <2>1
    <3>2. k + 1 \in 1 .. Len(s)
      BY <1>1, <3>1
    <3> HIDE DEF s, B
    <3> QED BY <1>4, <3>1, <3>2
  <2>2. ASSUME NEW i \in 1 .. Len(s)
        PROVE  s[i] # Null /\ \E k \in 0 .. B : FrontOf(Pops(h)[k], Notified) = s[i]
    <3>1. i - 1 \in 0 .. B /\ i - 1 < Len(s) /\ (i - 1) + 1 = i
      BY <1>1, <1>3
    <3>2. s[i] # Null
      BY <1>1, SentinelsDiffer
    <3>3. FrontOf(Pops(h)[i - 1], Notified) = s[(i - 1) + 1]
      BY <1>10, <3>1
    <3> HIDE DEF s, B
    <3> QED BY <3>1, <3>2, <3>3
  <2> HIDE DEF s, B
  <2> QED BY <1>4, <1>6, <2>1, <2>2
<1> QED BY <1>7, <1>8, <1>9, <1>11 DEF w, s

\* A receive empties the list and wakes everybody who was in it.
LEMMA ReceiveHolds ==
  ASSUME SendersInv, Receive
  PROVE  SendersInv'
<1>1. PICK o : Holds(heap, o) /\ ToSet(o[Senders]) = Parked
  BY DEF SendersInv
<1>2. /\ Sound(heap) /\ o \in Orders /\ o[Notified] = <<>>
      /\ \A t \in Tasks \ ToSet(o[Senders]) : Unlinked(heap, t)
  BY <1>1, TwoLists, HoldsList, FreshIsEmpty DEF SendersInv
<1> DEFINE g == NotifyAll(heap).heap
           C == NotifyAll(heap).called
<1>3. /\ Sound(g) /\ Fresh(g, Notified)
      /\ \E w : Holds(g, w) /\ ToSet(w[Senders]) = {}
      /\ \A t \in Tasks : Unlinked(g, t)
      /\ C = Parked
  BY <1>1, <1>2, NotifyAllHolds
<1>4. heap' = g /\ woken' = woken \cup C /\ send' = send /\ len' = len - 1 /\ len > 0
  BY DEF Receive
<1> HIDE DEF g, C
<1>5. Parked' = {}
  BY <1>3, <1>4 DEF Parked
<1>6. Owned' /\ SendersTypeOK'
  <2>1. Owned'
    BY DEF Receive, Owned, SendersInv
  <2>2. len' \in 0 .. Capacity
    BY <1>4, CapacityAssumption DEF SendersInv, SendersTypeOK
  <2>3. woken' \subseteq Tasks /\ send' \in [Tasks -> {"none", "new", "pending"}]
    BY <1>3, <1>4 DEF SendersInv, SendersTypeOK, Parked
  <2>4. Sound(heap') /\ \A t \in Tasks \ Parked' : Unlinked(heap', t)
    BY <1>3, <1>4
  <2> QED BY <2>1, <2>2, <2>3, <2>4, KeepsTheTypes
<1> QED BY <1>3, <1>4, <1>5, <1>6 DEF SendersInv

----------------------------------------------------------------------------
(* The theorems.                                                           *)

\* Every step keeps the invariant.
LEMMA SendersStep ==
  ASSUME SendersInv, [SendersNext]_senderVars
  PROVE  SendersInv'
<1>1. CASE UNCHANGED senderVars
  BY <1>1 DEF senderVars, vars, SendersInv, SendersTypeOK, TypeOK, Owned, Parked,
              Sound, Linked, Ended, Holds, Fresh, Unlinked, Strung
<1>2. ASSUME NEW t \in Tasks, Start(t)
      PROVE  SendersInv'
  BY <1>2, StartHolds
<1>3. ASSUME NEW t \in Tasks, Poll(t)
      PROVE  SendersInv'
  BY <1>3, PollHolds
<1>4. ASSUME NEW t \in Tasks, Cancel(t)
      PROVE  SendersInv'
  BY <1>4, CancelHolds
<1>5. CASE Receive
  BY <1>5, ReceiveHolds
<1> QED BY <1>1, <1>2, <1>3, <1>4, <1>5 DEF SendersNext

\* The invariant holds of every reachable state.
THEOREM SendersInvariance == SendersSpec => []SendersInv
<1>1. SendersInit => SendersInv
  BY SendersInitHolds
<1>2. SendersInv /\ [SendersNext]_senderVars => SendersInv'
  BY SendersStep
<1> QED BY <1>1, <1>2, PTL DEF SendersSpec

\* Every state is of its type: a pointer leads to a link or a sentinel, or is
\* null, and the queue never exceeds its capacity.
THEOREM SendersTypeCorrect == SendersSpec => []SendersTypeOK
<1>1. SendersInv => SendersTypeOK
  BY DEF SendersInv
<1> QED BY <1>1, SendersInvariance, PTL

\* The invariant of the lists themselves.
LEMMA TheListsAreKept ==
  ASSUME SendersInv
  PROVE  Inv
<1>1. PICK o : Holds(heap, o)
  BY DEF SendersInv
<1>2. Sound(heap) /\ TypeOK
  BY DEF SendersInv, SendersTypeOK
<1>3. Order = o
  BY <1>1, <1>2, TheyAreTheOrder DEF Order
<1>4. \A l \in Lists \ lists : Fresh(heap, l)
  BY ListsAssumption DEF SendersInv, Owned
<1> QED BY <1>1, <1>2, <1>3, <1>4 DEF Inv

\* Pushing the link of a future is safe as the code says: dropping futures in
\* any order, woken or not, leaves no pointer to a link that is gone.
THEOREM SendersNothingDangles == SendersSpec => []NoDangling
<1>1. SendersInv => NoDangling
  BY TheListsAreKept, SoundNeverDangles
<1> QED BY <1>1, SendersInvariance, PTL

\* The push of SendFuture::poll, which asks nothing, does no more than the list
\* allows its callers: the link exists and is in no list.
THEOREM ThePushIsAllowed ==
  SendersSpec => [][\A t \in Tasks : Poll(t) /\ Parks(t) => PushLinkBack(Senders, t)]_senderVars
<1>1. ASSUME SendersInv, NEW t \in Tasks, Poll(t), Parks(t)
      PROVE  PushLinkBack(Senders, t)
  <2>1. Senders \in lists /\ t \in live
    BY <1>1 DEF SendersInv, Owned, Poll, Pollable
  <2>2. Unlinked(heap, t)
    BY <1>1 DEF SendersInv, Parked, Poll, Pollable
  <2> QED BY <1>1, <2>1, <2>2 DEF Parks, PushLinkBack
<1>2. SendersInv /\ [SendersNext]_senderVars
        => [\A t \in Tasks : Poll(t) /\ Parks(t) => PushLinkBack(Senders, t)]_senderVars
  BY <1>1
<1> QED BY <1>2, SendersInvariance, PTL DEF SendersSpec

\* The list is the set of waiting senders that Channel.tla keeps in its place,
\* and notifying all of them misses nobody.
THEOREM TheListIsExact == SendersSpec => []ListHoldsTheParked
<1>1. ASSUME SendersInv
      PROVE  ListHoldsTheParked
  <2>1. PICK o : Holds(heap, o) /\ ToSet(o[Senders]) = Parked
    BY <1>1 DEF SendersInv
  <2>2. Forward(heap, Senders) = o[Senders]
    BY <1>1, <2>1, TwoLists, ForwardYieldsTheList DEF SendersInv
  <2>3. o[Senders] \in Seq(Links) /\ Len(o[Senders]) \in Nat /\ Apart(o)
    BY <2>1, TwoLists, HoldsList
  <2>4. IsInjective(o[Senders])
    <3>1. DOMAIN o[Senders] = 1 .. Len(o[Senders])
      BY <2>3
    <3>2. \A i, j \in 1 .. Len(o[Senders]) : o[Senders][i] = o[Senders][j] => i = j
      BY <2>3, TwoLists DEF Apart
    <3> QED BY <3>1, <3>2 DEF IsInjective
  <2> QED BY <2>1, <2>2, <2>4 DEF ListHoldsTheParked, Parked
<1> QED BY <1>1, SendersInvariance, PTL

\* The senders in the list.
Waiting == ToSet(Forward(heap, Senders))

\* What the steps of Channel.tla do to the set it keeps in place of the list: a
\* future that parks joins it, one that is dropped leaves it, and a receive
\* empties it and wakes all that were in it.
ActsAsTheSet ==
  /\ \A t \in Tasks : Poll(t) /\ Parks(t) => Waiting' = Waiting \cup {t}
  /\ \A t \in Tasks : Poll(t) /\ Sent(t) => Waiting' = Waiting \ {t}
  /\ \A t \in Tasks : Cancel(t) => Waiting' = Waiting \ {t}
  /\ Receive => Waiting' = {} /\ woken' = woken \cup Waiting

\* Those in the list are the parked.
LEMMA WaitingIs ==
  ASSUME SendersInv, SendersInv'
  PROVE  Waiting = Parked /\ Waiting' = Parked'
<1>1. Waiting = Parked
  <2>1. PICK o : Holds(heap, o) /\ ToSet(o[Senders]) = Parked
    BY DEF SendersInv
  <2> QED BY <2>1, TwoLists, ForwardYieldsTheList DEF SendersInv, Waiting
<1>2. Waiting' = Parked'
  <2>1. PICK o : Holds(heap', o) /\ ToSet(o[Senders]) = Parked'
    BY DEF SendersInv
  <2> QED BY <2>1, TwoLists, ForwardYieldsTheList DEF SendersInv, Waiting
<1> QED BY <1>1, <1>2

\* Each step does to the pointers what it does to the set in Channel.tla: there
\* is no order of parking, cancelling and waking in which the two come apart.
THEOREM TheListActsAsTheSet == SendersSpec => [][ActsAsTheSet]_senderVars
<1>1. ASSUME SendersInv, SendersInv'
      PROVE  ActsAsTheSet
  <2>1. /\ Waiting = Parked /\ Waiting' = Parked'
        /\ send \in [Tasks -> {"none", "new", "pending"}]
    BY <1>1, WaitingIs DEF SendersInv, SendersTypeOK
  <2>2. ASSUME NEW t \in Tasks, Poll(t), Parks(t)
        PROVE  Parked' = Parked \cup {t}
    BY <2>1, <2>2 DEF Poll, Parks, Parked
  <2>3. ASSUME NEW t \in Tasks, woken' = woken \ {t}, Forget(t, heap)
        PROVE  Parked' = Parked \ {t}
    BY <2>1, <2>3 DEF Forget, Parked
  <2>4. ASSUME Receive
        PROVE  Parked' = {} /\ woken' = woken \cup Parked
    <3>1. PICK o : Holds(heap, o) /\ ToSet(o[Senders]) = Parked
      BY <1>1 DEF SendersInv
    <3>2. /\ Sound(heap) /\ o \in Orders /\ o[Notified] = <<>>
          /\ \A t \in Tasks \ ToSet(o[Senders]) : Unlinked(heap, t)
      BY <1>1, <3>1, TwoLists, HoldsList, FreshIsEmpty DEF SendersInv
    <3>3. NotifyAll(heap).called = Parked
      BY <3>1, <3>2, NotifyAllHolds
    <3>4. woken' = woken \cup NotifyAll(heap).called /\ send' = send
      BY <2>4 DEF Receive
    <3> QED BY <3>3, <3>4 DEF Parked
  <2> QED BY <2>1, <2>2, <2>3, <2>4 DEF ActsAsTheSet, Poll, Sent, Cancel
<1>2. SendersInv /\ SendersInv' /\ [SendersNext]_senderVars => [ActsAsTheSet]_senderVars
  BY <1>1
<1> QED BY <1>2, SendersInvariance, PTL DEF SendersSpec
=============================================================================
