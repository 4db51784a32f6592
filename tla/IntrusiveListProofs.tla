------------------------ MODULE IntrusiveListProofs -------------------------
(***************************************************************************)
(* The safety properties of IntrusiveList.tla, for any finite sets of      *)
(* links and lists, and that List<T> implements AbstractList.tla.          *)
(*                                                                         *)
(* First, what the methods of LinkHeap.tla do to heaps in which several    *)
(* lists hold any number of links. A heap is sound when its pointers agree *)
(* in both directions. It holds a sequence of links for every list, and    *)
(* each method is shown to keep it sound and to change these sequences as  *)
(* a list should: a push adds, an unlink and a pop remove, a move          *)
(* concatenates. The iterator yields the sequence that the heap holds.     *)
(*                                                                         *)
(* The pointers are followed assignment by assignment, in the order of     *)
(* the code. Walk is a recursive function; what it computes is shown by    *)
(* looking at the first step at which it would be wrong (LeastNumber).     *)
(*                                                                         *)
(* Then the invariant, and one lemma for every operation of the lists.     *)
(***************************************************************************)
EXTENDS IntrusiveList, FiniteSetTheorems, FunctionTheorems, SequenceTheorems,
        WellFoundedInduction, SequencesExt, TLAPS

----------------------------------------------------------------------------
(* Sound heaps.                                                            *)

\* The two directions agree, for every node there is.
Linked(h) ==
  /\ \A n \in Nodes : h.next[n] # Null => h.prev[h.next[n]] = n
  /\ \A n \in Nodes : h.prev[n] # Null => h.next[h.prev[n]] = n

\* Nothing is before a head or after a tail.
Ended(h) == \A l \in Lists : h.prev[HeadOf(l)] = Null /\ h.next[TailOf(l)] = Null

\* What the methods keep of every heap.
Sound(h) == h \in Heaps /\ Linked(h) /\ Ended(h)

\* The sentinels of a list that no method was called on yet, or of none.
Fresh(h, l) == Unlinked(h, HeadOf(l)) /\ Unlinked(h, TailOf(l))

\* The nodes of a list that holds the links s: position 0 is the head, and the
\* tail is behind the last link.
Pos(l, s, i) == IF i = 0 THEN HeadOf(l) ELSE IF i \in 1 .. Len(s) THEN s[i] ELSE TailOf(l)

\* The pointers of list l lead through the links s, from its head to its tail.
Strung(h, l, s) == \A i \in 0 .. Len(s) : h.next[Pos(l, s, i)] = Pos(l, s, i + 1)

\* No link is in two places.
Apart(o) ==
  \A l, m \in Lists : \A i \in 1 .. Len(o[l]), j \in 1 .. Len(o[m]) :
    o[l][i] = o[m][j] => l = m /\ i = j

\* A sequence of links for every list.
Orders == [Lists -> Seq(Links)]

\* The heap holds the sequences o.
Holds(h, o) ==
  /\ o \in Orders
  /\ Apart(o)
  /\ \A l \in Lists : (Fresh(h, l) /\ o[l] = <<>>) \/ Strung(h, l, o[l])

----------------------------------------------------------------------------
(* Nodes and their fields.                                                 *)

\* Sentinels are nodes, no two of them are the same, and none is a link.
LEMMA SentinelsDiffer ==
  /\ Null \notin Nodes /\ Links \subseteq Nodes
  /\ \A l \in Lists : /\ HeadOf(l) \in Nodes /\ TailOf(l) \in Nodes
                      /\ HeadOf(l) \notin Links /\ TailOf(l) \notin Links
  /\ \A l, m \in Lists : /\ HeadOf(l) # TailOf(m)
                         /\ HeadOf(l) = HeadOf(m) => l = m
                         /\ TailOf(l) = TailOf(m) => l = m
<1>1. \A l \in Lists : HeadOf(l) \in Sentinels /\ TailOf(l) \in Sentinels
  BY DEF Sentinels
<1>2. \A l, m : /\ HeadOf(l) # TailOf(m)
                /\ HeadOf(l) = HeadOf(m) => l = m
                /\ TailOf(l) = TailOf(m) => l = m
  BY DEF HeadOf, TailOf
<1> QED BY <1>1, <1>2, NullAssumption, SentinelAssumption DEF Nodes

\* The fields of a heap.
LEMMA Fields ==
  ASSUME NEW h \in Heaps
  PROVE  /\ h.next \in [Nodes -> Nodes \cup {Null}] /\ h.prev \in [Nodes -> Nodes \cup {Null}]
         /\ \A n \in Nodes : h.next[n] \in Nodes \cup {Null} /\ h.prev[n] \in Nodes \cup {Null}
  BY DEF Heaps

\* An assignment to one field of one node.
LEMMA Assigned ==
  ASSUME NEW h \in Heaps, NEW n \in Nodes, NEW m \in Nodes \cup {Null}
  PROVE  /\ SetNext(h, n, m) \in Heaps /\ SetPrev(h, n, m) \in Heaps
         /\ SetNext(h, n, m).prev = h.prev /\ SetPrev(h, n, m).next = h.next
         /\ \A k \in Nodes : SetNext(h, n, m).next[k] = IF k = n THEN m ELSE h.next[k]
         /\ \A k \in Nodes : SetPrev(h, n, m).prev[k] = IF k = n THEN m ELSE h.prev[k]
<1>1. /\ SetNext(h, n, m) \in Heaps /\ SetPrev(h, n, m) \in Heaps
      /\ SetNext(h, n, m).prev = h.prev /\ SetPrev(h, n, m).next = h.next
  BY DEF Heaps, SetNext, SetPrev
<1>2. \A k \in Nodes : SetNext(h, n, m).next[k] = IF k = n THEN m ELSE h.next[k]
  BY DEF Heaps, SetNext
<1>3. \A k \in Nodes : SetPrev(h, n, m).prev[k] = IF k = n THEN m ELSE h.prev[k]
  BY DEF Heaps, SetPrev
<1> QED BY <1>1, <1>2, <1>3

\* The heap g is h with m in the field of n.
NextIs(h, g, n, m) ==
  /\ g \in Heaps /\ g.prev = h.prev
  /\ \A k \in Nodes : g.next[k] = IF k = n THEN m ELSE h.next[k]

\* The same for prev.
PrevIs(h, g, n, m) ==
  /\ g \in Heaps /\ g.next = h.next
  /\ \A k \in Nodes : g.prev[k] = IF k = n THEN m ELSE h.prev[k]

\* SetNext and SetPrev make it so.
LEMMA AssignedNext ==
  ASSUME NEW h \in Heaps, NEW n \in Nodes, NEW m \in Nodes \cup {Null}
  PROVE  NextIs(h, SetNext(h, n, m), n, m) /\ SetNext(h, n, m) \in Heaps
<1>1. /\ SetNext(h, n, m) \in Heaps /\ SetNext(h, n, m).prev = h.prev
  BY Assigned
<1>2. \A k \in Nodes : SetNext(h, n, m).next[k] = IF k = n THEN m ELSE h.next[k]
  BY DEF Heaps, SetNext
<1> QED BY <1>1, <1>2 DEF NextIs

\* The same for an assignment to prev.
LEMMA AssignedPrev ==
  ASSUME NEW h \in Heaps, NEW n \in Nodes, NEW m \in Nodes \cup {Null}
  PROVE  PrevIs(h, SetPrev(h, n, m), n, m) /\ SetPrev(h, n, m) \in Heaps
<1>1. /\ SetPrev(h, n, m) \in Heaps /\ SetPrev(h, n, m).next = h.next
  BY Assigned
<1>2. \A k \in Nodes : SetPrev(h, n, m).prev[k] = IF k = n THEN m ELSE h.prev[k]
  BY DEF Heaps, SetPrev
<1> QED BY <1>1, <1>2 DEF PrevIs

\* Two heaps with the same fields are the same.
LEMMA SameFields ==
  ASSUME NEW h \in Heaps, NEW g \in Heaps,
         \A n \in Nodes : g.next[n] = h.next[n] /\ g.prev[n] = h.prev[n]
  PROVE  g = h
<1>1. g.next = h.next /\ g.prev = h.prev
  BY Fields
<1> QED BY <1>1 DEF Heaps

----------------------------------------------------------------------------
(* Taking a node out.                                                      *)

\* Unlink joins the neighbours of a node, and clears its pointers.
LEMMA UnlinkJoins ==
  ASSUME NEW h, Sound(h), NEW x \in Nodes
  PROVE  /\ Unlink(h, x) \in Heaps
         /\ \A n \in Nodes :
              /\ Unlink(h, x).next[n] = IF n = x THEN Null
                                        ELSE IF n = h.prev[x] THEN h.next[x] ELSE h.next[n]
              /\ Unlink(h, x).prev[n] = IF n = x THEN Null
                                        ELSE IF n = h.next[x] THEN h.prev[x] ELSE h.prev[n]
<1> DEFINE p  == h.prev[x]
           q  == h.next[x]
           h1 == IF p # Null THEN SetNext(h, p, q) ELSE h
           h2 == IF h1.next[x] # Null THEN SetPrev(h1, h1.next[x], h1.prev[x]) ELSE h1
           g  == SetPrev(SetNext(h2, x, Null), x, Null)
<1>1. h \in Heaps /\ p \in Nodes \cup {Null} /\ q \in Nodes \cup {Null} /\ Null \notin Nodes
  BY Fields, SentinelsDiffer DEF Sound
<1> HIDE DEF p, q
<1>2. /\ h1 \in Heaps /\ h1.prev = h.prev
      /\ \A n \in Nodes : h1.next[n] = IF n = p THEN q ELSE h.next[n]
  <2>1. CASE p = Null
    <3>1. h1 = h
      BY <2>1
    <3> HIDE DEF h1
    <3> QED BY <1>1, <2>1, <3>1
  <2>2. CASE p # Null
    <3>1. h1 = SetNext(h, p, q) /\ p \in Nodes
      BY <1>1, <2>2
    <3> HIDE DEF h1
    <3> QED BY <1>1, <3>1, Assigned DEF Heaps
  <2> QED BY <2>1, <2>2
<1>3. h1.next[x] = q /\ h1.prev[x] = p
  <2> HIDE DEF h1
  <2> QED BY <1>1, <1>2 DEF p, q
<1>4. /\ h2 \in Heaps /\ h2.next = h1.next
      /\ \A n \in Nodes : h2.prev[n] = IF n = q THEN p ELSE h.prev[n]
  <2> HIDE DEF h1
  <2>1. CASE q = Null
    <3>1. h2 = h1
      BY <1>3, <2>1
    <3> HIDE DEF h2
    <3> QED BY <1>1, <1>2, <2>1, <3>1
  <2>2. CASE q # Null
    <3>1. h2 = SetPrev(h1, q, p) /\ q \in Nodes
      BY <1>1, <1>3, <2>2
    <3> HIDE DEF h2
    <3> QED BY <1>1, <1>2, <3>1, Assigned DEF Heaps
  <2> QED BY <2>1, <2>2
<1>5. Unlink(h, x) = g
  BY DEF Unlink, p, q
<1>6. /\ g \in Heaps
      /\ \A n \in Nodes : /\ g.next[n] = IF n = x THEN Null ELSE h2.next[n]
                          /\ g.prev[n] = IF n = x THEN Null ELSE h2.prev[n]
  <2> DEFINE k == SetNext(h2, x, Null)
  <2> HIDE DEF h2
  <2>1. /\ k \in Heaps /\ k.prev = h2.prev
        /\ \A n \in Nodes : k.next[n] = IF n = x THEN Null ELSE h2.next[n]
    BY <1>4, Assigned DEF Heaps
  <2> HIDE DEF k
  <2>2. g = SetPrev(k, x, Null)
    BY DEF k
  <2> HIDE DEF g
  <2> QED BY <2>1, <2>2, Assigned DEF Heaps
<1> HIDE DEF h1, h2, g
<1> QED BY <1>2, <1>4, <1>5, <1>6 DEF p, q

\* The rest stays sound, and what was unlinked stays unlinked.
LEMMA UnlinkIsSound ==
  ASSUME NEW h, Sound(h), NEW x \in Nodes
  PROVE  /\ Sound(Unlink(h, x))
         /\ Unlinked(Unlink(h, x), x)
         /\ \A n \in Nodes : Unlinked(h, n) => Unlinked(Unlink(h, x), n)
<1> DEFINE g == Unlink(h, x)
<1>1. /\ g \in Heaps
      /\ \A n \in Nodes :
           /\ g.next[n] = IF n = x THEN Null ELSE IF n = h.prev[x] THEN h.next[x] ELSE h.next[n]
           /\ g.prev[n] = IF n = x THEN Null ELSE IF n = h.next[x] THEN h.prev[x] ELSE h.prev[n]
  BY UnlinkJoins
<1>2. /\ Linked(h) /\ Ended(h) /\ Null \notin Nodes
      /\ \A n \in Nodes : h.next[n] \in Nodes \cup {Null} /\ h.prev[n] \in Nodes \cup {Null}
  BY Fields, SentinelsDiffer DEF Sound
<1> HIDE DEF g
<1>3. Linked(g)
  <2>1. ASSUME NEW n \in Nodes, g.next[n] # Null
        PROVE  g.prev[g.next[n]] = n
    BY <1>1, <1>2, <2>1 DEF Linked
  <2>2. ASSUME NEW n \in Nodes, g.prev[n] # Null
        PROVE  g.next[g.prev[n]] = n
    BY <1>1, <1>2, <2>2 DEF Linked
  <2> QED BY <2>1, <2>2 DEF Linked
<1>4. ASSUME NEW n \in Nodes
      PROVE  (h.next[n] = Null => g.next[n] = Null) /\ (h.prev[n] = Null => g.prev[n] = Null)
  BY <1>1, <1>2 DEF Linked
<1>5. Ended(g)
  BY <1>2, <1>4, SentinelsDiffer DEF Ended
<1>6. Unlinked(g, x)
  BY <1>1 DEF Unlinked
<1> QED BY <1>1, <1>3, <1>4, <1>5, <1>6 DEF g, Sound, Unlinked

----------------------------------------------------------------------------
(* Positions.                                                              *)

\* The positions of one list.
LEMMA Positions ==
  ASSUME NEW l \in Lists, NEW s \in Seq(Links)
  PROVE  /\ Len(s) \in Nat
         /\ Pos(l, s, 0) = HeadOf(l) /\ Pos(l, s, Len(s) + 1) = TailOf(l)
         /\ \A i \in 1 .. Len(s) : Pos(l, s, i) = s[i] /\ s[i] \in Links
         /\ \A i \in 0 .. Len(s) + 1 : Pos(l, s, i) \in Nodes
<1>1. Len(s) \in Nat /\ \A i \in 1 .. Len(s) : s[i] \in Links
  BY LenProperties, ElementOfSeq
<1>2. Pos(l, s, 0) = HeadOf(l) /\ Pos(l, s, Len(s) + 1) = TailOf(l)
  BY <1>1 DEF Pos
<1>3. \A i \in 1 .. Len(s) : Pos(l, s, i) = s[i]
  BY <1>1 DEF Pos
<1>4. 0 .. Len(s) + 1 = {0} \cup 1 .. Len(s) \cup {Len(s) + 1}
  BY <1>1
<1>5. HeadOf(l) \in Nodes /\ TailOf(l) \in Nodes /\ Links \subseteq Nodes
  BY SentinelsDiffer
<1> QED BY <1>1, <1>2, <1>3, <1>4, <1>5

\* No node is at two positions.
LEMMA PositionsDiffer ==
  ASSUME NEW o \in Orders, Apart(o), NEW l \in Lists, NEW m \in Lists,
         NEW i \in 0 .. Len(o[l]) + 1, NEW j \in 0 .. Len(o[m]) + 1,
         Pos(l, o[l], i) = Pos(m, o[m], j)
  PROVE  l = m /\ i = j
<1>1. o[l] \in Seq(Links) /\ o[m] \in Seq(Links)
  BY DEF Orders
<1> DEFINE a == Len(o[l])
           b == Len(o[m])
<1>2. /\ a \in Nat /\ Pos(l, o[l], 0) = HeadOf(l) /\ Pos(l, o[l], a + 1) = TailOf(l)
      /\ \A k \in 1 .. a : Pos(l, o[l], k) = o[l][k] /\ o[l][k] \in Links
  BY <1>1, Positions
<1>3. /\ b \in Nat /\ Pos(m, o[m], 0) = HeadOf(m) /\ Pos(m, o[m], b + 1) = TailOf(m)
      /\ \A k \in 1 .. b : Pos(m, o[m], k) = o[m][k] /\ o[m][k] \in Links
  BY <1>1, Positions
<1>4. i = 0 \/ i \in 1 .. a \/ i = a + 1
  BY <1>2
<1>5. j = 0 \/ j \in 1 .. b \/ j = b + 1
  BY <1>3
<1>6. CASE i \in 1 .. a /\ j \in 1 .. b
  BY <1>2, <1>3, <1>6 DEF Apart
<1>7. CASE i \in 1 .. a /\ j \notin 1 .. b
  BY <1>2, <1>3, <1>5, <1>7, SentinelsDiffer
<1>8. CASE i \notin 1 .. a /\ j \in 1 .. b
  BY <1>2, <1>3, <1>4, <1>8, SentinelsDiffer
<1>9. CASE i \notin 1 .. a /\ j \notin 1 .. b
  <2>1. i = 0 \/ i = a + 1
    BY <1>4, <1>9
  <2>2. j = 0 \/ j = b + 1
    BY <1>5, <1>9
  <2>3. CASE i = 0
    BY <1>2, <1>3, <2>2, <2>3, SentinelsDiffer
  <2>4. CASE i = a + 1
    <3>1. j = b + 1
      BY <1>2, <1>3, <2>2, <2>4, SentinelsDiffer
    <3>2. l = m
      BY <1>2, <1>3, <2>4, <3>1, SentinelsDiffer
    <3> QED BY <2>4, <3>1, <3>2
  <2> QED BY <2>1, <2>3, <2>4
<1> QED BY <1>6, <1>7, <1>8, <1>9

\* What a heap that holds o says of its lists.
LEMMA HoldsList ==
  ASSUME NEW h, NEW o, Holds(h, o), NEW l \in Lists
  PROVE  /\ o \in Orders /\ Apart(o)
         /\ o[l] \in Seq(Links) /\ Len(o[l]) \in Nat
         /\ o[l] = <<>> <=> Len(o[l]) = 0
         /\ (Fresh(h, l) /\ o[l] = <<>>) \/ Strung(h, l, o[l])
<1>1. o \in Orders /\ Apart(o) /\ ((Fresh(h, l) /\ o[l] = <<>>) \/ Strung(h, l, o[l]))
  BY DEF Holds
<1>2. o[l] \in Seq(Links)
  BY <1>1 DEF Orders
<1>3. Len(o[l]) \in Nat /\ (o[l] = <<>> <=> Len(o[l]) = 0)
  BY <1>2, EmptySeq, LenProperties
<1> QED BY <1>1, <1>2, <1>3

\* In a sound heap the pointers of a list lead back as well.
LEMMA StrungBack ==
  ASSUME NEW h, Sound(h), NEW l \in Lists, NEW s \in Seq(Links), Strung(h, l, s)
  PROVE  /\ \A i \in 0 .. Len(s) : /\ h.next[Pos(l, s, i)] = Pos(l, s, i + 1)
                                   /\ h.prev[Pos(l, s, i + 1)] = Pos(l, s, i)
         /\ h.next[HeadOf(l)] = Pos(l, s, 1) /\ h.prev[TailOf(l)] = Pos(l, s, Len(s))
         /\ h.prev[HeadOf(l)] = Null /\ h.next[TailOf(l)] = Null
<1>1. /\ Len(s) \in Nat
      /\ Pos(l, s, 0) = HeadOf(l) /\ Pos(l, s, Len(s) + 1) = TailOf(l)
      /\ \A i \in 0 .. Len(s) + 1 : Pos(l, s, i) \in Nodes
  BY Positions
<1>2. ASSUME NEW i \in 0 .. Len(s)
      PROVE  h.next[Pos(l, s, i)] = Pos(l, s, i + 1) /\ h.prev[Pos(l, s, i + 1)] = Pos(l, s, i)
  <2>1. i \in 0 .. Len(s) + 1 /\ i + 1 \in 0 .. Len(s) + 1
    BY <1>1
  <2>2. Pos(l, s, i) \in Nodes /\ Pos(l, s, i + 1) \in Nodes /\ Null \notin Nodes
    BY <1>1, <2>1, SentinelsDiffer
  <2>3. h.next[Pos(l, s, i)] = Pos(l, s, i + 1)
    BY DEF Strung
  <2> QED BY <2>2, <2>3 DEF Sound, Linked
<1>3. h.next[HeadOf(l)] = Pos(l, s, 1) /\ h.prev[TailOf(l)] = Pos(l, s, Len(s))
  <2>1. 0 \in 0 .. Len(s) /\ Len(s) \in 0 .. Len(s) /\ 0 + 1 = 1
    BY <1>1
  <2> QED BY <1>1, <1>2, <2>1
<1> QED BY <1>2, <1>3 DEF Sound, Ended

----------------------------------------------------------------------------
(* Taking links out of lists.                                              *)

\* The sequence s without the link at position i.
LEMMA Removed ==
  ASSUME NEW s \in Seq(Links), NEW i \in 1 .. Len(s)
  PROVE  /\ RemoveAt(s, i) \in Seq(Links)
         /\ Len(RemoveAt(s, i)) = Len(s) - 1
         /\ \A k \in 1 .. Len(s) - 1 : RemoveAt(s, i)[k] = IF k < i THEN s[k] ELSE s[k + 1]
<1> DEFINE s1 == SubSeq(s, 1, i - 1)
           s2 == SubSeq(s, i + 1, Len(s))
           r  == RemoveAt(s, i)
<1>1. Len(s) \in Nat
  OBVIOUS
<1>2. /\ s1 \in Seq(Links) /\ Len(s1) = i - 1
      /\ \A k \in 1 .. i - 1 : s1[k] = s[k]
  BY <1>1
<1>3. /\ s2 \in Seq(Links) /\ Len(s2) = Len(s) - i
      /\ \A k \in 1 .. Len(s) - i : s2[k] = s[k + i]
  BY <1>1
<1>4. r = s1 \o s2
  BY DEF RemoveAt
<1> HIDE DEF s1, s2, r
<1>5. /\ r \in Seq(Links) /\ Len(r) = Len(s1) + Len(s2)
      /\ \A k \in 1 .. Len(s1) + Len(s2) : r[k] = IF k <= Len(s1) THEN s1[k] ELSE s2[k - Len(s1)]
  BY <1>2, <1>3, <1>4, ConcatProperties
<1>6. Len(r) = Len(s) - 1
  BY <1>1, <1>2, <1>3, <1>5
<1>7. ASSUME NEW k \in 1 .. Len(s) - 1
      PROVE  r[k] = IF k < i THEN s[k] ELSE s[k + 1]
  <2>1. CASE k < i
    <3>1. k \in 1 .. i - 1 /\ k <= Len(s1) /\ k \in 1 .. Len(s1) + Len(s2)
      BY <1>1, <1>2, <1>3, <2>1
    <3> QED BY <1>2, <1>5, <2>1, <3>1
  <2>2. CASE k >= i
    <3>0. k \in 1 .. Len(s1) + Len(s2) /\ ~(k <= Len(s1)) /\ k - Len(s1) = k - (i - 1)
      BY <1>1, <1>2, <1>3, <2>2
    <3>1. r[k] = s2[k - (i - 1)] /\ k - (i - 1) \in 1 .. Len(s) - i
      BY <1>1, <1>5, <2>2, <3>0, SMTT(20)
    <3>2. s2[k - (i - 1)] = s[(k - (i - 1)) + i]
      BY <1>3, <3>1
    <3>3. (k - (i - 1)) + i = k + 1
      BY <1>1
    <3> QED BY <2>2, <3>1, <3>2, <3>3
  <2> QED BY <2>1, <2>2
<1> QED BY <1>5, <1>6, <1>7 DEF r

\* The positions of what is left.
LEMMA RemovedPositions ==
  ASSUME NEW l \in Lists, NEW s \in Seq(Links), NEW i \in 1 .. Len(s)
  PROVE  \A k \in 0 .. Len(s) :
           Pos(l, RemoveAt(s, i), k) = IF k < i THEN Pos(l, s, k) ELSE Pos(l, s, k + 1)
<1> DEFINE r == RemoveAt(s, i)
<1>1. /\ r \in Seq(Links) /\ Len(s) \in Nat /\ Len(r) = Len(s) - 1
      /\ \A k \in 1 .. Len(s) - 1 : r[k] = IF k < i THEN s[k] ELSE s[k + 1]
  BY Removed
<1> HIDE DEF r
<1>2. ASSUME NEW k \in 0 .. Len(s)
      PROVE  Pos(l, r, k) = IF k < i THEN Pos(l, s, k) ELSE Pos(l, s, k + 1)
  BY <1>1 DEF Pos
<1> QED BY <1>2 DEF r

\* Other lists do not notice.
LEMMA UnlinkElsewhere ==
  ASSUME NEW h, Sound(h), NEW x \in Nodes,
         NEW m \in Lists, NEW s \in Seq(Links), Strung(h, m, s),
         \A i \in 0 .. Len(s) + 1 : Pos(m, s, i) # x
  PROVE  Strung(Unlink(h, x), m, s)
<1> DEFINE g == Unlink(h, x)
<1> SUFFICES ASSUME NEW i \in 0 .. Len(s)
             PROVE  g.next[Pos(m, s, i)] = Pos(m, s, i + 1)
  BY DEF Strung
<1>1. /\ Pos(m, s, i) \in Nodes /\ Pos(m, s, i) # x /\ Pos(m, s, i + 1) # x
      /\ h.next[Pos(m, s, i)] = Pos(m, s, i + 1)
  <2>1. i \in 0 .. Len(s) + 1 /\ i + 1 \in 0 .. Len(s) + 1
    BY Positions
  <2> QED BY <2>1, Positions DEF Strung
<1>2. Pos(m, s, i) # h.prev[x]
  BY <1>1, SentinelsDiffer DEF Sound, Linked
<1> QED BY <1>1, <1>2, UnlinkJoins

\* A node that is in no list leaves all of them as they are.
LEMMA UnlinkOutside ==
  ASSUME NEW h, NEW o, Sound(h), Holds(h, o), NEW x \in Nodes,
         \A m \in Lists : Fresh(h, m) \/ \A i \in 0 .. Len(o[m]) + 1 : Pos(m, o[m], i) # x
  PROVE  Holds(Unlink(h, x), o)
<1> DEFINE g == Unlink(h, x)
<1>1. ASSUME NEW m \in Lists
      PROVE  (Fresh(g, m) /\ o[m] = <<>>) \/ Strung(g, m, o[m])
  <2>1. o[m] \in Seq(Links)
    BY HoldsList
  <2>2. CASE Fresh(h, m) /\ o[m] = <<>>
    BY <2>2, UnlinkIsSound, SentinelsDiffer DEF Fresh
  <2>3. CASE Strung(h, m, o[m])
    <3>1. ~Fresh(h, m)
      <4>1. h.next[HeadOf(m)] = Pos(m, o[m], 1) /\ Pos(m, o[m], 1) \in Nodes
        <5>1. Len(o[m]) \in Nat /\ 1 \in 0 .. Len(o[m]) + 1
          BY <2>1, Positions
        <5> QED BY <2>1, <2>3, <5>1, StrungBack, Positions
      <4> QED BY <4>1, SentinelsDiffer DEF Fresh, Unlinked
    <3> QED BY <2>1, <2>3, <3>1, UnlinkElsewhere
  <2> QED BY <2>2, <2>3, HoldsList
<1> QED BY <1>1 DEF Holds

\* A list without one link.
Without(o, l, i) == [o EXCEPT ![l] = RemoveAt(o[l], i)]

\* Its links are still apart.
LEMMA WithoutApart ==
  ASSUME NEW o \in Orders, Apart(o), NEW l \in Lists, NEW i \in 1 .. Len(o[l])
  PROVE  Without(o, l, i) \in Orders /\ Apart(Without(o, l, i))
<1> DEFINE w == Without(o, l, i)
           r == RemoveAt(o[l], i)
<1>1. /\ o[l] \in Seq(Links) /\ Len(o[l]) \in Nat /\ r \in Seq(Links) /\ Len(r) = Len(o[l]) - 1
      /\ \A k \in 1 .. Len(r) : r[k] = IF k < i THEN o[l][k] ELSE o[l][k + 1]
  <2>1. o[l] \in Seq(Links)
    BY DEF Orders
  <2>2. Len(o[l]) \in Nat
    BY <2>1, LenProperties
  <2> HIDE DEF r
  <2>3. /\ r \in Seq(Links) /\ Len(r) = Len(o[l]) - 1
        /\ \A k \in 1 .. Len(o[l]) - 1 : r[k] = IF k < i THEN o[l][k] ELSE o[l][k + 1]
    BY <2>1, Removed DEF r
  <2> QED BY <2>1, <2>2, <2>3
<1>2. w \in Orders /\ w[l] = r /\ \A m \in Lists : m # l => w[m] = o[m]
  BY <1>1 DEF Orders, Without
<1> DEFINE old(m, k) == IF m = l /\ k >= i THEN k + 1 ELSE k
<1>3. ASSUME NEW m \in Lists, NEW k \in 1 .. Len(w[m])
      PROVE  old(m, k) \in 1 .. Len(o[m]) /\ w[m][k] = o[m][old(m, k)]
  <2> HIDE DEF w, r
  <2>1. CASE m = l
    <3>1. k \in 1 .. Len(r) /\ k \in Nat
      BY <1>1, <1>2, <2>1
    <3>2. CASE k < i
      BY <1>1, <1>2, <2>1, <3>1, <3>2
    <3>3. CASE k >= i
      BY <1>1, <1>2, <2>1, <3>1, <3>3
    <3> QED BY <3>1, <3>2, <3>3
  <2>2. CASE m # l
    BY <1>2, <2>2
  <2> QED BY <2>1, <2>2
<1>4. ASSUME NEW m \in Lists, NEW n \in Lists, NEW j \in 1 .. Len(w[m]), NEW k \in 1 .. Len(w[n]),
             w[m][j] = w[n][k]
      PROVE  m = n /\ j = k
  <2> HIDE DEF w, r
  <2>0. j \in Int /\ k \in Int
    OBVIOUS
  <2>1. m = n /\ old(m, j) = old(n, k)
    <3> HIDE DEF old
    <3>1. old(m, j) \in 1 .. Len(o[m]) /\ w[m][j] = o[m][old(m, j)]
      BY <1>3
    <3>2. old(n, k) \in 1 .. Len(o[n]) /\ w[n][k] = o[n][old(n, k)]
      BY <1>3
    <3>3. o[m][old(m, j)] = o[n][old(n, k)]
      BY <1>4, <3>1, <3>2
    <3>4. \A a \in 1 .. Len(o[m]), b \in 1 .. Len(o[n]) : o[m][a] = o[n][b] => m = n /\ a = b
      BY DEF Apart
    <3> QED BY <3>1, <3>2, <3>3, <3>4
  <2> QED BY <2>0, <2>1
<1> QED BY <1>2, <1>4 DEF Apart

\* A link that is unlinked leaves its list, and the others stay in order.
LEMMA UnlinkMember ==
  ASSUME NEW h, NEW o, Sound(h), Holds(h, o), NEW l \in Lists, NEW i \in 1 .. Len(o[l])
  PROVE  Holds(Unlink(h, o[l][i]), Without(o, l, i))
<1> DEFINE x == o[l][i]
           g == Unlink(h, x)
           w == Without(o, l, i)
           s == o[l]
           r == RemoveAt(s, i)
<1>1. /\ o \in Orders /\ Apart(o) /\ s \in Seq(Links) /\ Len(s) \in Nat /\ s # <<>>
      /\ Strung(h, l, s)
  BY HoldsList
<1>2. w \in Orders /\ Apart(w) /\ w[l] = r /\ \A m \in Lists : m # l => w[m] = o[m]
  BY <1>1, WithoutApart DEF Without, Orders
<1>3. x = Pos(l, s, i) /\ x \in Links /\ x \in Nodes /\ i \in 1 .. Len(s) /\ i \in 0 .. Len(s) + 1
  BY <1>1, Positions, SentinelsDiffer
<1>4. ASSUME NEW m \in Lists, m # l
      PROVE  (Fresh(g, m) /\ o[m] = <<>>) \/ Strung(g, m, o[m])
  <2>1. o[m] \in Seq(Links)
    BY HoldsList
  <2>2. CASE Fresh(h, m) /\ o[m] = <<>>
    BY <1>3, <2>2, UnlinkIsSound, SentinelsDiffer DEF Fresh
  <2>3. CASE Strung(h, m, o[m])
    <3>1. \A k \in 0 .. Len(o[m]) + 1 : Pos(m, o[m], k) # x
      BY <1>1, <1>3, <1>4, PositionsDiffer
    <3> QED BY <1>3, <2>1, <2>3, <3>1, UnlinkElsewhere
  <2> QED BY <2>2, <2>3, HoldsList
<1>5. Strung(g, l, r)
  <2>1. /\ Len(r) = Len(s) - 1
        /\ \A k \in 0 .. Len(s) : Pos(l, r, k) = IF k < i THEN Pos(l, s, k) ELSE Pos(l, s, k + 1)
    BY <1>1, Removed, RemovedPositions
  <2>2. /\ \A k \in 0 .. Len(s) : /\ h.next[Pos(l, s, k)] = Pos(l, s, k + 1)
                                 /\ h.prev[Pos(l, s, k + 1)] = Pos(l, s, k)
        /\ \A k \in 0 .. Len(s) + 1 : Pos(l, s, k) \in Nodes
    BY <1>1, StrungBack, Positions
  <2>3. h.prev[x] = Pos(l, s, i - 1) /\ h.next[x] = Pos(l, s, i + 1)
    <3>1. i \in 0 .. Len(s) /\ i - 1 \in 0 .. Len(s) /\ (i - 1) + 1 = i
      BY <1>1
    <3> QED BY <1>3, <2>2, <3>1
  <2>4. \A n \in Nodes : g.next[n] = IF n = x THEN Null ELSE IF n = h.prev[x] THEN h.next[x] ELSE h.next[n]
    BY <1>3, UnlinkJoins
  <2>5. \A j, k \in 0 .. Len(s) + 1 : Pos(l, s, j) = Pos(l, s, k) => j = k
    BY <1>1, PositionsDiffer
  <2> SUFFICES ASSUME NEW k \in 0 .. Len(r)
               PROVE  g.next[Pos(l, r, k)] = Pos(l, r, k + 1)
    BY DEF Strung
  <2> HIDE DEF g, s, r, x
  <2>6. k \in Nat /\ k \in 0 .. Len(s) /\ k + 1 \in 0 .. Len(s) /\ k + 1 \in 0 .. Len(s) + 1
    BY <1>1, <2>1
  <2>7. CASE k + 1 < i
    <3>1. Pos(l, r, k) = Pos(l, s, k) /\ Pos(l, r, k + 1) = Pos(l, s, k + 1)
      BY <2>1, <2>6, <2>7
    <3>2. Pos(l, s, k) # x /\ Pos(l, s, k) # h.prev[x] /\ Pos(l, s, k) \in Nodes
      <4>1. k \in 0 .. Len(s) + 1 /\ i - 1 \in 0 .. Len(s) + 1 /\ k # i /\ k # i - 1
        BY <1>1, <1>3, <2>6, <2>7
      <4> QED BY <1>3, <2>2, <2>3, <2>5, <4>1
    <3> QED BY <2>2, <2>4, <2>6, <3>1, <3>2
  <2>8. CASE k + 1 = i
    <3>1. Pos(l, r, k) = Pos(l, s, k) /\ Pos(l, r, k + 1) = Pos(l, s, i + 1) /\ Pos(l, s, k) = h.prev[x]
      BY <1>1, <2>1, <2>3, <2>6, <2>8
    <3>2. Pos(l, s, k) # x /\ Pos(l, s, k) \in Nodes
      <4>1. k \in 0 .. Len(s) + 1 /\ k # i
        BY <1>1, <2>6, <2>8
      <4> QED BY <1>3, <2>2, <2>5, <4>1
    <3> QED BY <2>3, <2>4, <3>1, <3>2
  <2>9. CASE k + 1 > i
    <3>1. Pos(l, r, k) = Pos(l, s, k + 1) /\ Pos(l, r, k + 1) = Pos(l, s, (k + 1) + 1)
      BY <1>1, <2>1, <2>6, <2>9
    <3>2. Pos(l, s, k + 1) # x /\ Pos(l, s, k + 1) # h.prev[x] /\ Pos(l, s, k + 1) \in Nodes
      <4>1. i - 1 \in 0 .. Len(s) + 1 /\ k + 1 # i /\ k + 1 # i - 1
        BY <1>1, <2>6, <2>9
      <4> QED BY <1>3, <2>2, <2>3, <2>5, <2>6, <4>1
    <3> QED BY <2>2, <2>4, <2>6, <3>1, <3>2
  <2> QED BY <1>1, <2>6, <2>7, <2>8, <2>9
<1> QED BY <1>2, <1>4, <1>5 DEF Holds

----------------------------------------------------------------------------
(* Lists that have not been used yet.                                      *)

\* What is in a list points at something.
LEMMA MembersAreLinked ==
  ASSUME NEW h, NEW o, Holds(h, o), NEW l \in Lists, NEW i \in 1 .. Len(o[l])
  PROVE  o[l][i] \in Links /\ ~Unlinked(h, o[l][i])
<1>1. /\ o[l] \in Seq(Links) /\ Len(o[l]) \in Nat /\ Strung(h, l, o[l])
  BY HoldsList
<1>2. /\ Pos(l, o[l], i) = o[l][i] /\ o[l][i] \in Links /\ i \in 0 .. Len(o[l])
      /\ i + 1 \in 0 .. Len(o[l]) + 1
  BY <1>1, Positions
<1>3. Pos(l, o[l], i + 1) \in Nodes
  BY <1>1, <1>2, Positions
<1> QED BY <1>1, <1>2, <1>3, SentinelsDiffer DEF Strung, Unlinked

\* maybe_init_head_tail changes no sequence, and nothing but the sentinels of
\* its list. It leaves them tied to each other or to the links.
LEMMA MaybeInitHolds ==
  ASSUME NEW h, NEW o, Sound(h), Holds(h, o), NEW l \in Lists
  PROVE  /\ Sound(MaybeInit(h, l)) /\ Holds(MaybeInit(h, l), o)
         /\ Strung(MaybeInit(h, l), l, o[l])
         /\ \A n \in Nodes \ {HeadOf(l), TailOf(l)} :
              /\ MaybeInit(h, l).next[n] = h.next[n]
              /\ MaybeInit(h, l).prev[n] = h.prev[n]
<1> DEFINE g == MaybeInit(h, l)
           a == HeadOf(l)
           z == TailOf(l)
<1>0. /\ h \in Heaps /\ Linked(h) /\ Ended(h)
      /\ o \in Orders /\ Apart(o) /\ o[l] \in Seq(Links) /\ Len(o[l]) \in Nat
      /\ a \in Nodes /\ z \in Nodes /\ a # z /\ Null \notin Nodes
  BY HoldsList, SentinelsDiffer DEF Sound
<1>1. CASE Fresh(h, l) /\ o[l] = <<>>
  <2>1. h.next[a] = Null /\ h.prev[a] = Null /\ h.next[z] = Null /\ h.prev[z] = Null
    BY <1>1 DEF Fresh, Unlinked
  <2>2. /\ g \in Heaps
        /\ \A n \in Nodes : g.next[n] = IF n = a THEN z ELSE h.next[n]
        /\ \A n \in Nodes : g.prev[n] = IF n = z THEN a ELSE h.prev[n]
    <3> DEFINE h1 == SetNext(h, a, z)
    <3>1. g = SetPrev(h1, z, a)
      BY <2>1 DEF MaybeInit
    <3>2. /\ h1 \in Heaps /\ h1.prev = h.prev
          /\ \A n \in Nodes : h1.next[n] = IF n = a THEN z ELSE h.next[n]
      BY <1>0, Assigned
    <3> HIDE DEF h1, g
    <3> QED BY <1>0, <3>1, <3>2, Assigned DEF Heaps
  <2> HIDE DEF g, a, z
  <2>3. Linked(g)
    <3>1. ASSUME NEW n \in Nodes, g.next[n] # Null
          PROVE  g.prev[g.next[n]] = n
      BY <1>0, <2>1, <2>2, <3>1, Fields DEF Linked
    <3>2. ASSUME NEW n \in Nodes, g.prev[n] # Null
          PROVE  g.next[g.prev[n]] = n
      BY <1>0, <2>1, <2>2, <3>2, Fields DEF Linked
    <3> QED BY <3>1, <3>2 DEF Linked
  <2>4. Ended(g)
    BY <1>0, <2>2, SentinelsDiffer DEF Ended, a, z
  <2>5. Strung(g, l, o[l])
    <3>1. Len(o[l]) = 0 /\ \A i \in 0 .. 0 : i = 0
      BY <1>1
    <3>2. Pos(l, o[l], 0) = a /\ Pos(l, o[l], 0 + 1) = z
      BY <1>0, <3>1, Positions DEF a, z
    <3> QED BY <1>0, <2>2, <3>1, <3>2 DEF Strung
  <2>6. ASSUME NEW m \in Lists, m # l
        PROVE  (Fresh(g, m) /\ o[m] = <<>>) \/ Strung(g, m, o[m])
    <3>1. CASE Fresh(h, m) /\ o[m] = <<>>
      BY <2>2, <2>6, <3>1, SentinelsDiffer DEF Fresh, Unlinked, a, z
    <3>2. CASE Strung(h, m, o[m])
      <4>0. o[m] \in Seq(Links) /\ Len(o[m]) \in Nat
        BY HoldsList
      <4>1. ASSUME NEW i \in 0 .. Len(o[m])
            PROVE  Pos(m, o[m], i) # a /\ Pos(m, o[m], i) \in Nodes
        <5>1. /\ Pos(l, o[l], 0) = a /\ 0 \in 0 .. Len(o[l]) + 1
              /\ i \in 0 .. Len(o[m]) + 1
          BY <1>0, <4>0, Positions DEF a
        <5> QED BY <1>0, <2>6, <4>0, <5>1, Positions, PositionsDiffer
      <4> QED BY <2>2, <3>2, <4>1 DEF Strung
    <3> QED BY <3>1, <3>2, HoldsList
  <2>7. Holds(g, o)
    BY <1>0, <2>5, <2>6 DEF Holds
  <2> QED BY <2>2, <2>3, <2>4, <2>5, <2>7 DEF Sound, g, a, z
<1>2. CASE Strung(h, l, o[l])
  <2>1. h.next[a] # Null
    <3>1. 1 \in 0 .. Len(o[l]) + 1 /\ h.next[a] = Pos(l, o[l], 1)
      BY <1>0, <1>2, StrungBack
    <3> QED BY <1>0, <3>1, Positions
  <2>2. g = h
    BY <2>1 DEF MaybeInit
  <2> QED BY <1>2, <2>2
<1> QED BY <1>1, <1>2, HoldsList

----------------------------------------------------------------------------
(* Putting links in.                                                       *)

\* The heap g is h with x put between the neighbours p and q.
Spliced(h, g, p, q, x) ==
  /\ g \in Heaps
  /\ \A n \in Nodes : g.next[n] = IF n = p THEN x ELSE IF n = x THEN q ELSE h.next[n]
  /\ \A n \in Nodes : g.prev[n] = IF n = q THEN x ELSE IF n = x THEN p ELSE h.prev[n]

\* The sequence t is s with x put behind position k.
Extended(s, t, k, x) ==
  /\ t \in Seq(Links) /\ Len(t) = Len(s) + 1
  /\ \A i \in 1 .. Len(t) : t[i] = IF i <= k THEN s[i] ELSE IF i = k + 1 THEN x ELSE s[i - 1]

\* A link that goes between two neighbours of a list.
LEMMA Inserted ==
  ASSUME NEW h, NEW o, Sound(h), Holds(h, o), NEW l \in Lists, Strung(h, l, o[l]),
         NEW x \in Links, Unlinked(h, x), NEW k \in 0 .. Len(o[l]),
         NEW g, Spliced(h, g, Pos(l, o[l], k), Pos(l, o[l], k + 1), x),
         NEW s, Extended(o[l], s, k, x)
  PROVE  /\ Sound(g) /\ Holds(g, [o EXCEPT ![l] = s])
         /\ \A n \in Nodes \ {x} : Unlinked(h, n) => Unlinked(g, n)
<1> DEFINE p == Pos(l, o[l], k)
           q == Pos(l, o[l], k + 1)
           w == [o EXCEPT ![l] = s]
<1>0. /\ h \in Heaps /\ Linked(h) /\ Ended(h)
      /\ o \in Orders /\ Apart(o) /\ o[l] \in Seq(Links) /\ Len(o[l]) \in Nat
      /\ x \in Nodes /\ Null \notin Nodes /\ h.next[x] = Null /\ h.prev[x] = Null
  BY HoldsList, SentinelsDiffer DEF Sound, Unlinked
<1>20. /\ s \in Seq(Links) /\ Len(s) = Len(o[l]) + 1
      /\ \A i \in 1 .. Len(s) : s[i] = IF i <= k THEN o[l][i] ELSE IF i = k + 1 THEN x ELSE o[l][i - 1]
  BY DEF Extended
<1>1. /\ p \in Nodes /\ q \in Nodes /\ h.next[p] = q /\ h.prev[q] = p
      /\ k \in 0 .. Len(o[l]) + 1 /\ k + 1 \in 0 .. Len(o[l]) + 1
  <2>1. k \in 0 .. Len(o[l]) + 1 /\ k + 1 \in 0 .. Len(o[l]) + 1
    BY <1>0
  <2> QED BY <1>0, <2>1, Positions, StrungBack
<1>2. p # x /\ q # x
  BY <1>0, <1>1
<1>3. /\ g \in Heaps
      /\ \A n \in Nodes : g.next[n] = IF n = p THEN x ELSE IF n = x THEN q ELSE h.next[n]
      /\ \A n \in Nodes : g.prev[n] = IF n = q THEN x ELSE IF n = x THEN p ELSE h.prev[n]
  BY DEF Spliced
<1>4. \A m \in Lists : \A i \in 0 .. Len(o[m]) + 1 : Strung(h, m, o[m]) => Pos(m, o[m], i) # x
  <2> SUFFICES ASSUME NEW m \in Lists, NEW i \in 0 .. Len(o[m]) + 1, Pos(m, o[m], i) = x
               PROVE  FALSE
    OBVIOUS
  <2>1. o[m] \in Seq(Links) /\ Len(o[m]) \in Nat
    BY HoldsList
  <2>2. i = 0 \/ i \in 1 .. Len(o[m]) \/ i = Len(o[m]) + 1
    BY <2>1
  <2>3. CASE i \in 1 .. Len(o[m])
    BY <1>0, <2>1, <2>3, Positions, MembersAreLinked
  <2>4. CASE i = 0 \/ i = Len(o[m]) + 1
    BY <2>1, <2>4, Positions, SentinelsDiffer
  <2> QED BY <2>2, <2>3, <2>4
<1>5. Sound(g)
  <2> HIDE DEF p, q
  <2>1. ASSUME NEW n \in Nodes, g.next[n] # Null
        PROVE  g.prev[g.next[n]] = n
    BY <1>0, <1>1, <1>2, <1>3, <2>1, Fields DEF Linked
  <2>2. ASSUME NEW n \in Nodes, g.prev[n] # Null
        PROVE  g.next[g.prev[n]] = n
    BY <1>0, <1>1, <1>2, <1>3, <2>2, Fields DEF Linked
  <2>3. ASSUME NEW m \in Lists
        PROVE  g.prev[HeadOf(m)] = Null /\ g.next[TailOf(m)] = Null
    <3>1. HeadOf(m) # x /\ TailOf(m) # x /\ HeadOf(m) \in Nodes /\ TailOf(m) \in Nodes
      BY SentinelsDiffer
    <3>2. h.prev[HeadOf(m)] = Null /\ h.next[TailOf(m)] = Null
      BY <1>0 DEF Ended
    <3>3. HeadOf(m) # q /\ TailOf(m) # p
      BY <1>0, <1>1, <3>2
    <3> QED BY <1>3, <3>1, <3>2, <3>3
  <2> QED BY <1>3, <2>1, <2>2, <2>3 DEF Sound, Linked, Ended
<1>6. w \in Orders /\ w[l] = s /\ \A m \in Lists : m # l => w[m] = o[m]
  BY <1>0, <1>20 DEF Orders
<1>7. ASSUME NEW m \in Lists, m # l
      PROVE  (Fresh(g, m) /\ o[m] = <<>>) \/ Strung(g, m, o[m])
  <2>1. CASE Fresh(h, m) /\ o[m] = <<>>
    <3>1. HeadOf(m) # x /\ TailOf(m) # x /\ HeadOf(m) \in Nodes /\ TailOf(m) \in Nodes
      BY SentinelsDiffer
    <3>2. HeadOf(m) # q /\ HeadOf(m) # p /\ TailOf(m) # p /\ TailOf(m) # q
      BY <1>0, <1>1, <2>1 DEF Fresh, Unlinked
    <3> HIDE DEF p, q
    <3> QED BY <1>3, <2>1, <3>1, <3>2 DEF Fresh, Unlinked
  <2>2. CASE Strung(h, m, o[m])
    <3>0. o[m] \in Seq(Links) /\ Len(o[m]) \in Nat
      BY HoldsList
    <3>1. ASSUME NEW i \in 0 .. Len(o[m])
          PROVE  Pos(m, o[m], i) # p /\ Pos(m, o[m], i) # x /\ Pos(m, o[m], i) \in Nodes
      <4>1. i \in 0 .. Len(o[m]) + 1
        BY <3>0
      <4> QED BY <1>0, <1>1, <1>4, <1>7, <2>2, <3>0, <4>1, Positions, PositionsDiffer
    <3> HIDE DEF p, q
    <3> QED BY <1>3, <2>2, <3>1 DEF Strung
  <2> QED BY <2>1, <2>2, HoldsList
<1>8. \A i \in 0 .. Len(s) + 1 :
        Pos(l, s, i) = IF i <= k THEN Pos(l, o[l], i) ELSE IF i = k + 1 THEN x ELSE Pos(l, o[l], i - 1)
  BY <1>0, <1>20 DEF Pos
<1>9. Strung(g, l, s)
  <2> SUFFICES ASSUME NEW i \in 0 .. Len(s)
               PROVE  g.next[Pos(l, s, i)] = Pos(l, s, i + 1)
    BY DEF Strung
  <2> HIDE DEF p, q
  <2>0. i \in 0 .. Len(s) + 1 /\ i + 1 \in 0 .. Len(s) + 1 /\ i \in Nat /\ k \in Nat
    BY <1>0, <1>20
  <2>1. CASE i < k
    <3>0. i <= k /\ i + 1 <= k
      BY <2>0, <2>1
    <3>1. Pos(l, s, i) = Pos(l, o[l], i) /\ Pos(l, s, i + 1) = Pos(l, o[l], i + 1)
      BY <1>8, <2>0, <3>0
    <3>2. i \in 0 .. Len(o[l]) /\ i \in 0 .. Len(o[l]) + 1 /\ i # k
      BY <1>0, <1>20, <2>0, <2>1
    <3>3. Pos(l, o[l], i) # p /\ Pos(l, o[l], i) # x /\ Pos(l, o[l], i) \in Nodes
      BY <1>0, <1>1, <1>4, <3>2, Positions, PositionsDiffer DEF p
    <3> QED BY <1>3, <3>1, <3>2, <3>3 DEF Strung
  <2>2. CASE i = k
    <3>1. Pos(l, s, i) = p /\ Pos(l, s, i + 1) = x
      BY <1>8, <2>0, <2>2 DEF p
    <3> QED BY <1>1, <1>3, <3>1
  <2>3. CASE i = k + 1
    <3>1. Pos(l, s, i) = x /\ Pos(l, s, i + 1) = q
      BY <1>8, <2>0, <2>3 DEF q
    <3> QED BY <1>0, <1>2, <1>3, <3>1
  <2>4. CASE i > k + 1
    <3>0. /\ ~(i <= k) /\ i # k + 1 /\ ~(i + 1 <= k) /\ i + 1 # k + 1
          /\ (i + 1) - 1 = (i - 1) + 1
      BY <2>0, <2>4
    <3>1. Pos(l, s, i) = Pos(l, o[l], i - 1) /\ Pos(l, s, i + 1) = Pos(l, o[l], (i + 1) - 1)
      BY <1>8, <2>0, <3>0
    <3>4. Pos(l, s, i + 1) = Pos(l, o[l], (i - 1) + 1)
      BY <3>0, <3>1
    <3>2. i - 1 \in 0 .. Len(o[l]) /\ i - 1 \in 0 .. Len(o[l]) + 1 /\ i - 1 # k
      BY <1>0, <1>20, <2>0, <2>4
    <3>3. Pos(l, o[l], i - 1) # p /\ Pos(l, o[l], i - 1) # x /\ Pos(l, o[l], i - 1) \in Nodes
      BY <1>0, <1>1, <1>4, <3>2, Positions, PositionsDiffer DEF p
    <3> QED BY <1>3, <3>1, <3>2, <3>3, <3>4 DEF Strung
  <2> QED BY <2>0, <2>1, <2>2, <2>3, <2>4
<1>10. Apart(w)
  <2> DEFINE old(i) == IF i <= k THEN i ELSE i - 1
  <2>1. ASSUME NEW i \in 1 .. Len(s), i # k + 1
        PROVE  s[i] = o[l][old(i)] /\ old(i) \in 1 .. Len(o[l])
    BY <1>0, <1>20, <2>1
  <2>2. s[k + 1] = x /\ k + 1 \in 1 .. Len(s)
    BY <1>0, <1>20
  <2>3. ASSUME NEW m \in Lists, NEW j \in 1 .. Len(o[m])
        PROVE  o[m][j] # x
    BY MembersAreLinked
  <2> SUFFICES ASSUME NEW m \in Lists, NEW n \in Lists,
                      NEW i \in 1 .. Len(w[m]), NEW j \in 1 .. Len(w[n]), w[m][i] = w[n][j]
               PROVE  m = n /\ i = j
    BY DEF Apart
  <2>4. i \in Int /\ j \in Int /\ k \in Int
    BY <1>0, <1>20, <1>6
  <2> HIDE DEF w
  <2>5. \A a, b \in Lists : \A c \in 1 .. Len(o[a]), d \in 1 .. Len(o[b]) : o[a][c] = o[b][d] => a = b /\ c = d
    BY <1>0 DEF Apart
  <2>6. CASE m # l /\ n # l
    BY <1>6, <2>5, <2>6
  <2>7. CASE m = l /\ n # l
    <3>1. s[i] = o[n][j] /\ i \in 1 .. Len(s) /\ j \in 1 .. Len(o[n])
      BY <1>6, <2>7
    <3>2. o[n][j] # x
      BY <2>3, <3>1
    <3>3. i # k + 1
      BY <2>2, <3>1, <3>2
    <3> HIDE DEF old
    <3>4. s[i] = o[l][old(i)] /\ old(i) \in 1 .. Len(o[l])
      BY <2>1, <3>1, <3>3
    <3>5. o[l][old(i)] = o[n][j]
      BY <3>1, <3>4
    <3> QED BY <2>5, <2>7, <3>1, <3>4, <3>5
  <2>8. CASE m # l /\ n = l
    <3>1. o[m][i] = s[j] /\ j \in 1 .. Len(s) /\ i \in 1 .. Len(o[m])
      BY <1>6, <2>8
    <3>2. o[m][i] # x
      BY <2>3, <3>1
    <3>3. j # k + 1
      BY <2>2, <3>1, <3>2
    <3> HIDE DEF old
    <3>4. s[j] = o[l][old(j)] /\ old(j) \in 1 .. Len(o[l])
      BY <2>1, <3>1, <3>3
    <3> QED BY <2>5, <2>8, <3>1, <3>4
  <2>9. CASE m = l /\ n = l
    <3>1. s[i] = s[j] /\ i \in 1 .. Len(s) /\ j \in 1 .. Len(s)
      BY <1>6, <2>9
    <3>2. CASE i = k + 1
      <4> HIDE DEF old
      <4> QED BY <2>1, <2>2, <2>3, <2>9, <3>1, <3>2
    <3>3. CASE j = k + 1
      <4> HIDE DEF old
      <4> QED BY <2>1, <2>2, <2>3, <2>9, <3>1, <3>3
    <3>4. CASE i # k + 1 /\ j # k + 1
      <4>1. old(i) = old(j)
        <5> HIDE DEF old
        <5>1. s[i] = o[l][old(i)] /\ old(i) \in 1 .. Len(o[l])
          BY <2>1, <3>1, <3>4
        <5>2. s[j] = o[l][old(j)] /\ old(j) \in 1 .. Len(o[l])
          BY <2>1, <3>1, <3>4
        <5>3. o[l][old(i)] = o[l][old(j)]
          BY <3>1, <5>1, <5>2
        <5> QED BY <2>5, <5>1, <5>2, <5>3
      <4> QED BY <2>4, <2>9, <3>4, <4>1
    <3> QED BY <3>2, <3>3, <3>4
  <2> QED BY <2>6, <2>7, <2>8, <2>9
<1>11. Holds(g, w)
  BY <1>5, <1>6, <1>7, <1>9, <1>10 DEF Holds
<1>12. ASSUME NEW n \in Nodes \ {x}, Unlinked(h, n)
       PROVE  Unlinked(g, n)
  <2> HIDE DEF p, q
  <2> QED BY <1>0, <1>1, <1>3, <1>12 DEF Unlinked
<1> QED BY <1>5, <1>11, <1>12

\* The fields after push_link_front and push_link_back on a list whose
\* sentinels are initialised.
LEMMA PushFrontFields ==
  ASSUME NEW h, NEW l \in Lists, Sound(MaybeInit(h, l)), NEW x \in Links,
         NEW q \in Nodes, q = MaybeInit(h, l).next[HeadOf(l)], q # x
  PROVE  Spliced(MaybeInit(h, l), PushFront(h, l, x), HeadOf(l), q, x)
<1> DEFINE a  == HeadOf(l)
           h0 == MaybeInit(h, l)
           h1 == SetPrev(h0, q, x)
           h2 == SetNext(h1, x, q)
           h3 == SetPrev(h2, x, a)
           g  == SetNext(h3, a, x)
<1>0. /\ a \in Nodes /\ x \in Nodes /\ q \in Nodes
      /\ a \in Nodes \cup {Null} /\ x \in Nodes \cup {Null} /\ q \in Nodes \cup {Null}
  BY SentinelsDiffer
<1>1. h0 \in Heaps /\ h0.next[a] = q
  BY DEF Sound
<1> HIDE DEF h0, h1, h2, h3, g, a
<1>2. PrevIs(h0, h1, q, x) /\ h1 \in Heaps
  <2>1. h1 = SetPrev(h0, q, x)
    BY DEF h1
  <2> QED BY <1>0, <1>1, <2>1, AssignedPrev
<1>3. NextIs(h1, h2, x, q) /\ h2 \in Heaps
  <2>1. h2 = SetNext(h1, x, q)
    BY DEF h2
  <2> QED BY <1>0, <1>2, <2>1, AssignedNext
<1>4. PrevIs(h2, h3, x, a) /\ h3 \in Heaps
  <2>1. h3 = SetPrev(h2, x, a)
    BY DEF h3
  <2> QED BY <1>0, <1>3, <2>1, AssignedPrev
<1>5. NextIs(h3, g, a, x) /\ g \in Heaps
  <2>1. g = SetNext(h3, a, x)
    BY DEF g
  <2> QED BY <1>0, <1>4, <2>1, AssignedNext
<1>6. PushFront(h, l, x) = g
  <2>1. h1.next[a] = q
    BY <1>1, <1>2 DEF PrevIs
  <2>2. PushFront(h, l, x) = SetNext(SetPrev(SetNext(h1, x, h1.next[a]), x, a), a, x)
    BY <1>1 DEF PushFront, h0, h1, a
  <2> QED BY <2>1, <2>2 DEF h2, h3, g
<1> QED BY <1>2, <1>3, <1>4, <1>5, <1>6 DEF h0, a, Spliced, NextIs, PrevIs, Heaps

\* The fields after a push at the back.
LEMMA PushBackFields ==
  ASSUME NEW h, NEW l \in Lists, Sound(MaybeInit(h, l)), NEW x \in Links,
         NEW p \in Nodes, p = MaybeInit(h, l).prev[TailOf(l)], p # x
  PROVE  Spliced(MaybeInit(h, l), PushBack(h, l, x), p, TailOf(l), x)
<1> DEFINE z  == TailOf(l)
           h0 == MaybeInit(h, l)
           h1 == SetNext(h0, p, x)
           h2 == SetNext(h1, x, z)
           h3 == SetPrev(h2, x, p)
           g  == SetPrev(h3, z, x)
<1>0. /\ z \in Nodes /\ x \in Nodes /\ p \in Nodes /\ z # x
      /\ z \in Nodes \cup {Null} /\ x \in Nodes \cup {Null} /\ p \in Nodes \cup {Null}
  BY SentinelsDiffer
<1>1. h0 \in Heaps /\ h0.prev[z] = p
  BY DEF Sound
<1> HIDE DEF h0, h1, h2, h3, g, z
<1>2. NextIs(h0, h1, p, x) /\ h1 \in Heaps
  <2>1. h1 = SetNext(h0, p, x)
    BY DEF h1
  <2> QED BY <1>0, <1>1, <2>1, AssignedNext
<1>3. NextIs(h1, h2, x, z) /\ h2 \in Heaps
  <2>1. h2 = SetNext(h1, x, z)
    BY DEF h2
  <2> QED BY <1>0, <1>2, <2>1, AssignedNext
<1>4. PrevIs(h2, h3, x, p) /\ h3 \in Heaps
  <2>1. h3 = SetPrev(h2, x, p)
    BY DEF h3
  <2> QED BY <1>0, <1>3, <2>1, AssignedPrev
<1>5. PrevIs(h3, g, z, x) /\ g \in Heaps
  <2>1. g = SetPrev(h3, z, x)
    BY DEF g
  <2> QED BY <1>0, <1>4, <2>1, AssignedPrev
<1>6. PushBack(h, l, x) = g
  <2>1. h2.prev[z] = p
    BY <1>1, <1>2, <1>3 DEF NextIs
  <2>2. PushBack(h, l, x) = SetPrev(SetPrev(h2, x, h2.prev[z]), z, x)
    BY <1>1 DEF PushBack, h0, h1, h2, z
  <2> QED BY <2>1, <2>2 DEF h3, g
<1> QED BY <1>0, <1>2, <1>3, <1>4, <1>5, <1>6 DEF h0, z, Spliced, NextIs, PrevIs, Heaps

\* A link that a list is tied to is linked.
LEMMA NeighboursAreLinked ==
  ASSUME NEW h, Sound(h), NEW l \in Lists, NEW s \in Seq(Links), Strung(h, l, s)
  PROVE  /\ Pos(l, s, 1) \in Nodes /\ Pos(l, s, Len(s)) \in Nodes
         /\ ~Unlinked(h, Pos(l, s, 1)) /\ ~Unlinked(h, Pos(l, s, Len(s)))
<1>1. /\ Len(s) \in Nat /\ 0 \in 0 .. Len(s) /\ Len(s) \in 0 .. Len(s) /\ 0 + 1 = 1
      /\ 0 \in 0 .. Len(s) + 1 /\ 1 \in 0 .. Len(s) + 1
      /\ Len(s) \in 0 .. Len(s) + 1 /\ Len(s) + 1 \in 0 .. Len(s) + 1
  <2>1. Len(s) \in Nat
    BY LenProperties
  <2> QED BY <2>1
<1>2. /\ Pos(l, s, 0) \in Nodes /\ Pos(l, s, 1) \in Nodes
      /\ Pos(l, s, Len(s)) \in Nodes /\ Pos(l, s, Len(s) + 1) \in Nodes
  BY <1>1, Positions
<1>3. h.prev[Pos(l, s, 1)] = Pos(l, s, 0) /\ h.next[Pos(l, s, Len(s))] = Pos(l, s, Len(s) + 1)
  BY <1>1, StrungBack
<1> QED BY <1>2, <1>3, SentinelsDiffer DEF Unlinked

\* push_link_front puts a link before all others.
LEMMA PushFrontHolds ==
  ASSUME NEW h, NEW o, Sound(h), Holds(h, o), NEW l \in Lists, NEW x \in Links, Unlinked(h, x)
  PROVE  /\ Sound(PushFront(h, l, x))
         /\ Holds(PushFront(h, l, x), [o EXCEPT ![l] = <<x>> \o @])
         /\ \A n \in Nodes \ {x, HeadOf(l), TailOf(l)} :
              Unlinked(h, n) => Unlinked(PushFront(h, l, x), n)
<1> DEFINE h0 == MaybeInit(h, l)
           g  == PushFront(h, l, x)
           s  == <<x>> \o o[l]
           q  == Pos(l, o[l], 1)
<1>1. /\ Sound(h0) /\ Holds(h0, o) /\ Strung(h0, l, o[l])
      /\ \A n \in Nodes \ {HeadOf(l), TailOf(l)} : h0.next[n] = h.next[n] /\ h0.prev[n] = h.prev[n]
  BY MaybeInitHolds
<1>2. /\ o \in Orders /\ o[l] \in Seq(Links) /\ Len(o[l]) \in Nat
      /\ x \in Nodes /\ x # HeadOf(l) /\ x # TailOf(l)
  BY HoldsList, SentinelsDiffer
<1>3. Unlinked(h0, x)
  BY <1>1, <1>2 DEF Unlinked
<1> HIDE DEF h0
<1>4. q \in Nodes /\ q = h0.next[HeadOf(l)] /\ q # x
  BY <1>1, <1>2, <1>3, NeighboursAreLinked, StrungBack
<1>5. Spliced(h0, g, HeadOf(l), q, x)
  <2> HIDE DEF q
  <2> QED BY <1>1, <1>4, PushFrontFields DEF h0
<1>6. /\ s \in Seq(Links) /\ Len(s) = Len(o[l]) + 1
      /\ \A i \in 1 .. Len(s) : s[i] = IF i <= 0 THEN o[l][i] ELSE IF i = 0 + 1 THEN x ELSE o[l][i - 1]
  BY <1>2
<1>7. /\ 0 \in 0 .. Len(o[l]) /\ 0 + 1 = 1 /\ Pos(l, o[l], 0) = HeadOf(l) /\ Pos(l, o[l], 0 + 1) = q
  BY <1>2, Positions
<1> HIDE DEF g, s, q
<1>8. Spliced(h0, g, Pos(l, o[l], 0), Pos(l, o[l], 0 + 1), x) /\ Extended(o[l], s, 0, x)
  BY <1>5, <1>6, <1>7 DEF Extended
<1>9. /\ Sound(g) /\ Holds(g, [o EXCEPT ![l] = s])
      /\ \A n \in Nodes \ {x} : Unlinked(h0, n) => Unlinked(g, n)
  BY <1>1, <1>3, <1>7, <1>8, Inserted
<1>10. [o EXCEPT ![l] = s] = [o EXCEPT ![l] = <<x>> \o @]
  BY DEF s
<1>11. \A n \in Nodes \ {HeadOf(l), TailOf(l)} : Unlinked(h, n) => Unlinked(h0, n)
  BY <1>1 DEF Unlinked
<1> QED BY <1>9, <1>10, <1>11 DEF g

\* push_link_back puts it behind all others.
LEMMA PushBackHolds ==
  ASSUME NEW h, NEW o, Sound(h), Holds(h, o), NEW l \in Lists, NEW x \in Links, Unlinked(h, x)
  PROVE  /\ Sound(PushBack(h, l, x))
         /\ Holds(PushBack(h, l, x), [o EXCEPT ![l] = Append(@, x)])
         /\ \A n \in Nodes \ {x, HeadOf(l), TailOf(l)} :
              Unlinked(h, n) => Unlinked(PushBack(h, l, x), n)
<1> DEFINE h0 == MaybeInit(h, l)
           g  == PushBack(h, l, x)
           k  == Len(o[l])
           s  == Append(o[l], x)
           p  == Pos(l, o[l], k)
<1>1. /\ Sound(h0) /\ Holds(h0, o) /\ Strung(h0, l, o[l])
      /\ \A n \in Nodes \ {HeadOf(l), TailOf(l)} : h0.next[n] = h.next[n] /\ h0.prev[n] = h.prev[n]
  BY MaybeInitHolds
<1>2. /\ o \in Orders /\ o[l] \in Seq(Links) /\ k \in Nat
      /\ x \in Nodes /\ x # HeadOf(l) /\ x # TailOf(l)
  BY HoldsList, SentinelsDiffer
<1>3. Unlinked(h0, x)
  BY <1>1, <1>2 DEF Unlinked
<1> HIDE DEF h0
<1>4. p \in Nodes /\ p = h0.prev[TailOf(l)] /\ p # x
  BY <1>1, <1>2, <1>3, NeighboursAreLinked, StrungBack
<1>5. Spliced(h0, g, p, TailOf(l), x)
  <2> HIDE DEF p
  <2> QED BY <1>1, <1>4, PushBackFields DEF h0
<1>6. /\ s \in Seq(Links) /\ Len(s) = k + 1
      /\ \A i \in 1 .. Len(s) : s[i] = IF i <= k THEN o[l][i] ELSE IF i = k + 1 THEN x ELSE o[l][i - 1]
  BY <1>2
<1>7. k \in 0 .. k /\ Pos(l, o[l], k) = p /\ Pos(l, o[l], k + 1) = TailOf(l)
  BY <1>2, Positions
<1> HIDE DEF g, s, p
<1>8. Spliced(h0, g, Pos(l, o[l], k), Pos(l, o[l], k + 1), x) /\ Extended(o[l], s, k, x)
  BY <1>5, <1>6, <1>7 DEF Extended
<1>9. /\ Sound(g) /\ Holds(g, [o EXCEPT ![l] = s])
      /\ \A n \in Nodes \ {x} : Unlinked(h0, n) => Unlinked(g, n)
  BY <1>1, <1>3, <1>7, <1>8, Inserted
<1>10. [o EXCEPT ![l] = s] = [o EXCEPT ![l] = Append(@, x)]
  BY DEF s
<1>11. \A n \in Nodes \ {HeadOf(l), TailOf(l)} : Unlinked(h, n) => Unlinked(h0, n)
  BY <1>1 DEF Unlinked
<1> QED BY <1>9, <1>10, <1>11 DEF g

----------------------------------------------------------------------------
(* Taking out the first, and dropping a list.                              *)

\* Without its first link a sequence is its tail.
LEMMA RemovedFirst ==
  ASSUME NEW s \in Seq(Links), s # <<>>
  PROVE  RemoveAt(s, 1) = Tail(s) /\ 1 \in 1 .. Len(s) /\ Head(s) = s[1]
<1>1. Len(s) \in Nat /\ Len(s) # 0 /\ 1 \in 1 .. Len(s)
  BY EmptySeq, LenProperties
<1>2. /\ RemoveAt(s, 1) \in Seq(Links) /\ Len(RemoveAt(s, 1)) = Len(s) - 1
      /\ \A k \in 1 .. Len(s) - 1 : RemoveAt(s, 1)[k] = IF k < 1 THEN s[k] ELSE s[k + 1]
  BY <1>1, Removed
<1>3. /\ Tail(s) \in Seq(Links) /\ Len(Tail(s)) = Len(s) - 1 /\ Head(s) = s[1]
      /\ \A k \in 1 .. Len(s) - 1 : Tail(s)[k] = s[k + 1]
  BY <1>1, HeadTailProperties
<1>4. \A k \in 1 .. Len(s) - 1 : RemoveAt(s, 1)[k] = Tail(s)[k]
  BY <1>1, <1>2, <1>3
<1>5. RemoveAt(s, 1) = Tail(s)
  BY <1>2, <1>3, <1>4, SeqEqual
<1> QED BY <1>1, <1>3, <1>5

\* pop_front returns the first link, or None, and leaves the rest.
LEMMA PopFrontHolds ==
  ASSUME NEW h, NEW o, Sound(h), Holds(h, o), NEW l \in Lists
  PROVE  /\ Sound(PopFront(h, l))
         /\ o[l] = <<>> => FrontOf(h, l) = Null /\ Holds(PopFront(h, l), o)
         /\ o[l] # <<>> => /\ FrontOf(h, l) = Head(o[l]) /\ Head(o[l]) \in Links
                           /\ Holds(PopFront(h, l), [o EXCEPT ![l] = Tail(@)])
                           /\ Unlinked(PopFront(h, l), Head(o[l]))
         /\ \A n \in Nodes \ {HeadOf(l), TailOf(l)} : Unlinked(h, n) => Unlinked(PopFront(h, l), n)
<1> DEFINE g == MaybeInit(h, l)
           s == o[l]
<1>1. /\ Sound(g) /\ Holds(g, o) /\ Strung(g, l, s)
      /\ \A n \in Nodes \ {HeadOf(l), TailOf(l)} : g.next[n] = h.next[n] /\ g.prev[n] = h.prev[n]
  BY MaybeInitHolds
<1>2. s \in Seq(Links) /\ Len(s) \in Nat /\ (s = <<>> <=> Len(s) = 0) /\ o \in Orders
  BY HoldsList
<1>3. \A n \in Nodes \ {HeadOf(l), TailOf(l)} : Unlinked(h, n) => Unlinked(g, n)
  BY <1>1 DEF Unlinked
<1>4. /\ FrontOf(h, l) = IF g.next[HeadOf(l)] = TailOf(l) THEN Null ELSE g.next[HeadOf(l)]
      /\ PopFront(h, l) = IF g.next[HeadOf(l)] = TailOf(l) THEN g ELSE Unlink(g, g.next[HeadOf(l)])
  BY DEF FrontOf, PopFront, IsEmpty
<1> HIDE DEF g
<1>5. g.next[HeadOf(l)] = Pos(l, s, 1)
  BY <1>1, <1>2, StrungBack
<1>6. CASE s = <<>>
  <2>1. Pos(l, s, 1) = TailOf(l)
    <3>1. Len(s) + 1 = 1
      BY <1>2, <1>6
    <3>2. Pos(l, s, Len(s) + 1) = TailOf(l)
      BY <1>2, Positions
    <3> HIDE DEF s
    <3> QED BY <3>1, <3>2
  <2>2. PopFront(h, l) = g /\ FrontOf(h, l) = Null
    BY <1>4, <1>5, <2>1
  <2> QED BY <1>1, <1>3, <1>6, <2>2
<1>7. CASE s # <<>>
  <2>1. /\ RemoveAt(s, 1) = Tail(s) /\ 1 \in 1 .. Len(s) /\ Head(s) = s[1]
        /\ Pos(l, s, 1) = s[1] /\ s[1] \in Links
    BY <1>2, <1>7, RemovedFirst, Positions
  <2>2. FrontOf(h, l) = s[1] /\ PopFront(h, l) = Unlink(g, s[1]) /\ s[1] \in Nodes
    BY <1>4, <1>5, <2>1, SentinelsDiffer
  <2>3. Holds(Unlink(g, s[1]), Without(o, l, 1))
    BY <1>1, <2>1, UnlinkMember
  <2>4. Without(o, l, 1) = [o EXCEPT ![l] = Tail(@)]
    BY <2>1 DEF Without
  <2>5. /\ Sound(Unlink(g, s[1])) /\ Unlinked(Unlink(g, s[1]), s[1])
        /\ \A n \in Nodes : Unlinked(g, n) => Unlinked(Unlink(g, s[1]), n)
    BY <1>1, <2>2, UnlinkIsSound
  <2> QED BY <1>3, <1>7, <2>1, <2>2, <2>3, <2>4, <2>5
<1> QED BY <1>6, <1>7

\* A list that is dropped forgets its links and leaves the others alone.
LEMMA DropHolds ==
  ASSUME NEW h, NEW o, Sound(h), Holds(h, o), NEW l \in Lists
  PROVE  /\ Sound(DropSentinels(h, l)) /\ Holds(DropSentinels(h, l), [o EXCEPT ![l] = <<>>])
         /\ Fresh(DropSentinels(h, l), l)
         /\ \A n \in Nodes : Unlinked(h, n) => Unlinked(DropSentinels(h, l), n)
<1> DEFINE a == HeadOf(l)
           z == TailOf(l)
           h1 == Unlink(h, a)
           h2 == Unlink(h1, z)
           w == [o EXCEPT ![l] = <<>>]
<1>0. a \in Nodes /\ z \in Nodes /\ DropSentinels(h, l) = h2
  BY SentinelsDiffer DEF DropSentinels
<1>1. /\ Sound(h1) /\ Unlinked(h1, a)
      /\ \A n \in Nodes : Unlinked(h, n) => Unlinked(h1, n)
  BY <1>0, UnlinkIsSound
<1>2. /\ Sound(h2) /\ Unlinked(h2, z)
      /\ \A n \in Nodes : Unlinked(h1, n) => Unlinked(h2, n)
  <2> HIDE DEF h1
  <2> QED BY <1>0, <1>1, UnlinkIsSound
<1>3. Fresh(h2, l)
  <2> HIDE DEF h1, h2
  <2> QED BY <1>0, <1>1, <1>2 DEF Fresh, a, z
<1>4. o \in Orders /\ Apart(o) /\ o[l] \in Seq(Links)
  BY HoldsList
<1>5. w \in Orders /\ w[l] = <<>> /\ \A m \in Lists : m # l => w[m] = o[m]
  BY <1>4 DEF Orders
<1>6. Apart(w)
  <2>1. Len(w[l]) = 0
    BY <1>5
  <2>2. ASSUME NEW m \in Lists, NEW i \in 1 .. Len(w[m])
        PROVE  m # l
    BY <2>1
  <2> HIDE DEF w
  <2>3. SUFFICES ASSUME NEW m \in Lists, NEW n \in Lists,
                        NEW i \in 1 .. Len(w[m]), NEW j \in 1 .. Len(w[n]), w[m][i] = w[n][j]
                 PROVE  m = n /\ i = j
    BY DEF Apart
  <2>4. m # l /\ n # l
    BY <2>2
  <2>5. w[m] = o[m] /\ w[n] = o[n]
    BY <1>5, <2>4
  <2> QED BY <1>4, <2>3, <2>5 DEF Apart
<1>7. ASSUME NEW m \in Lists, m # l
      PROVE  (Fresh(h2, m) /\ o[m] = <<>>) \/ Strung(h2, m, o[m])
  <2>1. CASE Fresh(h, m) /\ o[m] = <<>>
    <3> HIDE DEF h1, h2
    <3> QED BY <1>1, <1>2, <2>1, SentinelsDiffer DEF Fresh
  <2>2. CASE Strung(h, m, o[m])
    <3>1. o[m] \in Seq(Links)
      BY HoldsList
    <3>2. \A i \in 0 .. Len(o[m]) + 1 : Pos(m, o[m], i) # a /\ Pos(m, o[m], i) # z
      BY <1>7, <3>1, Positions, SentinelsDiffer DEF Pos
    <3> HIDE DEF a, z
    <3>3. Strung(h1, m, o[m])
      BY <1>0, <2>2, <3>1, <3>2, UnlinkElsewhere
    <3> HIDE DEF h1
    <3> QED BY <1>0, <1>1, <3>1, <3>2, <3>3, UnlinkElsewhere
  <2> QED BY <2>1, <2>2, HoldsList
<1> HIDE DEF h1, h2, w
<1>8. Holds(h2, w)
  BY <1>3, <1>5, <1>6, <1>7 DEF Holds
<1> QED BY <1>0, <1>1, <1>2, <1>3, <1>8 DEF w

----------------------------------------------------------------------------
(* Moving a list in front of another.                                      *)

\* Initialising one list leaves another as it is strung.
LEMMA BothInitialised ==
  ASSUME NEW h, NEW o, Sound(h), Holds(h, o), NEW src \in Lists, NEW dst \in Lists, src # dst
  PROVE  /\ Sound(MaybeInit(MaybeInit(h, src), dst)) /\ Holds(MaybeInit(MaybeInit(h, src), dst), o)
         /\ Strung(MaybeInit(MaybeInit(h, src), dst), src, o[src])
         /\ Strung(MaybeInit(MaybeInit(h, src), dst), dst, o[dst])
         /\ \A n \in Nodes \ {HeadOf(src), TailOf(src), HeadOf(dst), TailOf(dst)} :
              Unlinked(h, n) => Unlinked(MaybeInit(MaybeInit(h, src), dst), n)
<1> DEFINE h1 == MaybeInit(h, src)
           h2 == MaybeInit(h1, dst)
<1>1. /\ Sound(h1) /\ Holds(h1, o) /\ Strung(h1, src, o[src])
      /\ \A n \in Nodes \ {HeadOf(src), TailOf(src)} : h1.next[n] = h.next[n] /\ h1.prev[n] = h.prev[n]
  BY MaybeInitHolds
<1> HIDE DEF h1
<1>2. /\ Sound(h2) /\ Holds(h2, o) /\ Strung(h2, dst, o[dst])
      /\ \A n \in Nodes \ {HeadOf(dst), TailOf(dst)} : h2.next[n] = h1.next[n] /\ h2.prev[n] = h1.prev[n]
  BY <1>1, MaybeInitHolds
<1> HIDE DEF h2
<1>3. Strung(h2, src, o[src])
  <2>1. o[src] \in Seq(Links)
    BY HoldsList
  <2>2. h1.next[HeadOf(src)] \in Nodes
    <3>1. h1.next[HeadOf(src)] = Pos(src, o[src], 1)
      BY <1>1, <2>1, StrungBack
    <3>2. Pos(src, o[src], 1) \in Nodes
      BY <1>1, <2>1, NeighboursAreLinked
    <3> QED BY <3>1, <3>2
  <2>3. HeadOf(src) \in Nodes \ {HeadOf(dst), TailOf(dst)}
    BY SentinelsDiffer
  <2>4. h2.next[HeadOf(src)] # Null
    BY <1>2, <2>2, <2>3, SentinelsDiffer
  <2> QED BY <1>2, <2>4, HoldsList DEF Fresh, Unlinked
<1> QED BY <1>1, <1>2, <1>3 DEF h1, h2, Unlinked

\* The heap g is h with the links between a and z of one list, whose sentinels
\* are hs and ts, put between hd and f of another.
Moved(h, g, hs, ts, hd, a, z, f) ==
  /\ g \in Heaps
  /\ \A n \in Nodes : g.next[n] = IF n = hs THEN ts ELSE IF n = hd THEN a
                                  ELSE IF n = z THEN f ELSE h.next[n]
  /\ \A n \in Nodes : g.prev[n] = IF n = ts THEN hs ELSE IF n = a THEN hd
                                  ELSE IF n = f THEN z ELSE h.prev[n]

\* What move_to_front_of assigns.
LEMMA MoveFields ==
  ASSUME NEW h0, NEW src \in Lists, NEW dst \in Lists, src # dst,
         NEW h, h = MaybeInit(MaybeInit(h0, src), dst), Sound(h),
         NEW a \in Links, a = h.next[HeadOf(src)],
         NEW z \in Links, z = h.prev[TailOf(src)],
         NEW f \in Nodes, f = h.next[HeadOf(dst)],
         f # TailOf(src), f # a
  PROVE  Moved(h, MoveToFrontOf(h0, src, dst), HeadOf(src), TailOf(src), HeadOf(dst), a, z, f)
<1> DEFINE hs == HeadOf(src)
           ts == TailOf(src)
           hd == HeadOf(dst)
           h1 == SetPrev(h, f, z)
           h2 == SetNext(h1, z, f)
           h3 == SetNext(h2, hd, a)
           h4 == SetPrev(h3, a, hd)
           h5 == SetNext(h4, hs, ts)
           g  == SetPrev(h5, ts, hs)
<1>0. /\ {hs, ts, hd, a, z, f} \subseteq Nodes /\ {hs, ts, hd, a, z, f} \subseteq Nodes \cup {Null}
      /\ hs # hd /\ hs # ts /\ hd # ts /\ a \notin {hs, ts, hd} /\ z \notin {hs, ts, hd}
  BY SentinelsDiffer
<1>1. /\ h \in Heaps /\ h.next[hs] = a /\ h.prev[ts] = z /\ h.next[hd] = f
      /\ IsEmpty(h, src) = (a = ts)
  BY DEF Sound, IsEmpty
<1>2. MoveToFrontOf(h0, src, dst) =
        IF IsEmpty(h, src) THEN h
        ELSE LET front == h.next[hd]
                 k1 == SetPrev(h, front, h.prev[ts])
                 k2 == SetNext(k1, k1.prev[ts], front)
                 k3 == SetNext(k2, hd, k2.next[hs])
                 k4 == SetPrev(k3, k3.next[hs], hd)
                 k5 == SetNext(k4, hs, ts)
             IN  SetPrev(k5, ts, hs)
  BY DEF MoveToFrontOf
<1> HIDE DEF hs, ts, hd, h1, h2, h3, h4, h5, g
<1>3. PrevIs(h, h1, f, z) /\ h1 \in Heaps
  BY <1>0, <1>1, AssignedPrev DEF h1
<1>4. NextIs(h1, h2, z, f) /\ h2 \in Heaps
  BY <1>0, <1>3, AssignedNext DEF h2
<1>5. NextIs(h2, h3, hd, a) /\ h3 \in Heaps
  BY <1>0, <1>4, AssignedNext DEF h3
<1>6. PrevIs(h3, h4, a, hd) /\ h4 \in Heaps
  BY <1>0, <1>5, AssignedPrev DEF h4
<1>7. NextIs(h4, h5, hs, ts) /\ h5 \in Heaps
  BY <1>0, <1>6, AssignedNext DEF h5
<1>8. PrevIs(h5, g, ts, hs) /\ g \in Heaps
  BY <1>0, <1>7, AssignedPrev DEF g
<1>9. MoveToFrontOf(h0, src, dst) = g
  <2>1. h1.prev[ts] = z
    <3>1. ts # f
      BY DEF ts
    <3> QED BY <1>0, <1>1, <1>3, <3>1 DEF PrevIs
  <2>2. h2.next[hs] = a
    BY <1>0, <1>1, <1>3, <1>4 DEF PrevIs, NextIs
  <2>3. h3.next[hs] = a
    BY <1>0, <2>2, <1>5 DEF NextIs
  <2>4. ~IsEmpty(h, src)
    BY <1>0, <1>1
  <2> QED BY <1>1, <1>2, <2>1, <2>2, <2>3, <2>4 DEF h1, h2, h3, h4, h5, g
<1>10. \A n \in Nodes : g.next[n] = IF n = hs THEN ts ELSE IF n = hd THEN a
                                    ELSE IF n = z THEN f ELSE h.next[n]
  BY <1>0, <1>3, <1>4, <1>5, <1>6, <1>7, <1>8 DEF NextIs, PrevIs
<1>11. \A n \in Nodes : g.prev[n] = IF n = ts THEN hs ELSE IF n = a THEN hd
                                    ELSE IF n = f THEN z ELSE h.prev[n]
  BY <1>0, <1>3, <1>4, <1>5, <1>6, <1>7, <1>8 DEF NextIs, PrevIs
<1> QED BY <1>8, <1>9, <1>10, <1>11 DEF Moved, hs, ts, hd

\* It keeps the heap sound.
LEMMA MovedIsSound ==
  ASSUME NEW h, NEW o, Sound(h), Holds(h, o), NEW src \in Lists, NEW dst \in Lists, src # dst,
         Strung(h, src, o[src]), Strung(h, dst, o[dst]), o[src] # <<>>,
         NEW g, Moved(h, g, HeadOf(src), TailOf(src), HeadOf(dst),
                      o[src][1], o[src][Len(o[src])], Pos(dst, o[dst], 1))
  PROVE  /\ Sound(g)
         /\ \A n \in Nodes \ {HeadOf(src), TailOf(src), HeadOf(dst), TailOf(dst)} :
              Unlinked(h, n) => Unlinked(g, n)
<1> DEFINE s == o[src]
           t == o[dst]
           hs == HeadOf(src)
           ts == TailOf(src)
           hd == HeadOf(dst)
           a == s[1]
           z == s[Len(s)]
           f == Pos(dst, t, 1)
<1>1. /\ s \in Seq(Links) /\ t \in Seq(Links) /\ Len(s) \in Nat /\ Len(s) # 0 /\ Apart(o) /\ o \in Orders
      /\ 1 \in 1 .. Len(s) /\ Len(s) \in 1 .. Len(s)
  <2>1. s \in Seq(Links) /\ t \in Seq(Links) /\ Len(s) \in Nat /\ Len(s) # 0 /\ Apart(o) /\ o \in Orders
    BY HoldsList
  <2> QED BY <2>1
<1>2. /\ a \in Links /\ z \in Links /\ a = Pos(src, s, 1) /\ z = Pos(src, s, Len(s))
  BY <1>1, Positions
<1>3. /\ h.next[hs] = a /\ h.prev[a] = hs /\ h.prev[ts] = z /\ h.next[z] = ts
      /\ h.next[hd] = f /\ h.prev[f] = hd
      /\ h.prev[hs] = Null /\ h.prev[hd] = Null /\ h.next[ts] = Null
  <2>1. h.next[hs] = a /\ h.prev[ts] = z /\ h.next[hd] = f
    BY <1>1, <1>2, StrungBack
  <2>2. h.prev[hs] = Null /\ h.prev[hd] = Null /\ h.next[ts] = Null
    BY <1>1, StrungBack
  <2>3. {a, z, f, hs, hd, ts} \subseteq Nodes /\ Null \notin Nodes
    BY <1>1, <1>2, NeighboursAreLinked, SentinelsDiffer
  <2> HIDE DEF a, z, f, hs, hd, ts
  <2> QED BY <2>1, <2>2, <2>3 DEF Sound, Linked
<1>4. /\ {a, z, f, hs, hd, ts} \subseteq Nodes /\ Null \notin Nodes
      /\ hs # hd /\ hs # ts /\ hd # ts /\ a \notin {hs, ts, hd} /\ z \notin {hs, ts, hd}
      /\ f \notin {hs, ts, hd, a}
  <2>1. {a, z, f, hs, hd, ts} \subseteq Nodes /\ Null \notin Nodes
    BY <1>1, <1>2, NeighboursAreLinked, SentinelsDiffer
  <2>2. hs # hd /\ hs # ts /\ hd # ts /\ a \notin {hs, ts, hd} /\ z \notin {hs, ts, hd}
    BY <1>2, SentinelsDiffer
  <2> HIDE DEF a, z, f, hs, hd, ts
  <2> QED BY <1>3, <2>1, <2>2
<1>5. /\ g \in Heaps
      /\ \A n \in Nodes : g.next[n] = IF n = hs THEN ts ELSE IF n = hd THEN a
                                      ELSE IF n = z THEN f ELSE h.next[n]
      /\ \A n \in Nodes : g.prev[n] = IF n = ts THEN hs ELSE IF n = a THEN hd
                                      ELSE IF n = f THEN z ELSE h.prev[n]
  BY DEF Moved
<1>6. h \in Heaps /\ Linked(h) /\ Ended(h)
  BY DEF Sound
<1>7. Linked(g)
  <2> HIDE DEF a, z, f, hs, hd, ts
  <2>1. ASSUME NEW n \in Nodes, g.next[n] # Null
        PROVE  g.prev[g.next[n]] = n
    <3>1. CASE n \in {hs, hd, z}
      BY <1>4, <1>5, <3>1
    <3>2. CASE n \notin {hs, hd, z}
      <4>1. g.next[n] = h.next[n] /\ h.next[n] \in Nodes
        BY <1>5, <1>6, <2>1, <3>2, Fields
      <4>2. h.prev[h.next[n]] = n
        BY <1>6, <2>1, <4>1 DEF Linked
      <4>3. h.next[n] \notin {ts, a, f}
        BY <1>3, <3>2, <4>2
      <4> QED BY <1>5, <4>1, <4>2, <4>3
    <3> QED BY <3>1, <3>2
  <2>2. ASSUME NEW n \in Nodes, g.prev[n] # Null
        PROVE  g.next[g.prev[n]] = n
    <3>1. CASE n \in {ts, a, f}
      BY <1>4, <1>5, <3>1
    <3>2. CASE n \notin {ts, a, f}
      <4>1. g.prev[n] = h.prev[n] /\ h.prev[n] \in Nodes
        BY <1>5, <1>6, <2>2, <3>2, Fields
      <4>2. h.next[h.prev[n]] = n
        BY <1>6, <2>2, <4>1 DEF Linked
      <4>3. h.prev[n] \notin {hs, hd, z}
        BY <1>3, <3>2, <4>2
      <4> QED BY <1>5, <4>1, <4>2, <4>3
    <3> QED BY <3>1, <3>2
  <2> QED BY <2>1, <2>2 DEF Linked
<1>8. Ended(g)
  <2>1. ASSUME NEW m \in Lists
        PROVE  g.prev[HeadOf(m)] = Null /\ g.next[TailOf(m)] = Null
    <3>1. /\ HeadOf(m) \in Nodes /\ TailOf(m) \in Nodes
          /\ HeadOf(m) # ts /\ HeadOf(m) # a /\ TailOf(m) # hs /\ TailOf(m) # hd /\ TailOf(m) # z
      BY <1>2, SentinelsDiffer
    <3>2. h.prev[HeadOf(m)] = Null /\ h.next[TailOf(m)] = Null
      BY <1>6 DEF Ended
    <3> HIDE DEF a, z, f, hs, hd, ts
    <3>3. HeadOf(m) # f
      BY <1>3, <1>4, <3>2
    <3> QED BY <1>5, <3>1, <3>2, <3>3
  <2> QED BY <2>1 DEF Ended
<1>9. ASSUME NEW n \in Nodes \ {hs, ts, hd, TailOf(dst)}, Unlinked(h, n)
      PROVE  Unlinked(g, n)
  <2> HIDE DEF a, z, f, hs, hd, ts
  <2>1. h.next[n] = Null /\ h.prev[n] = Null
    BY <1>9 DEF Unlinked
  <2>2. n # a /\ n # z /\ n # f
    BY <1>3, <1>4, <2>1
  <2> QED BY <1>5, <1>9, <2>1, <2>2 DEF Unlinked
<1> HIDE DEF a, z, f
<1> QED BY <1>5, <1>7, <1>8, <1>9 DEF Sound

\* The positions of one sequence behind another.
LEMMA JoinedPositions ==
  ASSUME NEW l \in Lists, NEW m \in Lists, NEW s \in Seq(Links), NEW t \in Seq(Links)
  PROVE  /\ s \o t \in Seq(Links) /\ Len(s \o t) = Len(s) + Len(t)
         /\ Len(s) \in Nat /\ Len(t) \in Nat
         /\ Pos(l, s \o t, 0) = HeadOf(l)
         /\ \A i \in 1 .. Len(s) : Pos(l, s \o t, i) = Pos(m, s, i)
         /\ \A j \in 1 .. Len(t) + 1 : Pos(l, s \o t, Len(s) + j) = Pos(l, t, j)
<1> DEFINE u == s \o t
<1>1. /\ Len(s) \in Nat /\ Len(t) \in Nat /\ u \in Seq(Links) /\ Len(u) = Len(s) + Len(t)
      /\ \A i \in 1 .. Len(s) + Len(t) : u[i] = IF i <= Len(s) THEN s[i] ELSE t[i - Len(s)]
  BY ConcatProperties, LenProperties
<1> HIDE DEF u
<1>2. ASSUME NEW i \in 1 .. Len(s)
      PROVE  Pos(l, u, i) = Pos(m, s, i)
  <2>1. i # 0 /\ i \in 1 .. Len(s) + Len(t) /\ i <= Len(s)
    BY <1>1
  <2> QED BY <1>1, <2>1 DEF Pos
<1>3. ASSUME NEW j \in 1 .. Len(t) + 1
      PROVE  Pos(l, u, Len(s) + j) = Pos(l, t, j)
  <2>1. CASE j \in 1 .. Len(t)
    <3>1. /\ Len(s) + j # 0 /\ Len(s) + j \in 1 .. Len(s) + Len(t) /\ ~(Len(s) + j <= Len(s))
          /\ (Len(s) + j) - Len(s) = j /\ j # 0
      BY <1>1, <2>1
    <3> QED BY <1>1, <2>1, <3>1 DEF Pos
  <2>2. CASE j = Len(t) + 1
    <3>1. /\ Len(s) + j # 0 /\ Len(s) + j \notin 1 .. Len(u) /\ j # 0 /\ j \notin 1 .. Len(t)
      BY <1>1, <2>2
    <3> QED BY <3>1 DEF Pos
  <2>3. j \in 1 .. Len(t) \/ j = Len(t) + 1
    BY <1>1
  <2> QED BY <2>1, <2>2, <2>3
<1>4. Pos(l, u, 0) = HeadOf(l)
  BY DEF Pos
<1> QED BY <1>1, <1>2, <1>3, <1>4 DEF u

\* The links of the moved list come before those of the other, in order.
LEMMA MovedIsStrung ==
  ASSUME NEW h, NEW o, Sound(h), Holds(h, o), NEW src \in Lists, NEW dst \in Lists, src # dst,
         Strung(h, src, o[src]), Strung(h, dst, o[dst]), o[src] # <<>>,
         NEW g, Moved(h, g, HeadOf(src), TailOf(src), HeadOf(dst),
                      o[src][1], o[src][Len(o[src])], Pos(dst, o[dst], 1))
  PROVE  /\ Strung(g, src, <<>>) /\ Strung(g, dst, o[src] \o o[dst])
         /\ \A m \in Lists \ {src, dst} : (Fresh(g, m) /\ o[m] = <<>>) \/ Strung(g, m, o[m])
<1> DEFINE s == o[src]
           t == o[dst]
           u == s \o t
           hs == HeadOf(src)
           ts == TailOf(src)
           hd == HeadOf(dst)
           a == s[1]
           z == s[Len(s)]
           f == Pos(dst, t, 1)
<1>1. /\ s \in Seq(Links) /\ t \in Seq(Links) /\ Len(s) \in Nat /\ Len(s) # 0 /\ Len(t) \in Nat
      /\ Apart(o) /\ o \in Orders /\ 1 \in 1 .. Len(s) /\ Len(s) \in 1 .. Len(s)
  <2>1. /\ s \in Seq(Links) /\ t \in Seq(Links) /\ Len(s) \in Nat /\ Len(s) # 0 /\ Len(t) \in Nat
        /\ Apart(o) /\ o \in Orders
    BY HoldsList
  <2> QED BY <2>1
<1>2. a \in Links /\ z \in Links /\ a = Pos(src, s, 1) /\ z = Pos(src, s, Len(s)) /\ hs = Pos(src, s, 0)
      /\ hd = Pos(dst, t, 0)
  BY <1>1, Positions
<1>3. /\ {a, z, f, hs, hd, ts} \subseteq Nodes /\ hs # hd /\ z # hs /\ z # hd
  BY <1>1, <1>2, NeighboursAreLinked, SentinelsDiffer
<1>4. \A n \in Nodes : g.next[n] = IF n = hs THEN ts ELSE IF n = hd THEN a
                                   ELSE IF n = z THEN f ELSE h.next[n]
  BY DEF Moved
<1>5. /\ u \in Seq(Links) /\ Len(u) = Len(s) + Len(t) /\ Pos(dst, u, 0) = hd
      /\ \A i \in 1 .. Len(s) : Pos(dst, u, i) = Pos(src, s, i)
      /\ \A j \in 1 .. Len(t) + 1 : Pos(dst, u, Len(s) + j) = Pos(dst, t, j)
  BY <1>1, JoinedPositions, ZenonT(40)
<1>6. Strung(g, src, <<>>)
  <2>1. Len(<<>>) = 0 /\ \A i \in 0 .. 0 : i = 0
    OBVIOUS
  <2>2. Pos(src, <<>>, 0) = hs /\ Pos(src, <<>>, 0 + 1) = ts
    BY DEF Pos
  <2>3. g.next[hs] = ts
    BY <1>3, <1>4
  <2> QED BY <2>1, <2>2, <2>3 DEF Strung
<1>7. Strung(g, dst, u)
  <2> SUFFICES ASSUME NEW i \in 0 .. Len(u)
               PROVE  g.next[Pos(dst, u, i)] = Pos(dst, u, i + 1)
    BY DEF Strung
  <2> HIDE DEF u, s, t, a, z, f, hs, hd, ts
  <2>1. CASE i = 0
    <3>1. Pos(dst, u, i + 1) = a
      BY <1>1, <1>2, <1>5, <2>1
    <3> QED BY <1>3, <1>4, <1>5, <2>1, <3>1
  <2>2. CASE i \in 1 .. Len(s) - 1
    <3>1. i \in 1 .. Len(s) /\ i + 1 \in 1 .. Len(s) /\ i \in 0 .. Len(s)
      BY <1>1, <2>2
    <3>2. Pos(dst, u, i) = Pos(src, s, i) /\ Pos(dst, u, i + 1) = Pos(src, s, i + 1)
      BY <1>5, <3>1
    <3>3. h.next[Pos(src, s, i)] = Pos(src, s, i + 1)
      BY <3>1 DEF Strung, s
    <3>4. Pos(src, s, i) \in Nodes /\ Pos(src, s, i) # hs /\ Pos(src, s, i) # hd /\ Pos(src, s, i) # z
      <4>1. Pos(src, s, i) \in Links
        BY <1>1, <3>1, Positions
      <4>2. i \in 0 .. Len(s) + 1 /\ Len(s) \in 0 .. Len(s) + 1 /\ i # Len(s)
        BY <1>1, <2>2
      <4>3. Pos(src, s, i) # z
        BY <1>1, <1>2, <4>2, PositionsDiffer DEF s
      <4> QED BY <4>1, <4>3, SentinelsDiffer DEF hs, hd
    <3> QED BY <1>4, <3>2, <3>3, <3>4
  <2>3. CASE i = Len(s)
    <3>1. Pos(dst, u, i) = z
      BY <1>1, <1>2, <1>5, <2>3
    <3>2. 1 \in 1 .. Len(t) + 1
      BY <1>1
    <3>3. Pos(dst, u, i + 1) = f
      BY <1>5, <2>3, <3>2 DEF f
    <3> QED BY <1>3, <1>4, <3>1, <3>3
  <2>4. CASE i \in Len(s) + 1 .. Len(s) + Len(t)
    <3> DEFINE j == i - Len(s)
    <3>1. /\ j \in 1 .. Len(t) + 1 /\ j + 1 \in 1 .. Len(t) + 1 /\ j \in 0 .. Len(t) /\ j \in 1 .. Len(t)
          /\ Len(s) + j = i /\ Len(s) + (j + 1) = i + 1
      BY <1>1, <2>4, SMTT(20)
    <3> HIDE DEF j
    <3>2. Pos(dst, u, i) = Pos(dst, t, j) /\ Pos(dst, u, i + 1) = Pos(dst, t, j + 1)
      BY <1>5, <3>1
    <3>3. h.next[Pos(dst, t, j)] = Pos(dst, t, j + 1)
      BY <3>1 DEF Strung, t
    <3>4. Pos(dst, t, j) \in Nodes /\ Pos(dst, t, j) # hs /\ Pos(dst, t, j) # hd /\ Pos(dst, t, j) # z
      <4>1. Pos(dst, t, j) \in Links
        BY <1>1, <3>1, Positions
      <4>2. j \in 0 .. Len(t) + 1 /\ Len(s) \in 0 .. Len(s) + 1
        BY <1>1, <3>1
      <4>3. Pos(dst, t, j) # z
        BY <1>1, <1>2, <4>2, PositionsDiffer DEF s, t
      <4> QED BY <4>1, <4>3, SentinelsDiffer DEF hs, hd
    <3> QED BY <1>4, <3>2, <3>3, <3>4
  <2>5. i = 0 \/ i \in 1 .. Len(s) - 1 \/ i = Len(s) \/ i \in Len(s) + 1 .. Len(s) + Len(t)
    BY <1>1, <1>5
  <2> QED BY <2>1, <2>2, <2>3, <2>4, <2>5
<1>8. ASSUME NEW m \in Lists \ {src, dst}
      PROVE  (Fresh(g, m) /\ o[m] = <<>>) \/ Strung(g, m, o[m])
  <2>1. CASE Fresh(h, m) /\ o[m] = <<>>
    <3>1. /\ HeadOf(m) \in Nodes \ {HeadOf(src), TailOf(src), HeadOf(dst), TailOf(dst)}
          /\ TailOf(m) \in Nodes \ {HeadOf(src), TailOf(src), HeadOf(dst), TailOf(dst)}
      BY SentinelsDiffer
    <3>2. \A n \in Nodes \ {HeadOf(src), TailOf(src), HeadOf(dst), TailOf(dst)} :
            Unlinked(h, n) => Unlinked(g, n)
      BY MovedIsSound
    <3> QED BY <2>1, <3>1, <3>2 DEF Fresh
  <2>2. CASE Strung(h, m, o[m])
    <3>0. o[m] \in Seq(Links) /\ Len(o[m]) \in Nat
      BY HoldsList
    <3>1. ASSUME NEW i \in 0 .. Len(o[m])
          PROVE  /\ Pos(m, o[m], i) \in Nodes
                 /\ Pos(m, o[m], i) # hs /\ Pos(m, o[m], i) # hd /\ Pos(m, o[m], i) # z
      <4>1. /\ i \in 0 .. Len(o[m]) + 1 /\ 0 \in 0 .. Len(s) + 1 /\ Len(s) \in 0 .. Len(s) + 1
            /\ 0 \in 0 .. Len(t) + 1
        BY <1>1, <3>0
      <4>2. Pos(m, o[m], i) # Pos(src, s, 0) /\ Pos(m, o[m], i) # Pos(src, s, Len(s))
        BY <1>1, <4>1, PositionsDiffer
      <4>3. Pos(m, o[m], i) # Pos(dst, t, 0)
        BY <1>1, <4>1, PositionsDiffer
      <4> HIDE DEF s, t, hs, hd, z
      <4> QED BY <1>2, <3>0, <4>1, <4>2, <4>3, Positions
    <3> HIDE DEF s, t, hs, hd, z, a, f, ts
    <3> QED BY <1>4, <2>2, <3>1 DEF Strung
  <2> QED BY <2>1, <2>2, HoldsList
<1> QED BY <1>6, <1>7, <1>8

\* The sequences after the move.
Joined(o, src, dst) == [o EXCEPT ![dst] = o[src] \o @, ![src] = <<>>]

\* The links are still apart.
LEMMA MovedApart ==
  ASSUME NEW o \in Orders, Apart(o), NEW src \in Lists, NEW dst \in Lists, src # dst
  PROVE  /\ Joined(o, src, dst) \in Orders /\ Apart(Joined(o, src, dst))
         /\ Joined(o, src, dst)[src] = <<>> /\ Joined(o, src, dst)[dst] = o[src] \o o[dst]
         /\ \A m \in Lists \ {src, dst} : Joined(o, src, dst)[m] = o[m]
<1> DEFINE s == o[src]
           t == o[dst]
           w == Joined(o, src, dst)
<1>1. s \in Seq(Links) /\ t \in Seq(Links)
  BY DEF Orders
<1>2. /\ Len(s) \in Nat /\ Len(t) \in Nat /\ s \o t \in Seq(Links) /\ Len(s \o t) = Len(s) + Len(t)
      /\ \A i \in 1 .. Len(s) + Len(t) : (s \o t)[i] = IF i <= Len(s) THEN s[i] ELSE t[i - Len(s)]
  BY <1>1, ConcatProperties, LenProperties
<1>3. /\ w \in Orders /\ w[src] = <<>> /\ w[dst] = s \o t
      /\ \A m \in Lists \ {src, dst} : w[m] = o[m]
  <2>1. <<>> \in Seq(Links) /\ s \o t \in Seq(Links)
    BY <1>2, EmptySeq
  <2>2. o \in [Lists -> Seq(Links)]
    BY DEF Orders
  <2>3. w = [o EXCEPT ![dst] = s \o t, ![src] = <<>>]
    BY DEF Joined
  <2> DEFINE e == <<>>
             u == s \o t
  <2> HIDE DEF s, t, e, u, w
  <2>4. e \in Seq(Links) /\ u \in Seq(Links) /\ w = [o EXCEPT ![dst] = u, ![src] = e]
    BY <2>1, <2>3 DEF e, u
  <2>5. /\ w \in [Lists -> Seq(Links)] /\ w[src] = e /\ w[dst] = u
        /\ \A m \in Lists \ {src, dst} : w[m] = o[m]
    BY <2>2, <2>4
  <2> QED BY <2>5 DEF Orders, e, u
<1> HIDE DEF w
<1> DEFINE where(m, i) == IF m # dst THEN m ELSE IF i <= Len(s) THEN src ELSE dst
           old(m, i)   == IF m # dst THEN i ELSE IF i <= Len(s) THEN i ELSE i - Len(s)
<1>4. ASSUME NEW m \in Lists, NEW i \in 1 .. Len(w[m])
      PROVE  /\ m # src /\ i \in Nat
             /\ where(m, i) \in Lists /\ old(m, i) \in 1 .. Len(o[where(m, i)])
             /\ w[m][i] = o[where(m, i)][old(m, i)]
  <2>1. CASE m = dst
    <3>1. i \in 1 .. Len(s) + Len(t) /\ i \in Nat /\ w[m][i] = IF i <= Len(s) THEN s[i] ELSE t[i - Len(s)]
      <4>1. w[m] = s \o t
        BY <1>3, <2>1
      <4>2. i \in 1 .. Len(s) + Len(t)
        BY <1>2, <4>1
      <4>3. (s \o t)[i] = IF i <= Len(s) THEN s[i] ELSE t[i - Len(s)]
        BY <1>2, <4>2
      <4>4. i \in Nat
        BY <1>2, <4>2
      <4> HIDE DEF s, t
      <4> QED BY <4>1, <4>2, <4>3, <4>4
    <3>2. CASE i <= Len(s)
      <4>1. i \in 1 .. Len(s) /\ where(m, i) = src /\ old(m, i) = i
        BY <1>2, <2>1, <3>1, <3>2
      <4> QED BY <2>1, <3>1, <3>2, <4>1
    <3>3. CASE ~(i <= Len(s))
      <4>1. where(m, i) = dst /\ old(m, i) = i - Len(s)
        BY <2>1, <3>3
      <4>2. i - Len(s) \in 1 .. Len(t)
        <5> DEFINE a == Len(s)
                   b == Len(t)
        <5>1. a \in Nat /\ b \in Nat /\ i \in 1 .. a + b /\ ~(i <= a)
          BY <1>2, <3>1, <3>3
        <5> HIDE DEF a, b
        <5>2. i - a \in 1 .. b
          BY <5>1
        <5> QED BY <5>2 DEF a, b
      <4> QED BY <2>1, <3>1, <3>3, <4>1, <4>2
    <3> QED BY <3>2, <3>3
  <2>2. CASE m = src
    <3>1. Len(w[m]) = 0
      BY <1>3, <2>2
    <3> QED BY <3>1
  <2>3. CASE m # dst /\ m # src
    <3>1. w[m] = o[m] /\ where(m, i) = m /\ old(m, i) = i
      BY <1>3, <2>3
    <3> QED BY <2>3, <3>1
  <2> QED BY <2>1, <2>2, <2>3
<1>5. ASSUME NEW m \in Lists, NEW n \in Lists, NEW i \in 1 .. Len(w[m]), NEW j \in 1 .. Len(w[n]),
             w[m][i] = w[n][j]
      PROVE  m = n /\ i = j
  <2>1. m # src /\ n # src /\ i \in Nat /\ j \in Nat
    BY <1>4
  <2>2. where(m, i) = where(n, j) /\ old(m, i) = old(n, j)
    <3> HIDE DEF where, old, s, t
    <3>1. /\ where(m, i) \in Lists /\ old(m, i) \in 1 .. Len(o[where(m, i)])
          /\ w[m][i] = o[where(m, i)][old(m, i)]
      BY <1>4
    <3>2. /\ where(n, j) \in Lists /\ old(n, j) \in 1 .. Len(o[where(n, j)])
          /\ w[n][j] = o[where(n, j)][old(n, j)]
      BY <1>4
    <3>3. o[where(m, i)][old(m, i)] = o[where(n, j)][old(n, j)]
      BY <1>5, <3>1, <3>2
    <3> QED BY <3>1, <3>2, <3>3 DEF Apart
  <2>3. m = n
    BY <2>1, <2>2
  <2> HIDE DEF s
  <2> QED BY <1>2, <2>1, <2>2, <2>3
<1> QED BY <1>3, <1>5 DEF Apart, w

\* move_to_front_of.
LEMMA MoveHolds ==
  ASSUME NEW h, NEW o, Sound(h), Holds(h, o), NEW src \in Lists, NEW dst \in Lists, src # dst
  PROVE  /\ Sound(MoveToFrontOf(h, src, dst))
         /\ Holds(MoveToFrontOf(h, src, dst), Joined(o, src, dst))
         /\ \A n \in Nodes \ {HeadOf(src), TailOf(src), HeadOf(dst), TailOf(dst)} :
              Unlinked(h, n) => Unlinked(MoveToFrontOf(h, src, dst), n)
<1> DEFINE k == MaybeInit(MaybeInit(h, src), dst)
           g == MoveToFrontOf(h, src, dst)
           s == o[src]
           t == o[dst]
           w == Joined(o, src, dst)
<1>1. /\ Sound(k) /\ Holds(k, o) /\ Strung(k, src, s) /\ Strung(k, dst, t)
      /\ \A n \in Nodes \ {HeadOf(src), TailOf(src), HeadOf(dst), TailOf(dst)} :
           Unlinked(h, n) => Unlinked(k, n)
  BY BothInitialised
<1>2. /\ s \in Seq(Links) /\ t \in Seq(Links) /\ Len(s) \in Nat /\ (s = <<>> <=> Len(s) = 0)
      /\ o \in Orders /\ Apart(o)
  BY HoldsList
<1>3. CASE s = <<>>
  <2>1. k.next[HeadOf(src)] = TailOf(src)
    <3>1. k.next[HeadOf(src)] = Pos(src, s, 1)
      BY <1>1, <1>2, StrungBack
    <3>2. Len(s) + 1 = 1
      BY <1>2, <1>3
    <3>3. Pos(src, s, Len(s) + 1) = TailOf(src)
      BY <1>2, Positions
    <3> HIDE DEF s, k
    <3> QED BY <3>1, <3>2, <3>3
  <2>2. g = k
    BY <2>1 DEF MoveToFrontOf, IsEmpty
  <2>3. w = o
    <3>1. <<>> \o t = t
      BY <1>2, ConcatEmptySeq
    <3> QED BY <1>2, <1>3, <3>1 DEF Orders, Joined
  <2> QED BY <1>1, <2>2, <2>3
<1>4. CASE s # <<>>
  <2>1. /\ 1 \in 1 .. Len(s) /\ Len(s) \in 1 .. Len(s)
    BY <1>2, <1>4
  <2>2. /\ s[1] \in Links /\ s[Len(s)] \in Links
        /\ s[1] = Pos(src, s, 1) /\ s[Len(s)] = Pos(src, s, Len(s))
    BY <1>2, <2>1, Positions
  <2>3. /\ s[1] = k.next[HeadOf(src)] /\ s[Len(s)] = k.prev[TailOf(src)]
        /\ Pos(dst, t, 1) = k.next[HeadOf(dst)] /\ Pos(dst, t, 1) \in Nodes
    <3> HIDE DEF k
    <3> QED BY <1>1, <1>2, <2>2, StrungBack, NeighboursAreLinked
  <2>4. Pos(dst, t, 1) # TailOf(src) /\ Pos(dst, t, 1) # s[1]
    <3>1. /\ 1 \in 0 .. Len(t) + 1 /\ 1 \in 0 .. Len(s) + 1 /\ Len(s) + 1 \in 0 .. Len(s) + 1
      <4>1. Len(t) \in Nat
        BY <1>2, LenProperties
      <4> QED BY <1>2, <4>1
    <3>2. Pos(src, s, Len(s) + 1) = TailOf(src)
      BY <1>2, Positions
    <3> QED BY <1>2, <2>2, <3>1, <3>2, PositionsDiffer
  <2>5. Moved(k, g, HeadOf(src), TailOf(src), HeadOf(dst), s[1], s[Len(s)], Pos(dst, t, 1))
    <3> DEFINE f == Pos(dst, t, 1)
    <3> HIDE DEF f, s, g
    <3>1. f = k.next[HeadOf(dst)] /\ f \in Nodes /\ f # TailOf(src) /\ f # s[1]
      BY <2>3, <2>4 DEF f
    <3>2. Moved(k, g, HeadOf(src), TailOf(src), HeadOf(dst), s[1], s[Len(s)], f)
      BY <1>1, <2>2, <2>3, <3>1, MoveFields DEF g
    <3> QED BY <3>2 DEF f
  <2>6. /\ w \in Orders /\ Apart(w) /\ w[src] = <<>> /\ w[dst] = s \o t
        /\ \A m \in Lists \ {src, dst} : w[m] = o[m]
    BY <1>2, MovedApart
  <2> HIDE DEF k, g, w
  <2>7. /\ Sound(g)
        /\ \A n \in Nodes \ {HeadOf(src), TailOf(src), HeadOf(dst), TailOf(dst)} :
             Unlinked(k, n) => Unlinked(g, n)
    BY <1>1, <1>4, <2>5, MovedIsSound
  <2>8. /\ Strung(g, src, <<>>) /\ Strung(g, dst, s \o t)
        /\ \A m \in Lists \ {src, dst} : (Fresh(g, m) /\ o[m] = <<>>) \/ Strung(g, m, o[m])
    BY <1>1, <1>4, <2>5, MovedIsStrung
  <2>9. Holds(g, w)
    <3> HIDE DEF s, t
    <3>1. ASSUME NEW m \in Lists
          PROVE  (Fresh(g, m) /\ w[m] = <<>>) \/ Strung(g, m, w[m])
      BY <2>6, <2>8
    <3> QED BY <2>6, <3>1 DEF Holds
  <2> QED BY <1>1, <2>7, <2>9 DEF w, g
<1> QED BY <1>3, <1>4

----------------------------------------------------------------------------
(* Iterating.                                                              *)

\* A set of natural numbers that is not empty has a least one.
LEMMA LeastNumber ==
  ASSUME NEW T \in SUBSET Nat, T # {}
  PROVE  \E n \in T : \A m \in T : n <= m
<1> DEFINE R == OpToRel(<, Nat)
<1>1. IsWellFoundedOn(R, Nat)
  BY NatLessThanWellFounded, Zenon
<1>2. \A m, n \in Nat : m < n => <<m, n>> \in R
  BY Zenon DEF OpToRel
<1> HIDE DEF R
<1>3. PICK n \in T : \A m \in T : ~(<<m, n>> \in R)
  BY <1>1, WFMin
<1>4. ASSUME NEW m \in T
      PROVE  n <= m
  <2>1. m \in Nat /\ n \in Nat
    OBVIOUS
  <2>2. ~(m < n)
    BY <1>2, <1>3, <2>1
  <2> QED BY <2>1, <2>2
<1> QED BY <1>4

\* There are finitely many nodes.
LEMMA NodesAreFinite ==
  IsFiniteSet(Nodes) /\ Cardinality(Nodes) \in Nat
<1> DEFINE heads == {HeadOf(l) : l \in Lists}
           tails == {TailOf(l) : l \in Lists}
<1>1. IsFiniteSet(heads)
  <2> DEFINE f == [n \in heads |-> n[1]]
  <2>1. f \in [heads -> Lists] /\ \A a, b \in heads : f[a] = f[b] => a = b
    BY DEF HeadOf
  <2>2. f \in Injection(heads, Lists)
    BY <2>1, Fun_IsInj
  <2> QED BY <2>2, FiniteAssumption, FS_Injection
<1>2. IsFiniteSet(tails)
  <2> DEFINE f == [n \in tails |-> n[1]]
  <2>1. f \in [tails -> Lists] /\ \A a, b \in tails : f[a] = f[b] => a = b
    BY DEF TailOf
  <2>2. f \in Injection(tails, Lists)
    BY <2>1, Fun_IsInj
  <2> QED BY <2>2, FiniteAssumption, FS_Injection
<1>3. Nodes = Links \cup (heads \cup tails)
  BY DEF Nodes, Sentinels
<1> HIDE DEF heads, tails
<1>4. IsFiniteSet(heads \cup tails)
  BY <1>1, <1>2, FS_Union
<1>5. IsFiniteSet(Nodes)
  BY <1>3, <1>4, FiniteAssumption, FS_Union
<1> QED BY <1>5, FS_CardinalityType

\* A list has fewer links than there are nodes.
LEMMA ListsAreShort ==
  ASSUME NEW o \in Orders, Apart(o), NEW l \in Lists
  PROVE  Len(o[l]) + 1 <= Cardinality(Nodes)
<1> DEFINE s == o[l]
           N == Len(s) + 1
           f == [i \in 1 .. N |-> Pos(l, s, i)]
<1>1. s \in Seq(Links) /\ Len(s) \in Nat /\ N \in Nat
  BY LenProperties DEF Orders
<1>2. \A i \in 1 .. N : Pos(l, s, i) \in Nodes
  BY <1>1, Positions
<1>3. \A i, j \in 1 .. N : Pos(l, s, i) = Pos(l, s, j) => i = j
  BY <1>1, PositionsDiffer
<1>4. f \in Injection(1 .. N, Nodes)
  <2>1. f \in [1 .. N -> Nodes] /\ \A i, j \in 1 .. N : f[i] = f[j] => i = j
    BY <1>2, <1>3
  <2> HIDE DEF f
  <2> QED BY <2>1, Fun_IsInj
<1> HIDE DEF N, f, s
<1>5. Cardinality(1 .. N) <= Cardinality(Nodes)
  BY <1>4, NodesAreFinite, FS_Injection
<1>6. Cardinality(1 .. N) = N
  <2>1. 1 \in Int /\ N \in Int
    BY <1>1
  <2>2. Cardinality(1 .. N) = IF 1 > N THEN 0 ELSE N - 1 + 1
    BY <2>1, FS_Interval
  <2> QED BY <1>1, <2>2
<1>7. Cardinality(1 .. N) \in Nat /\ Cardinality(Nodes) \in Nat
  BY <1>1, <1>6, NodesAreFinite
<1> QED BY <1>5, <1>6, <1>7 DEF N, s

\* One step of the walk, as Walk takes it.
StepOf(h, l) == [n \in Nodes \cup {Null} |-> IF n \in {TailOf(l), Null} THEN n ELSE h.next[n]]

\* The function f takes these steps.
Walks(f, h, l) ==
  f = [k \in 0 .. Cardinality(Nodes) |-> IF k = 0 THEN HeadOf(l) ELSE StepOf(h, l)[f[k - 1]]]

\* A function that takes these steps is the walk, and there is only one.
LEMMA WalkIs ==
  ASSUME NEW h, NEW l \in Lists, NEW A, Walks(A, h, l)
  PROVE  Walk(h, l) = A
<1> DEFINE N == Cardinality(Nodes)
           P(f) == f = [k \in 0 .. N |-> IF k = 0 THEN HeadOf(l) ELSE StepOf(h, l)[f[k - 1]]]
           W == CHOOSE f : P(f)
<1>1. Walk(h, l) = W
  BY DEF Walk, StepOf
<1>2. P(A)
  BY DEF Walks
<1>3. P(W)
  <2> HIDE DEF P
  <2> QED BY <1>2
<1>4. N \in Nat
  BY NodesAreFinite
<1> DEFINE T == {k \in 0 .. N : A[k] # W[k]}
<1> HIDE DEF W, N
<1>5. ASSUME NEW k \in 0 .. N
      PROVE  /\ A[k] = IF k = 0 THEN HeadOf(l) ELSE StepOf(h, l)[A[k - 1]]
             /\ W[k] = IF k = 0 THEN HeadOf(l) ELSE StepOf(h, l)[W[k - 1]]
  <2>1. A = [i \in 0 .. N |-> IF i = 0 THEN HeadOf(l) ELSE StepOf(h, l)[A[i - 1]]]
    BY <1>2
  <2>2. W = [i \in 0 .. N |-> IF i = 0 THEN HeadOf(l) ELSE StepOf(h, l)[W[i - 1]]]
    BY <1>3
  <2> QED BY <2>1, <2>2
<1>6. T = {}
  <2> SUFFICES ASSUME T # {} PROVE FALSE
    OBVIOUS
  <2>1. T \in SUBSET Nat
    BY <1>4
  <2>2. PICK n \in T : \A m \in T : n <= m
    <3> HIDE DEF T
    <3> QED BY <2>1, LeastNumber
  <2>3. n \in 0 .. N /\ A[n] # W[n]
    OBVIOUS
  <2>4. n # 0
    BY <1>5, <2>3
  <2>5. n - 1 \in 0 .. N /\ ~(n <= n - 1)
    BY <1>4, <2>3, <2>4
  <2>6. A[n - 1] = W[n - 1]
    BY <2>2, <2>5
  <2> QED BY <1>5, <2>3, <2>4, <2>6
<1>7. \A k \in 0 .. N : A[k] = W[k]
  BY <1>6
<1>8. A = W
  <2>1. A = [k \in 0 .. N |-> A[k]] /\ W = [k \in 0 .. N |-> W[k]]
    BY <1>2, <1>3
  <2> QED BY <1>7, <2>1
<1> QED BY <1>1, <1>8

\* What a walk of these nodes yields.
LEMMA Yields ==
  ASSUME NEW h, NEW l \in Lists, NEW s \in Seq(Links), Len(s) <= Cardinality(Nodes),
         \A k \in 1 .. Cardinality(Nodes) :
           IF k <= Len(s) THEN Walk(h, l)[k] = s[k] ELSE Walk(h, l)[k] \in {TailOf(l), Null}
  PROVE  Forward(h, l) = s
<1> DEFINE N     == Cardinality(Nodes)
           W     == Walk(h, l)
           steps == {k \in 1 .. N : W[k] \notin {TailOf(l), Null}}
<1>1. N \in Nat /\ Len(s) \in Nat /\ Len(s) <= N
  BY NodesAreFinite, LenProperties
<1>2. Forward(h, l) = [k \in 1 .. Cardinality(steps) |-> W[k]]
  BY DEF Forward
<1> HIDE DEF W, N
<1>3. \A k \in 1 .. N : IF k <= Len(s) THEN W[k] = s[k] ELSE W[k] \in {TailOf(l), Null}
  BY DEF W, N
<1>4. \A k \in 1 .. Len(s) : s[k] \in Links /\ s[k] # TailOf(l) /\ s[k] # Null
  BY ElementOfSeq, SentinelsDiffer
<1>5. steps = 1 .. Len(s)
  <2>1. ASSUME NEW k \in 1 .. N
        PROVE  W[k] \notin {TailOf(l), Null} <=> k \in 1 .. Len(s)
    <3>1. CASE k <= Len(s)
      <4>1. k \in 1 .. Len(s)
        BY <1>1, <3>1
      <4> QED BY <1>3, <1>4, <3>1, <4>1
    <3>2. CASE ~(k <= Len(s))
      <4>1. k \notin 1 .. Len(s)
        BY <1>1, <3>2
      <4> QED BY <1>3, <3>2, <4>1
    <3> QED BY <3>1, <3>2
  <2>2. \A k \in 1 .. Len(s) : k \in 1 .. N
    BY <1>1
  <2> QED BY <2>1, <2>2
<1>6. Cardinality(steps) = Len(s)
  <2>1. Cardinality(1 .. Len(s)) = IF 1 > Len(s) THEN 0 ELSE Len(s) - 1 + 1
    <3>1. 1 \in Int /\ Len(s) \in Int
      BY <1>1
    <3> QED BY <3>1, FS_Interval
  <2>2. Cardinality(1 .. Len(s)) = Len(s)
    BY <1>1, <2>1
  <2> HIDE DEF steps
  <2> QED BY <1>5, <2>2
<1>7. \A k \in 1 .. Len(s) : W[k] = s[k]
  <2>1. ASSUME NEW k \in 1 .. Len(s)
        PROVE  k \in 1 .. N /\ k <= Len(s)
    BY <1>1
  <2> QED BY <1>3, <2>1
<1>8. [k \in 1 .. Len(s) |-> W[k]] = s
  <2> DEFINE u == [k \in 1 .. Len(s) |-> W[k]]
  <2>1. /\ u \in Seq(Links) /\ Len(u) = Len(s)
        /\ \A k \in 1 .. Len(s) : u[k] = s[k]
    BY <1>1, <1>4, <1>7
  <2> HIDE DEF u
  <2>2. u = s
    BY <2>1, SeqEqual
  <2> QED BY <2>2 DEF u
<1> QED BY <1>2, <1>6, <1>8

\* Iterating a list yields its links, first to last.
LEMMA ForwardYieldsTheList ==
  ASSUME NEW h, NEW o, Sound(h), Holds(h, o), NEW l \in Lists
  PROVE  Forward(h, l) = o[l]
<1> DEFINE s == o[l]
           N == Cardinality(Nodes)
           p(k) == IF k <= Len(s) THEN Pos(l, s, k) ELSE TailOf(l)
<1>1. /\ o \in Orders /\ Apart(o) /\ s \in Seq(Links) /\ Len(s) \in Nat
      /\ N \in Nat /\ Len(s) + 1 <= N
  BY HoldsList, NodesAreFinite, ListsAreShort
<1>2. /\ HeadOf(l) \in Nodes /\ TailOf(l) \in Nodes /\ HeadOf(l) # TailOf(l) /\ Null \notin Nodes
  BY SentinelsDiffer
<1>3. /\ StepOf(h, l)[TailOf(l)] = TailOf(l) /\ StepOf(h, l)[Null] = Null
      /\ \A n \in Nodes : n # TailOf(l) => StepOf(h, l)[n] = h.next[n]
  BY <1>2 DEF StepOf
<1>4. CASE Fresh(h, l) /\ s = <<>>
  <2> DEFINE A == [k \in 0 .. N |-> IF k = 0 THEN HeadOf(l) ELSE Null]
  <2>1. ASSUME NEW k \in 0 .. N
        PROVE  A[k] = IF k = 0 THEN HeadOf(l) ELSE StepOf(h, l)[A[k - 1]]
    <3>1. CASE k = 0
      BY <3>1
    <3>2. CASE k = 1
      <4>1. k - 1 \in 0 .. N /\ A[k - 1] = HeadOf(l) /\ A[k] = Null
        BY <1>1, <3>2
      <4>2. StepOf(h, l)[HeadOf(l)] = Null
        BY <1>2, <1>3, <1>4 DEF Fresh, Unlinked
      <4> HIDE DEF A
      <4> QED BY <3>2, <4>1, <4>2
    <3>3. CASE k > 1
      <4>1. k - 1 \in 0 .. N /\ k - 1 # 0 /\ k # 0
        BY <1>1, <3>3
      <4>2. A[k - 1] = Null /\ A[k] = Null
        BY <4>1
      <4> HIDE DEF A
      <4> QED BY <1>3, <4>1, <4>2
    <3>4. k = 0 \/ k = 1 \/ k > 1
      BY <1>1
    <3> QED BY <3>1, <3>2, <3>3, <3>4
  <2>2. A = [k \in 0 .. N |-> IF k = 0 THEN HeadOf(l) ELSE StepOf(h, l)[A[k - 1]]]
    <3>1. A = [k \in 0 .. N |-> A[k]]
      OBVIOUS
    <3> HIDE DEF A
    <3> QED BY <2>1, <3>1
  <2>3. \A k \in 1 .. N : A[k] = Null
    BY <1>1
  <2> HIDE DEF A
  <2>4. Walk(h, l) = A
    <3>1. Walks(A, h, l)
      BY <2>2 DEF Walks
    <3> QED BY <3>1, WalkIs
  <2>5. \A k \in 1 .. N : ~(k <= Len(s))
    BY <1>4
  <2>6. Len(s) <= N
    BY <1>1
  <2> QED BY <1>1, <2>3, <2>4, <2>5, <2>6, Yields
<1>5. CASE Strung(h, l, s)
  <2> DEFINE A == [k \in 0 .. N |-> p(k)]
  <2>0. /\ p(0) = HeadOf(l) /\ p(Len(s) + 1) = TailOf(l)
        /\ Pos(l, s, Len(s) + 1) = TailOf(l)
    BY <1>1, Positions
  <2>1. ASSUME NEW k \in 1 .. N
        PROVE  p(k) = StepOf(h, l)[p(k - 1)]
    <3>1. CASE k - 1 <= Len(s)
      <4>1. /\ k - 1 \in 0 .. Len(s) /\ k - 1 \in 0 .. Len(s) + 1 /\ Len(s) + 1 \in 0 .. Len(s) + 1
            /\ k - 1 # Len(s) + 1 /\ (k - 1) + 1 = k
        BY <1>1, <3>1
      <4>2. Pos(l, s, k - 1) \in Nodes /\ Pos(l, s, k - 1) # TailOf(l)
        BY <1>1, <2>0, <4>1, Positions, PositionsDiffer
      <4>3. h.next[Pos(l, s, k - 1)] = Pos(l, s, k)
        BY <1>5, <4>1 DEF Strung
      <4>4. p(k - 1) = Pos(l, s, k - 1)
        BY <3>1
      <4>5. p(k) = Pos(l, s, k)
        <5>1. k <= Len(s) \/ k = Len(s) + 1
          BY <1>1, <3>1
        <5> QED BY <2>0, <5>1
      <4> HIDE DEF p
      <4> QED BY <1>3, <4>2, <4>3, <4>4, <4>5
    <3>2. CASE ~(k - 1 <= Len(s))
      <4>1. ~(k <= Len(s))
        BY <1>1, <3>2
      <4> QED BY <1>3, <3>2, <4>1
    <3> QED BY <3>1, <3>2
  <2>2. A = [k \in 0 .. N |-> IF k = 0 THEN HeadOf(l) ELSE StepOf(h, l)[A[k - 1]]]
    <3>1. A = [k \in 0 .. N |-> A[k]] /\ \A k \in 0 .. N : A[k] = p(k)
      OBVIOUS
    <3> HIDE DEF A, p
    <3>2. ASSUME NEW k \in 0 .. N
          PROVE  A[k] = IF k = 0 THEN HeadOf(l) ELSE StepOf(h, l)[A[k - 1]]
      <4>1. CASE k = 0
        BY <2>0, <3>1, <4>1
      <4>2. CASE k # 0
        <5>1. k \in 1 .. N /\ k - 1 \in 0 .. N
          BY <1>1, <4>2
        <5>2. A[k] = p(k) /\ A[k - 1] = p(k - 1)
          BY <3>1, <5>1
        <5> QED BY <2>1, <4>2, <5>1, <5>2
      <4> QED BY <4>1, <4>2
    <3> QED BY <3>1, <3>2
  <2>3. ASSUME NEW k \in 1 .. N
        PROVE  IF k <= Len(s) THEN A[k] = s[k] ELSE A[k] = TailOf(l)
    <3>1. A[k] = p(k)
      BY <1>1
    <3>2. CASE k <= Len(s)
      <4>1. k \in 1 .. Len(s)
        BY <1>1, <3>2
      <4>2. Pos(l, s, k) = s[k]
        BY <1>1, <4>1, Positions
      <4> HIDE DEF A
      <4> QED BY <3>1, <3>2, <4>2
    <3>3. CASE ~(k <= Len(s))
      BY <3>1, <3>3
    <3> QED BY <3>2, <3>3
  <2> HIDE DEF A
  <2>4. Walk(h, l) = A
    <3>1. Walks(A, h, l)
      BY <2>2 DEF Walks
    <3> QED BY <3>1, WalkIs
  <2>5. Len(s) <= N
    BY <1>1
  <2> QED BY <1>1, <2>3, <2>4, <2>5, Yields
<1> QED BY <1>4, <1>5, HoldsList

----------------------------------------------------------------------------
(* The invariant.                                                          *)

\* Every heap the program reaches is sound and holds the sequences that its
\* iterators yield; lists that do not exist have untouched sentinels.
Inv ==
  /\ TypeOK
  /\ Sound(heap)
  /\ Holds(heap, Order)
  /\ \A l \in Lists \ lists : Fresh(heap, l)

\* The sequences a sound heap holds are those its iterators yield.
LEMMA TheyAreTheOrder ==
  ASSUME NEW h, NEW o, Sound(h), Holds(h, o)
  PROVE  [l \in Lists |-> Forward(h, l)] = o
<1>1. o \in Orders /\ \A l \in Lists : Forward(h, l) = o[l]
  BY ForwardYieldsTheList DEF Holds
<1>2. o = [l \in Lists |-> o[l]]
  BY <1>1 DEF Orders
<1> QED BY <1>1, <1>2

\* A step that leaves a sound heap, and touches nothing that does not exist,
\* keeps the invariant, and the order after it is the one the heap holds.
LEMMA Preserved ==
  ASSUME Inv, NEW w, Sound(heap'), Holds(heap', w),
         live' \subseteq Links, lists' \subseteq Lists,
         \A x \in Links \ live' : Unlinked(heap', x),
         \A l \in Lists \ lists' : Fresh(heap', l)
  PROVE  Inv' /\ Order' = w
<1>1. Order' = w
  BY TheyAreTheOrder DEF Order
<1>2. TypeOK'
  BY DEF TypeOK, Sound
<1> QED BY <1>1, <1>2 DEF Inv

\* Most steps leave the links and the lists that exist, and untie no node but
\* those of the lists they are called on.
LEMMA PreservedOn ==
  ASSUME Inv, NEW w, Sound(heap'), Holds(heap', w), UNCHANGED <<live, lists>>,
         NEW X \in SUBSET live, NEW L \in SUBSET lists,
         \A n \in Nodes : Unlinked(heap, n) => \/ Unlinked(heap', n) \/ n \in X
                                               \/ \E l \in L : n \in {HeadOf(l), TailOf(l)}
  PROVE  Inv' /\ Order' = w
<1>1. ASSUME NEW x \in Links \ live
      PROVE  Unlinked(heap', x)
  <2>1. Unlinked(heap, x) /\ x \in Nodes /\ x \notin X
    BY SentinelsDiffer DEF Inv, TypeOK
  <2>2. \A l \in L : x # HeadOf(l) /\ x # TailOf(l)
    BY SentinelsDiffer DEF Inv, TypeOK
  <2> QED BY <2>1, <2>2
<1>2. ASSUME NEW m \in Lists \ lists
      PROVE  Fresh(heap', m)
  <2>1. Fresh(heap, m) /\ HeadOf(m) \in Nodes /\ TailOf(m) \in Nodes
    BY SentinelsDiffer DEF Inv
  <2>2. HeadOf(m) \notin X /\ TailOf(m) \notin X
    BY SentinelsDiffer DEF Inv, TypeOK
  <2>3. ASSUME NEW l \in L
        PROVE  HeadOf(m) \notin {HeadOf(l), TailOf(l)} /\ TailOf(m) \notin {HeadOf(l), TailOf(l)}
    <3>1. l \in Lists /\ l # m
      BY DEF Inv, TypeOK
    <3> QED BY <3>1, SentinelsDiffer
  <2> QED BY <2>1, <2>2, <2>3 DEF Fresh
<1>3. /\ live' \subseteq Links /\ lists' \subseteq Lists
      /\ \A x \in Links \ live' : Unlinked(heap', x)
      /\ \A l \in Lists \ lists' : Fresh(heap', l)
  BY <1>1, <1>2 DEF Inv, TypeOK
<1> QED BY <1>3, Preserved

\* In the beginning every sentinel is null, and so is every list.
LEMMA InitHolds ==
  ASSUME Init
  PROVE  Inv /\ Order = [l \in Lists |-> <<>>]
<1> DEFINE o == [l \in Lists |-> <<>>]
<1>1. /\ heap \in Heaps /\ \A n \in Nodes : heap.next[n] = Null /\ heap.prev[n] = Null
  BY DEF Init, EmptyHeap, Heaps
<1>2. Sound(heap) /\ \A l \in Lists : Fresh(heap, l)
  BY <1>1, SentinelsDiffer DEF Sound, Linked, Ended, Fresh, Unlinked
<1>3. Holds(heap, o)
  <2>1. o \in Orders /\ \A l \in Lists : o[l] = <<>> /\ Len(o[l]) = 0
    BY DEF Orders
  <2> HIDE DEF o
  <2>2. Apart(o)
    <3>1. ASSUME NEW l \in Lists, NEW i \in 1 .. Len(o[l])
          PROVE  FALSE
      BY <2>1
    <3> QED BY <3>1 DEF Apart
  <2> QED BY <1>2, <2>1, <2>2 DEF Holds
<1>4. Order = o
  <2> HIDE DEF o
  <2> QED BY <1>2, <1>3, TheyAreTheOrder DEF Order
<1>5. TypeOK
  BY <1>1, SentinelsDiffer DEF Init, TypeOK, Unlinked
<1> HIDE DEF o
<1>6. Inv
  BY <1>2, <1>3, <1>4, <1>5 DEF Inv
<1> QED BY <1>4, <1>6 DEF o

----------------------------------------------------------------------------
(* The operations.                                                         *)

\* A link that is unlinked is in no list.
LEMMA NotAMember ==
  ASSUME Inv, NEW x \in Links, Unlinked(heap, x)
  PROVE  ~Abstract!Member(x)
<1> SUFFICES ASSUME NEW l \in Lists, x \in Abstract!Range(Order[l])
             PROVE  FALSE
  BY DEF Abstract!Member
<1>1. Order[l] \in Seq(Links)
  BY HoldsList DEF Inv
<1>2. PICK i \in 1 .. Len(Order[l]) : x = Order[l][i]
  BY <1>1 DEF Abstract!Range
<1> QED BY <1>2, MembersAreLinked DEF Inv

\* push_link_front and push_link_back.
LEMMA PushFrontRefines ==
  ASSUME Inv, NEW l \in Lists, NEW x \in Links, PushLinkFront(l, x)
  PROVE  Inv' /\ Abstract!PushFront(l, x)
<1> DEFINE w == [Order EXCEPT ![l] = <<x>> \o @]
<1>1. /\ Sound(heap) /\ Holds(heap, Order) /\ Unlinked(heap, x)
      /\ heap' = PushFront(heap, l, x) /\ UNCHANGED <<live, lists>>
      /\ l \in lists /\ x \in live
  BY DEF Inv, PushLinkFront
<1>2. /\ Sound(heap') /\ Holds(heap', w)
      /\ \A n \in Nodes \ {x, HeadOf(l), TailOf(l)} : Unlinked(heap, n) => Unlinked(heap', n)
  BY <1>1, PushFrontHolds
<1> HIDE DEF w
<1>3. /\ {x} \in SUBSET live /\ {l} \in SUBSET lists
      /\ \A n \in Nodes : Unlinked(heap, n) => \/ Unlinked(heap', n) \/ n \in {x}
                                               \/ \E m \in {l} : n \in {HeadOf(m), TailOf(m)}
  BY <1>1, <1>2
<1>4. Inv' /\ Order' = w
  BY <1>1, <1>2, <1>3, PreservedOn
<1>5. ~Abstract!Member(x)
  BY <1>1, NotAMember
<1> QED BY <1>4, <1>5 DEF Abstract!PushFront, w

\* A push at the back puts the link last.
LEMMA PushBackRefines ==
  ASSUME Inv, NEW l \in Lists, NEW x \in Links, PushLinkBack(l, x)
  PROVE  Inv' /\ Abstract!PushBack(l, x)
<1> DEFINE w == [Order EXCEPT ![l] = Append(@, x)]
<1>1. /\ Sound(heap) /\ Holds(heap, Order) /\ Unlinked(heap, x)
      /\ heap' = PushBack(heap, l, x) /\ UNCHANGED <<live, lists>>
      /\ l \in lists /\ x \in live
  BY DEF Inv, PushLinkBack
<1>2. /\ Sound(heap') /\ Holds(heap', w)
      /\ \A n \in Nodes \ {x, HeadOf(l), TailOf(l)} : Unlinked(heap, n) => Unlinked(heap', n)
  BY <1>1, PushBackHolds
<1> HIDE DEF w
<1>3. /\ {x} \in SUBSET live /\ {l} \in SUBSET lists
      /\ \A n \in Nodes : Unlinked(heap, n) => \/ Unlinked(heap', n) \/ n \in {x}
                                               \/ \E m \in {l} : n \in {HeadOf(m), TailOf(m)}
  BY <1>1, <1>2
<1>4. Inv' /\ Order' = w
  BY <1>1, <1>2, <1>3, PreservedOn
<1>5. ~Abstract!Member(x)
  BY <1>1, NotAMember
<1> QED BY <1>4, <1>5 DEF Abstract!PushBack, w

\* pop_front, which does nothing to an empty list.
LEMMA PopRefines ==
  ASSUME Inv, NEW l \in Lists, Pop(l)
  PROVE  Inv' /\ (Abstract!PopFront(l) \/ UNCHANGED Order)
<1> DEFINE w == IF Order[l] = <<>> THEN Order ELSE [Order EXCEPT ![l] = Tail(@)]
<1>1. /\ Sound(heap) /\ Holds(heap, Order)
      /\ heap' = PopFront(heap, l) /\ UNCHANGED <<live, lists>> /\ l \in lists
  BY DEF Inv, Pop
<1>2. /\ Sound(heap') /\ Holds(heap', w)
      /\ \A n \in Nodes \ {HeadOf(l), TailOf(l)} : Unlinked(heap, n) => Unlinked(heap', n)
  BY <1>1, PopFrontHolds
<1> HIDE DEF w
<1>3. /\ {} \in SUBSET live /\ {l} \in SUBSET lists
      /\ \A n \in Nodes : Unlinked(heap, n) => \/ Unlinked(heap', n) \/ n \in {}
                                               \/ \E m \in {l} : n \in {HeadOf(m), TailOf(m)}
  BY <1>1, <1>2
<1>4. Inv' /\ Order' = w
  BY <1>1, <1>2, <1>3, PreservedOn
<1> QED BY <1>4 DEF Abstract!PopFront, w

\* move_to_front_of.
LEMMA MoveRefines ==
  ASSUME Inv, NEW src \in Lists, NEW dst \in Lists, Move(src, dst)
  PROVE  Inv' /\ Abstract!MoveToFrontOf(src, dst)
<1> DEFINE w == Joined(Order, src, dst)
<1>1. /\ Sound(heap) /\ Holds(heap, Order) /\ src # dst
      /\ heap' = MoveToFrontOf(heap, src, dst) /\ UNCHANGED <<live, lists>>
      /\ src \in lists /\ dst \in lists
  BY DEF Inv, Move
<1>2. /\ Sound(heap') /\ Holds(heap', w)
      /\ \A n \in Nodes \ {HeadOf(src), TailOf(src), HeadOf(dst), TailOf(dst)} :
           Unlinked(heap, n) => Unlinked(heap', n)
  BY <1>1, MoveHolds
<1> HIDE DEF w
<1>3. /\ {} \in SUBSET live /\ {src, dst} \in SUBSET lists
      /\ \A n \in Nodes : Unlinked(heap, n) => \/ Unlinked(heap', n) \/ n \in {}
                                               \/ \E m \in {src, dst} : n \in {HeadOf(m), TailOf(m)}
  BY <1>1, <1>2
<1>4. Inv' /\ Order' = w
  BY <1>1, <1>2, <1>3, PreservedOn
<1> QED BY <1>1, <1>4 DEF Abstract!MoveToFrontOf, Joined, w

\* is_empty and iter.
LEMMA InspectRefines ==
  ASSUME Inv, NEW l \in Lists, Inspect(l)
  PROVE  Inv' /\ UNCHANGED Order
<1>1. /\ Sound(heap) /\ Holds(heap, Order) /\ heap \in Heaps
      /\ heap' = MaybeInit(heap, l) /\ UNCHANGED <<live, lists>> /\ l \in lists
  BY DEF Inv, Inspect, Sound
<1>2. /\ Sound(heap') /\ Holds(heap', Order)
      /\ \A n \in Nodes \ {HeadOf(l), TailOf(l)} : heap'.next[n] = heap.next[n] /\ heap'.prev[n] = heap.prev[n]
  BY <1>1, MaybeInitHolds
<1>3. /\ {} \in SUBSET live /\ {l} \in SUBSET lists
      /\ \A n \in Nodes : Unlinked(heap, n) => \/ Unlinked(heap', n) \/ n \in {}
                                               \/ \E m \in {l} : n \in {HeadOf(m), TailOf(m)}
  BY <1>1, <1>2 DEF Unlinked
<1> QED BY <1>1, <1>2, <1>3, PreservedOn

\* unlink, of a link that is in a list or in none. Also the drop of a link.
LEMMA UnlinkEffect ==
  ASSUME Inv, NEW x \in Links, heap' = Unlink(heap, x)
  PROVE  /\ Sound(heap') /\ Unlinked(heap', x)
         /\ \A n \in Nodes : Unlinked(heap, n) => Unlinked(heap', n)
         /\ \/ Holds(heap', Order)
            \/ \E l \in Lists : \E i \in 1 .. Len(Order[l]) :
                 Order[l][i] = x /\ Holds(heap', Without(Order, l, i))
<1>1. Sound(heap) /\ Holds(heap, Order) /\ x \in Nodes
  BY SentinelsDiffer DEF Inv
<1>2. /\ Sound(heap') /\ Unlinked(heap', x)
      /\ \A n \in Nodes : Unlinked(heap, n) => Unlinked(heap', n)
  BY <1>1, UnlinkIsSound
<1>3. CASE \E l \in Lists : \E i \in 1 .. Len(Order[l]) : Order[l][i] = x
  <2>1. PICK l \in Lists : \E i \in 1 .. Len(Order[l]) : Order[l][i] = x
    BY <1>3
  <2>2. PICK i \in 1 .. Len(Order[l]) : Order[l][i] = x
    BY <2>1
  <2>3. Holds(heap', Without(Order, l, i))
    BY <1>1, <2>2, UnlinkMember
  <2> QED BY <1>2, <2>2, <2>3
<1>4. CASE ~\E l \in Lists : \E i \in 1 .. Len(Order[l]) : Order[l][i] = x
  <2>1. ASSUME NEW m \in Lists, NEW i \in 0 .. Len(Order[m]) + 1
        PROVE  Pos(m, Order[m], i) # x
    BY <1>4, SentinelsDiffer DEF Pos
  <2>2. Holds(heap', Order)
    BY <1>1, <2>1, UnlinkOutside
  <2> QED BY <1>2, <2>2
<1> QED BY <1>3, <1>4

\* What the two do to the order.
LEMMA LeaveRefines ==
  ASSUME Inv, Inv', NEW x \in Links, heap' = Unlink(heap, x)
  PROVE  Abstract!Leave(x) \/ UNCHANGED Order
<1>1. CASE Holds(heap', Order)
  BY <1>1, TheyAreTheOrder DEF Inv, Order
<1>2. ASSUME NEW l \in Lists, NEW i \in 1 .. Len(Order[l]),
             Order[l][i] = x, Holds(heap', Without(Order, l, i))
      PROVE  Abstract!Leave(x)
  <2>1. Order' = Without(Order, l, i)
    BY <1>2, TheyAreTheOrder DEF Inv, Order
  <2> QED BY <1>2, <2>1 DEF Abstract!Leave, Without, Abstract!RemoveAt, RemoveAt
<1> QED BY <1>1, <1>2, UnlinkEffect

\* A link that is unlinked or dropped leaves the list it is in, if any.
LEMMA UnlinkRefines ==
  ASSUME Inv, NEW x \in Links, UnlinkLink(x) \/ DropLink(x)
  PROVE  Inv' /\ (Abstract!Leave(x) \/ UNCHANGED Order)
<1>1. /\ heap' = Unlink(heap, x) /\ lists' = lists /\ (live' = live \/ live' = live \ {x})
  BY DEF UnlinkLink, DropLink
<1>2. /\ Sound(heap') /\ Unlinked(heap', x)
      /\ \A n \in Nodes : Unlinked(heap, n) => Unlinked(heap', n)
      /\ \E w : Holds(heap', w)
  BY <1>1, UnlinkEffect
<1>3. /\ live' \subseteq Links /\ lists' \subseteq Lists
      /\ \A y \in Links \ live' : Unlinked(heap', y)
      /\ \A l \in Lists \ lists' : Fresh(heap', l)
  BY <1>1, <1>2, SentinelsDiffer DEF Inv, TypeOK, Fresh
<1>4. Inv'
  BY <1>2, <1>3, Preserved
<1> QED BY <1>1, <1>4, LeaveRefines

\* A list that is dropped.
LEMMA DropRefines ==
  ASSUME Inv, NEW l \in Lists, DropList(l)
  PROVE  Inv' /\ Abstract!Forget(l)
<1> DEFINE w == [Order EXCEPT ![l] = <<>>]
<1>1. /\ heap' = DropSentinels(heap, l) /\ lists' = lists \ {l} /\ live' = live
      /\ Sound(heap) /\ Holds(heap, Order)
  BY DEF DropList, Inv
<1>2. /\ Sound(heap') /\ Holds(heap', w) /\ Fresh(heap', l)
      /\ \A n \in Nodes : Unlinked(heap, n) => Unlinked(heap', n)
  BY <1>1, DropHolds
<1> HIDE DEF w
<1>3. /\ live' \subseteq Links /\ lists' \subseteq Lists
      /\ \A y \in Links \ live' : Unlinked(heap', y)
      /\ \A m \in Lists \ lists' : Fresh(heap', m)
  BY <1>1, <1>2, SentinelsDiffer DEF Inv, TypeOK, Fresh
<1>4. Inv' /\ Order' = w
  BY <1>2, <1>3, Preserved
<1> QED BY <1>4 DEF Abstract!Forget, w

\* A link or a list that comes into existence finds its fields null.
LEMMA NewRefines ==
  ASSUME Inv, (\E x \in Links : NewLink(x)) \/ (\E l \in Lists : NewList(l))
  PROVE  Inv' /\ UNCHANGED Order
<1>1. heap \in Heaps /\ Sound(heap) /\ Holds(heap, Order) /\ Null \in Nodes \cup {Null}
  BY DEF Inv, Sound
<1>2. ASSUME NEW x \in Links, NewLink(x)
      PROVE  heap' = heap /\ live' = live \cup {x} /\ lists' = lists
  <2> DEFINE h1 == SetNext(heap, x, Null)
             h2 == SetPrev(h1, x, Null)
  <2>1. Unlinked(heap, x) /\ x \in Nodes
    BY <1>2, SentinelsDiffer DEF Inv, TypeOK, NewLink
  <2>2. NextIs(heap, h1, x, Null) /\ h1 \in Heaps
    BY <1>1, <2>1, AssignedNext
  <2>3. heap' = h2
    BY <1>2 DEF NewLink
  <2> HIDE DEF h1
  <2>4. PrevIs(h1, h2, x, Null) /\ h2 \in Heaps
    BY <1>1, <2>1, <2>2, AssignedPrev
  <2> HIDE DEF h2
  <2>5. \A n \in Nodes : h2.next[n] = heap.next[n] /\ h2.prev[n] = heap.prev[n]
    BY <2>1, <2>2, <2>4 DEF NextIs, PrevIs, Unlinked
  <2>6. h2 = heap
    BY <1>1, <2>4, <2>5, SameFields
  <2> QED BY <1>2, <2>3, <2>6 DEF NewLink
<1>3. ASSUME NEW l \in Lists, NewList(l)
      PROVE  heap' = heap /\ live' = live /\ lists' = lists \cup {l}
  <2>1. /\ heap.next[HeadOf(l)] = Null /\ heap.next[TailOf(l)] = Null
        /\ heap.prev[HeadOf(l)] = Null /\ heap.prev[TailOf(l)] = Null
    BY <1>3 DEF Inv, NewList, Fresh, Unlinked
  <2>2. /\ heap.next \in [Nodes -> Nodes \cup {Null}] /\ heap.prev \in [Nodes -> Nodes \cup {Null}]
    BY <1>1, Fields
  <2>3. /\ [heap.prev EXCEPT ![HeadOf(l)] = Null, ![TailOf(l)] = Null] = heap.prev
        /\ [heap.next EXCEPT ![HeadOf(l)] = Null, ![TailOf(l)] = Null] = heap.next
    <3> DEFINE a == HeadOf(l)
               z == TailOf(l)
    <3> HIDE DEF a, z
    <3>1. \A f \in [Nodes -> Nodes \cup {Null}] :
            f[a] = Null /\ f[z] = Null => [f EXCEPT ![a] = Null, ![z] = Null] = f
      OBVIOUS
    <3> QED BY <2>1, <2>2, <3>1 DEF a, z
  <2>4. heap' = [prev |-> heap.prev, next |-> heap.next]
    BY <1>3, <2>3 DEF NewList
  <2>5. heap' = heap
    BY <1>1, <2>4 DEF Heaps
  <2> QED BY <1>3, <2>5 DEF NewList
<1>4. heap' = heap /\ live \subseteq live' /\ lists \subseteq lists' /\ live' \subseteq Links /\ lists' \subseteq Lists
  BY <1>2, <1>3 DEF Inv, TypeOK
<1>5. /\ Sound(heap') /\ Holds(heap', Order)
      /\ \A x \in Links \ live' : Unlinked(heap', x)
      /\ \A l \in Lists \ lists' : Fresh(heap', l)
  BY <1>1, <1>4 DEF Inv, TypeOK
<1> QED BY <1>4, <1>5, Preserved

----------------------------------------------------------------------------
(* The theorems.                                                           *)

\* One step of the program is one step of the abstract lists, or none.
LEMMA Step ==
  ASSUME Inv, [Next]_vars
  PROVE  Inv' /\ [Abstract!Next]_Order
<1>1. CASE UNCHANGED vars
  BY <1>1 DEF vars, Inv, TypeOK, Order, Sound, Linked, Ended, Holds, Fresh, Unlinked, Strung
<1>2. ASSUME NEW x \in Links, NewLink(x)
      PROVE  Inv' /\ [Abstract!Next]_Order
  BY <1>2, NewRefines
<1>3. ASSUME NEW x \in Links, UnlinkLink(x) \/ DropLink(x)
      PROVE  Inv' /\ [Abstract!Next]_Order
  BY <1>3, UnlinkRefines DEF Abstract!Next
<1>4. ASSUME NEW l \in Lists, NewList(l)
      PROVE  Inv' /\ [Abstract!Next]_Order
  BY <1>4, NewRefines
<1>5. ASSUME NEW l \in Lists, Pop(l)
      PROVE  Inv' /\ [Abstract!Next]_Order
  BY <1>5, PopRefines DEF Abstract!Next
<1>6. ASSUME NEW l \in Lists, Inspect(l)
      PROVE  Inv' /\ [Abstract!Next]_Order
  BY <1>6, InspectRefines
<1>7. ASSUME NEW l \in Lists, DropList(l)
      PROVE  Inv' /\ [Abstract!Next]_Order
  BY <1>7, DropRefines DEF Abstract!Next
<1>8. ASSUME NEW l \in Lists, NEW x \in Links, PushLinkFront(l, x)
      PROVE  Inv' /\ [Abstract!Next]_Order
  BY <1>8, PushFrontRefines DEF Abstract!Next
<1>9. ASSUME NEW l \in Lists, NEW x \in Links, PushLinkBack(l, x)
      PROVE  Inv' /\ [Abstract!Next]_Order
  BY <1>9, PushBackRefines DEF Abstract!Next
<1>10. ASSUME NEW src \in Lists, NEW dst \in Lists, Move(src, dst)
       PROVE  Inv' /\ [Abstract!Next]_Order
  BY <1>10, MoveRefines DEF Abstract!Next
<1> QED BY <1>1, <1>2, <1>3, <1>4, <1>5, <1>6, <1>7, <1>8, <1>9, <1>10 DEF Next

\* The invariant holds of every reachable state.
THEOREM Invariance == Spec => []Inv
<1>1. Init => Inv
  BY InitHolds
<1>2. Inv /\ [Next]_vars => Inv'
  BY Step
<1> QED BY <1>1, <1>2, PTL DEF Spec

\* Every state is of its type: pointers lead to nodes or are null, and a link
\* that does not exist is in no list.
THEOREM TypeCorrect == Spec => []TypeOK
<1>1. Inv => TypeOK
  BY DEF Inv
<1> QED BY <1>1, Invariance, PTL

\* In a sound heap a pointer leads to a node that is not null itself, and such
\* a node exists.
LEMMA SoundNeverDangles ==
  ASSUME Inv
  PROVE  NoDangling
<1>1. /\ heap \in Heaps /\ Linked(heap) /\ Null \notin Nodes
      /\ live \subseteq Links /\ lists \subseteq Lists
      /\ \A x \in Links \ live : Unlinked(heap, x)
      /\ \A l \in Lists \ lists : Unlinked(heap, HeadOf(l)) /\ Unlinked(heap, TailOf(l))
  BY SentinelsDiffer DEF Inv, TypeOK, Sound, Fresh
<1>2. LiveNodes \subseteq Nodes
  BY <1>1, SentinelsDiffer DEF LiveNodes
<1>3. ASSUME NEW m \in Nodes, ~Unlinked(heap, m)
      PROVE  m \in LiveNodes
  <2>1. m \in Links \/ (\E l \in Lists : m = HeadOf(l)) \/ (\E l \in Lists : m = TailOf(l))
    BY DEF Nodes, Sentinels
  <2> QED BY <1>1, <1>3, <2>1 DEF LiveNodes
<1>4. ASSUME NEW n \in LiveNodes
      PROVE  heap.next[n] \in LiveNodes \cup {Null} /\ heap.prev[n] \in LiveNodes \cup {Null}
  <2>1. n \in Nodes /\ heap.next[n] \in Nodes \cup {Null} /\ heap.prev[n] \in Nodes \cup {Null}
    BY <1>1, <1>2, Fields
  <2>2. ASSUME heap.next[n] # Null
        PROVE  heap.next[n] \in LiveNodes
    <3>1. heap.prev[heap.next[n]] = n
      BY <1>1, <2>1, <2>2 DEF Linked
    <3>2. heap.next[n] \in Nodes /\ ~Unlinked(heap, heap.next[n])
      BY <1>1, <2>1, <2>2, <3>1 DEF Unlinked
    <3> QED BY <1>3, <3>2
  <2>3. ASSUME heap.prev[n] # Null
        PROVE  heap.prev[n] \in LiveNodes
    <3>1. heap.next[heap.prev[n]] = n
      BY <1>1, <2>1, <2>3 DEF Linked
    <3>2. heap.prev[n] \in Nodes /\ ~Unlinked(heap, heap.prev[n])
      BY <1>1, <2>1, <2>3, <3>1 DEF Unlinked
    <3> QED BY <1>3, <3>2
  <2> QED BY <2>2, <2>3
<1> QED BY <1>4 DEF NoDangling

\* Links and lists may be dropped in any order: nothing that exists points at
\* what was dropped.
THEOREM NothingDangles == Spec => []NoDangling
<1>1. Inv => NoDangling
  BY SoundNeverDangles
<1> QED BY <1>1, Invariance, PTL

\* The neighbour that a node points at points back.
THEOREM PointersAgree == Spec => []DoublyLinked
<1>1. ASSUME Inv
      PROVE  DoublyLinked
  <2>1. LiveNodes \subseteq Nodes
    BY <1>1, SentinelsDiffer DEF Inv, TypeOK, LiveNodes
  <2> QED BY <1>1, <2>1 DEF Inv, Sound, Linked, DoublyLinked
<1> QED BY <1>1, Invariance, PTL

\* List<T> implements the sequences its users think of: every operation does
\* to what the iterators yield exactly what AbstractList says.
THEOREM ListsAreSequences == Spec => ImplementsAbstractList
<1>1. Init => Abstract!Init
  BY InitHolds DEF Abstract!Init
<1>2. Inv /\ [Next]_vars => [Abstract!Next]_Order
  BY Step
<1> QED BY <1>1, <1>2, Invariance, PTL DEF Spec, ImplementsAbstractList, Abstract!Spec
=============================================================================
