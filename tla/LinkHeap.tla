------------------------------ MODULE LinkHeap ------------------------------
(***************************************************************************)
(* The pointer manipulation of src/intrusive/internal/mod.rs: a doubly     *)
(* linked list whose links live inside their owners (futures on a task's   *)
(* stack) and whose two sentinels live inside the list itself.             *)
(*                                                                         *)
(* A heap is a record of two functions, prev and next, over all nodes; an  *)
(* operator takes the heap before a method and returns the heap after it.  *)
(* Each assignment of the Rust code is one SetNext or SetPrev, in the      *)
(* order of the code, so that aliased nodes behave as they do there.       *)
(* Link.owner is left out: it is set by every push to the value the link   *)
(* is embedded in, so a link stands for its owner.                         *)
(***************************************************************************)
EXTENDS Naturals, Sequences, FiniteSets

CONSTANTS
  Links,  \* the links embedded in futures
  Lists,  \* the lists
  Null    \* core::ptr::null_mut()

HeadOf(l) == <<l, "head">>
TailOf(l) == <<l, "tail">>
Sentinels == {HeadOf(l) : l \in Lists} \cup {TailOf(l) : l \in Lists}
Nodes == Links \cup Sentinels

ASSUME FiniteAssumption == IsFiniteSet(Links) /\ IsFiniteSet(Lists)
ASSUME NullAssumption == Null \notin Nodes
ASSUME SentinelAssumption == Links \cap Sentinels = {}

Heaps == [prev : [Nodes -> Nodes \cup {Null}], next : [Nodes -> Nodes \cup {Null}]]

EmptyHeap == [prev |-> [n \in Nodes |-> Null], next |-> [n \in Nodes |-> Null]]

SetNext(h, n, m) == [h EXCEPT !.next[n] = m]
SetPrev(h, n, m) == [h EXCEPT !.prev[n] = m]

Unlinked(h, x) == h.prev[x] = Null /\ h.next[x] = Null

----------------------------------------------------------------------------
(* Mutants of Link::unlink, List::push_link_back and                       *)
(* List::move_to_front_of: an assignment forgotten.                        *)
UnlinkForgetsPrev(h, x) ==
  LET h1 == IF h.prev[x] # Null THEN SetNext(h, h.prev[x], h.next[x]) ELSE h
  IN  SetPrev(SetNext(h1, x, Null), x, Null)

UnlinkKeepsPointers(h, x) ==
  LET h1 == IF h.prev[x] # Null THEN SetNext(h, h.prev[x], h.next[x]) ELSE h
  IN  IF h1.next[x] # Null THEN SetPrev(h1, h1.next[x], h1.prev[x]) ELSE h1
----------------------------------------------------------------------------

\* Link::unlink, also the Drop of Link. The second test reads the fields
\* again, after the first assignment.
Unlink(h, x) ==
  LET h1 == IF h.prev[x] # Null THEN SetNext(h, h.prev[x], h.next[x]) ELSE h
      h2 == IF h1.next[x] # Null THEN SetPrev(h1, h1.next[x], h1.prev[x]) ELSE h1
  IN  SetPrev(SetNext(h2, x, Null), x, Null)

\* List::maybe_init_head_tail: the sentinels of a fresh list are null and are
\* tied together by the first method that is called on the list.
MaybeInit(h, l) ==
  IF h.next[HeadOf(l)] = Null
  THEN SetPrev(SetNext(h, HeadOf(l), TailOf(l)), TailOf(l), HeadOf(l))
  ELSE h

\* List::is_empty, after its maybe_init_head_tail.
IsEmpty(h, l) == h.next[HeadOf(l)] = TailOf(l)

\* List::push_link_front.
PushFront(h0, l, x) ==
  LET h  == MaybeInit(h0, l)
      h1 == SetPrev(h, h.next[HeadOf(l)], x)
      h2 == SetNext(h1, x, h1.next[HeadOf(l)])
      h3 == SetPrev(h2, x, HeadOf(l))
  IN  SetNext(h3, HeadOf(l), x)

PushBackSwapped(h0, l, x) ==
  LET h  == MaybeInit(h0, l)
      h1 == SetNext(h, h.prev[TailOf(l)], x)
      h2 == SetNext(h1, x, TailOf(l))
      h3 == SetPrev(h2, TailOf(l), x)
  IN  SetPrev(h3, x, h3.prev[TailOf(l)])

\* List::push_link_back.
PushBack(h0, l, x) ==
  LET h  == MaybeInit(h0, l)
      h1 == SetNext(h, h.prev[TailOf(l)], x)
      h2 == SetNext(h1, x, TailOf(l))
      h3 == SetPrev(h2, x, h2.prev[TailOf(l)])
  IN  SetPrev(h3, TailOf(l), x)

\* List::pop_front: the link it returns (Null for None), and the heap after.
FrontOf(h0, l) ==
  LET h == MaybeInit(h0, l)
  IN  IF IsEmpty(h, l) THEN Null ELSE h.next[HeadOf(l)]

PopFront(h0, l) ==
  LET h == MaybeInit(h0, l)
  IN  IF IsEmpty(h, l) THEN h ELSE Unlink(h, h.next[HeadOf(l)])

MoveForgetsBack(h0, src, dst) ==
  LET h  == MaybeInit(MaybeInit(h0, src), dst)
      h1 == SetNext(h, h.prev[TailOf(src)], h.next[HeadOf(dst)])
      h2 == SetNext(h1, HeadOf(dst), h1.next[HeadOf(src)])
      h3 == SetPrev(h2, h2.next[HeadOf(src)], HeadOf(dst))
  IN  IF IsEmpty(h, src)
      THEN h
      ELSE SetPrev(SetNext(h3, HeadOf(src), TailOf(src)), TailOf(src), HeadOf(src))

\* List::move_to_front_of: the nodes of src, in order, before those of dst.
MoveToFrontOf(h0, src, dst) ==
  LET h     == MaybeInit(MaybeInit(h0, src), dst)
      front == h.next[HeadOf(dst)]
      h1    == SetPrev(h, front, h.prev[TailOf(src)])
      h2    == SetNext(h1, h1.prev[TailOf(src)], front)
      h3    == SetNext(h2, HeadOf(dst), h2.next[HeadOf(src)])
      h4    == SetPrev(h3, h3.next[HeadOf(src)], HeadOf(dst))
      h5    == SetNext(h4, HeadOf(src), TailOf(src))
  IN  IF IsEmpty(h, src) THEN h ELSE SetPrev(h5, TailOf(src), HeadOf(src))

\* Dropping a List drops its two sentinels, and a dropped Link unlinks itself.
DropSentinels(h, l) == Unlink(Unlink(h, HeadOf(l)), TailOf(l))

\* ListIterator::next goes on to the next node, unless it is at the tail.
\* Walk[k] is the node after k steps from the head. The walk is cut off after
\* as many steps as there are nodes, which a sound list never needs.
Walk(h, l) ==
  LET step == [n \in Nodes \cup {Null} |-> IF n \in {TailOf(l), Null} THEN n ELSE h.next[n]]
      at[k \in 0 .. Cardinality(Nodes)] == IF k = 0 THEN HeadOf(l) ELSE step[at[k - 1]]
  IN  at

\* The links that the iterator yields, in order.
Forward(h, l) ==
  LET at    == Walk(h, l)
      steps == {k \in 1 .. Cardinality(Nodes) : at[k] \notin {TailOf(l), Null}}
  IN  [k \in 1 .. Cardinality(steps) |-> at[k]]
=============================================================================
