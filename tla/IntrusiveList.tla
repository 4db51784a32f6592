--------------------------- MODULE IntrusiveList ----------------------------
(***************************************************************************)
(* List<T> and Link<T> of src/intrusive/internal/mod.rs as their callers   *)
(* use them: links and lists come into existence, are pushed, popped,      *)
(* moved, unlinked and dropped in any order.                               *)
(*                                                                         *)
(* The pushes carry the one obligation the code leaves to its callers      *)
(* (push_link_front and push_link_back are unsafe fn): a link is pushed    *)
(* only while it is in no list. SenderList.tla shows that the futures of   *)
(* the crate meet it while each task awaits one future at a time, and      *)
(* SendTimeout.tla that they do not inside the crate's own combinators.    *)
(***************************************************************************)
EXTENDS LinkHeap

VARIABLES
  heap,   \* prev and next of every node
  live,   \* the links that exist, that is, whose owner has not been dropped
  lists   \* the lists that exist

vars == <<heap, live, lists>>

LiveNodes == live \cup {HeadOf(l) : l \in lists} \cup {TailOf(l) : l \in lists}

TypeOK ==
  /\ heap \in Heaps
  /\ live \subseteq Links
  /\ lists \subseteq Lists
  /\ \A x \in Links \ live : Unlinked(heap, x)

Init ==
  /\ heap = EmptyHeap
  /\ live = {}
  /\ lists = {}

----------------------------------------------------------------------------
(* Operations.                                                             *)

\* Link::new and Node::new.
NewLink(x) ==
  /\ x \notin live
  /\ live' = live \cup {x}
  /\ heap' = SetPrev(SetNext(heap, x, Null), x, Null)
  /\ UNCHANGED lists

\* List::new.
NewList(l) ==
  /\ l \notin lists
  /\ lists' = lists \cup {l}
  /\ heap' = [prev |-> [heap.prev EXCEPT ![HeadOf(l)] = Null, ![TailOf(l)] = Null],
              next |-> [heap.next EXCEPT ![HeadOf(l)] = Null, ![TailOf(l)] = Null]]
  /\ UNCHANGED live

PushLinkFront(l, x) ==
  /\ l \in lists /\ x \in live /\ Unlinked(heap, x)
  /\ heap' = PushFront(heap, l, x)
  /\ UNCHANGED <<live, lists>>

PushLinkBack(l, x) ==
  /\ l \in lists /\ x \in live /\ Unlinked(heap, x)
  /\ heap' = PushBack(heap, l, x)
  /\ UNCHANGED <<live, lists>>

\* pop_front. The link it returns is used by the caller before anything else
\* happens, and is then an ordinary link that is in no list.
Pop(l) ==
  /\ l \in lists
  /\ heap' = PopFront(heap, l)
  /\ UNCHANGED <<live, lists>>

Move(src, dst) ==
  /\ {src, dst} \subseteq lists /\ src # dst
  /\ heap' = MoveToFrontOf(heap, src, dst)
  /\ UNCHANGED <<live, lists>>

\* Link::unlink on a link that stays alive.
UnlinkLink(x) ==
  /\ x \in live
  /\ heap' = Unlink(heap, x)
  /\ UNCHANGED <<live, lists>>

\* is_empty and iter write to the list too: they initialise the sentinels.
Inspect(l) ==
  /\ l \in lists
  /\ heap' = MaybeInit(heap, l)
  /\ UNCHANGED <<live, lists>>

\* Drop for Link: a future goes away, in a list or not.
DropLink(x) ==
  /\ x \in live
  /\ heap' = Unlink(heap, x)
  /\ live' = live \ {x}
  /\ UNCHANGED lists

\* A list goes away, with links in it or not.
DropList(l) ==
  /\ l \in lists
  /\ heap' = DropSentinels(heap, l)
  /\ lists' = lists \ {l}
  /\ UNCHANGED live

Next ==
  \/ \E x \in Links : NewLink(x) \/ UnlinkLink(x) \/ DropLink(x)
  \/ \E l \in Lists : NewList(l) \/ Pop(l) \/ Inspect(l) \/ DropList(l)
  \/ \E l \in Lists, x \in Links : PushLinkFront(l, x) \/ PushLinkBack(l, x)
  \/ \E src, dst \in Lists : Move(src, dst)

Spec == Init /\ [][Next]_vars

----------------------------------------------------------------------------
(* Properties.                                                             *)

\* No node that exists points at a node that does not: whatever order links
\* and lists are dropped in, nothing is left that a later unlink, pop or
\* iteration would follow into freed memory.
NoDangling ==
  \A n \in LiveNodes :
    /\ heap.next[n] \in LiveNodes \cup {Null}
    /\ heap.prev[n] \in LiveNodes \cup {Null}

\* The two directions agree: the neighbour a node points at points back, so
\* that unlinking a node by its own two pointers removes it from its list.
DoublyLinked ==
  \A n \in LiveNodes :
    /\ heap.next[n] # Null => heap.prev[heap.next[n]] = n
    /\ heap.prev[n] # Null => heap.next[heap.prev[n]] = n

\* The sequence each list stands for: what iterating it yields.
Order == [l \in Lists |-> Forward(heap, l)]

Abstract == INSTANCE AbstractList WITH order <- Order

\* Every operation does to the sequences exactly what AbstractList says: no
\* link is lost, duplicated, reordered or moved to another list by an
\* operation on its neighbours.
ImplementsAbstractList == Abstract!Spec
=============================================================================
