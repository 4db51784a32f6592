---------------------------- MODULE AbstractList ----------------------------
(***************************************************************************)
(* What List<T> of src/intrusive/internal/mod.rs promises its users: each  *)
(* list is a sequence of links, a link is in at most one of them at most   *)
(* once, and an operation touches no link but the ones it names.           *)
(***************************************************************************)
EXTENDS Naturals, Sequences, SequencesExt

CONSTANTS Links, Lists

VARIABLE order  \* order[l]: the links of list l, front first

TypeOK == order \in [Lists -> Seq(Links)]

Init == order = [l \in Lists |-> <<>>]

Member(x) == \E l \in Lists : x \in Range(order[l])

PushFront(l, x) ==
  /\ ~Member(x)
  /\ order' = [order EXCEPT ![l] = <<x>> \o @]

PushBack(l, x) ==
  /\ ~Member(x)
  /\ order' = [order EXCEPT ![l] = Append(@, x)]

PopFront(l) ==
  /\ order[l] # <<>>
  /\ order' = [order EXCEPT ![l] = Tail(@)]

MoveToFrontOf(src, dst) ==
  /\ src # dst
  /\ order' = [order EXCEPT ![dst] = order[src] \o @, ![src] = <<>>]

\* A link leaves the list that holds it.
Leave(x) ==
  \E l \in Lists : \E i \in 1 .. Len(order[l]) :
    /\ order[l][i] = x
    /\ order' = [order EXCEPT ![l] = RemoveAt(@, i)]

\* A list is dropped and forgets its links.
Forget(l) == order' = [order EXCEPT ![l] = <<>>]

Next ==
  \/ \E l \in Lists, x \in Links : PushFront(l, x) \/ PushBack(l, x)
  \/ \E l \in Lists : PopFront(l) \/ Forget(l)
  \/ \E src, dst \in Lists : MoveToFrontOf(src, dst)
  \/ \E x \in Links : Leave(x)

Spec == Init /\ [][Next]_order
=============================================================================
