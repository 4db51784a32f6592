------------------------- MODULE CombinatorsProofs --------------------------
(***************************************************************************)
(* The properties of Combinators.tla for trees of any depth.               *)
(*                                                                         *)
(* A poll of one future keeps a contract (Good): it touches nothing beside *)
(* its subtree, and either returns an output it may have, or may have none *)
(* until a waker it kept is called. Every kind of future meets it if its   *)
(* halves do, and so all do, from the leaves up (FromTheLeaves). Poll and  *)
(* OutputsWhen are recursive functions over the tree; that they are what   *)
(* their definitions say is shown in the same way. The invariant is what   *)
(* the contract says at the root between two polls.                        *)
(***************************************************************************)
EXTENDS Combinators, FunctionTheorems, SequenceTheorems, WellFoundedInduction, TLAPS

----------------------------------------------------------------------------
(* The tree.                                                               *)

\* Node n and all nodes under it: the ways that begin with the way to n.
Below(n) == {m \in Nodes : Len(n) <= Len(m) /\ \A i \in 1 .. Len(n) : m[i] = n[i]}

\* A node is a way of at most Depth turns.
LEMMA NodesAre ==
  \A n : n \in Nodes <=> n \in Seq({1, 2}) /\ Len(n) <= Depth
<1>1. ASSUME NEW n, n \in Nodes
      PROVE  n \in Seq({1, 2}) /\ Len(n) <= Depth
  <2>1. PICK d \in 0 .. Depth : n \in [1 .. d -> {1, 2}]
    BY <1>1 DEF Nodes, SeqOf
  <2>2. n \in Seq({1, 2}) /\ Len(n) = d
    BY <2>1, DepthAssumption
  <2> QED BY <2>1, <2>2, DepthAssumption
<1>2. ASSUME NEW n, n \in Seq({1, 2}), Len(n) <= Depth
      PROVE  n \in Nodes
  <2>1. Len(n) \in 0 .. Depth /\ n \in [1 .. Len(n) -> {1, 2}]
    BY <1>2, DepthAssumption
  <2> QED BY <2>1 DEF Nodes, SeqOf
<1> QED BY <1>1, <1>2

\* A half is one turn further.
LEMMA Turn ==
  ASSUME NEW n \in Inner, NEW i \in {1, 2}
  PROVE  /\ n \in Nodes /\ Append(n, i) \in Nodes
         /\ Len(n) \in Nat /\ Len(Append(n, i)) = Len(n) + 1
         /\ Append(n, i)[Len(n) + 1] = i
         /\ \A j \in 1 .. Len(n) : Append(n, i)[j] = n[j]
<1>1. n \in Seq({1, 2}) /\ Len(n) < Depth /\ n \in Nodes
  BY NodesAre DEF Inner
<1>2. Append(n, i) \in Seq({1, 2}) /\ Len(n) \in Nat /\ Len(Append(n, i)) = Len(n) + 1
  BY <1>1
<1>3. Append(n, i)[Len(n) + 1] = i /\ \A j \in 1 .. Len(n) : Append(n, i)[j] = n[j]
  BY <1>1
<1>4. Append(n, i) \in Nodes
  <2>1. Len(Append(n, i)) <= Depth
    BY <1>1, <1>2, DepthAssumption
  <2> QED BY <1>2, <2>1, NodesAre
<1> QED BY <1>1, <1>2, <1>3, <1>4

\* What is under a half is under the node, and not the node.
LEMMA UnderHalf ==
  ASSUME NEW n \in Inner, NEW i \in {1, 2}, NEW m \in Below(Append(n, i))
  PROVE  m \in Below(n) /\ m # n /\ m[Len(n) + 1] = i
<1>1. m \in Nodes /\ Len(m) \in Nat
  BY NodesAre DEF Below
<1>2. Len(n) + 1 <= Len(m) /\ \A j \in 1 .. Len(n) + 1 : m[j] = Append(n, i)[j]
  BY Turn DEF Below
<1>3. Len(n) <= Len(m) /\ m # n /\ \A j \in 1 .. Len(n) : j \in 1 .. Len(n) + 1
  BY <1>1, <1>2, Turn
<1>4. \A j \in 1 .. Len(n) : m[j] = n[j]
  BY <1>2, <1>3, Turn
<1>5. Len(n) + 1 \in 1 .. Len(n) + 1
  BY Turn
<1> QED BY <1>1, <1>2, <1>3, <1>4, <1>5, Turn DEF Below

\* What is under a node, and not the node, is under one of its halves.
LEMMA OverHalf ==
  ASSUME NEW n \in Nodes, NEW m \in Below(n), m # n
  PROVE  n \in Inner /\ \E i \in {1, 2} : m \in Below(Append(n, i))
<1>1. /\ m \in Seq({1, 2}) /\ n \in Seq({1, 2}) /\ Len(n) <= Len(m) /\ Len(m) <= Depth
      /\ Len(m) \in Nat /\ Len(n) \in Nat
      /\ \A j \in 1 .. Len(n) : m[j] = n[j]
  BY NodesAre DEF Below
<1>2. Len(n) # Len(m)
  <2> SUFFICES ASSUME Len(n) = Len(m)
               PROVE  m = n
    OBVIOUS
  <2> QED BY <1>1, SeqEqual
<1>3. Len(n) < Len(m) /\ Len(n) < Depth /\ n \in Inner
  BY <1>1, <1>2, DepthAssumption DEF Inner
<1>4. m[Len(n) + 1] \in {1, 2}
  <2>1. Len(n) + 1 \in 1 .. Len(m)
    BY <1>1, <1>3
  <2> QED BY <1>1, <2>1
<1> DEFINE i == m[Len(n) + 1]
<1> HIDE DEF i
<1>5. i \in {1, 2} /\ i = m[Len(n) + 1]
  BY <1>4 DEF i
<1>6. ASSUME NEW j \in 1 .. Len(n) + 1
      PROVE  m[j] = Append(n, i)[j]
  <2>1. CASE j = Len(n) + 1
    BY <1>3, <1>5, <2>1, Turn
  <2>2. CASE j # Len(n) + 1
    <3>1. j \in 1 .. Len(n)
      BY <1>1, <2>2
    <3> QED BY <1>1, <1>3, <1>5, <3>1, Turn
  <2> QED BY <2>1, <2>2
<1>7. Len(Append(n, i)) = Len(n) + 1 /\ Len(n) + 1 <= Len(m)
  BY <1>1, <1>3, <1>5, Turn
<1>8. m \in Below(Append(n, i))
  BY <1>6, <1>7 DEF Below
<1> QED BY <1>3, <1>5, <1>8

\* A node is under itself, and a half of a node under another is so too.
LEMMA BelowHolds ==
  ASSUME NEW n \in Nodes
  PROVE  /\ n \in Below(n) /\ Below(n) \subseteq Nodes
         /\ \A m \in Below(n) : m \in Inner => Left(m) \in Below(n) /\ Right(m) \in Below(n)
<1>1. n \in Below(n) /\ Below(n) \subseteq Nodes
  BY NodesAre DEF Below
<1>2. ASSUME NEW m \in Below(n), m \in Inner, NEW i \in {1, 2}
      PROVE  Append(m, i) \in Below(n)
  <2>1. Len(n) \in Nat /\ Len(m) \in Nat /\ Len(n) <= Len(m) /\ \A j \in 1 .. Len(n) : m[j] = n[j]
    BY <1>2, NodesAre DEF Below
  <2>2. Len(n) <= Len(Append(m, i)) /\ \A j \in 1 .. Len(n) : j \in 1 .. Len(m)
    BY <1>2, <2>1, Turn
  <2> QED BY <1>2, <2>1, <2>2, Turn DEF Below
<1> QED BY <1>1, <1>2 DEF Left, Right

\* The halves of a node share nothing, and make up with it all there is below.
LEMMA Halves ==
  ASSUME NEW n \in Inner
  PROVE  /\ Left(n) \in Nodes /\ Right(n) \in Nodes
         /\ Below(Left(n)) \subseteq Below(n) /\ Below(Right(n)) \subseteq Below(n)
         /\ n \notin Below(Left(n)) /\ n \notin Below(Right(n))
         /\ Below(Left(n)) \cap Below(Right(n)) = {}
         /\ \A m \in Below(n) : m = n \/ m \in Below(Left(n)) \/ m \in Below(Right(n))
<1>1. n \in Nodes
  BY DEF Inner
<1>2. \A m \in Below(Append(n, 1)) : m \in Below(n) /\ m # n /\ m[Len(n) + 1] = 1
  BY UnderHalf
<1>3. \A m \in Below(Append(n, 2)) : m \in Below(n) /\ m # n /\ m[Len(n) + 1] = 2
  BY UnderHalf
<1>4. \A m \in Below(n) : m = n \/ m \in Below(Append(n, 1)) \/ m \in Below(Append(n, 2))
  BY <1>1, OverHalf
<1>5. Append(n, 1) \in Nodes /\ Append(n, 2) \in Nodes
  BY Turn
<1>6. Below(Append(n, 1)) \cap Below(Append(n, 2)) = {}
  BY <1>2, <1>3
<1> QED BY <1>2, <1>3, <1>4, <1>5, <1>6 DEF Left, Right

\* All of the tree is below the root.
LEMMA RootIsAbove ==
  Root \in Nodes /\ Below(Root) = Nodes
<1>1. Root \in Seq({1, 2}) /\ Len(Root) = 0
  BY DEF Root
<1>2. Root \in Nodes
  <2>1. Len(Root) <= Depth
    BY <1>1, DepthAssumption
  <2> QED BY <1>1, <2>1, NodesAre
<1>3. \A m \in Nodes : m \in Below(Root)
  BY <1>1, NodesAre DEF Below
<1> QED BY <1>2, <1>3 DEF Below

----------------------------------------------------------------------------
(* Recursion over the tree.                                                *)

\* A set of numbers that has 0, and with each number the next, has all.
LEMMA Numbers ==
  ASSUME NEW S, 0 \in S, \A k \in Nat : k \in S => k + 1 \in S
  PROVE  Nat \subseteq S
<1> DEFINE T == Nat \ S
           R == OpToRel(<, Nat)
<1> SUFFICES ASSUME T # {}
             PROVE  FALSE
  OBVIOUS
<1>1. IsWellFoundedOn(R, Nat)
  BY NatLessThanWellFounded, Zenon
<1>2. \A m, n \in Nat : m < n => <<m, n>> \in R
  BY Zenon DEF OpToRel
<1>3. T \in SUBSET Nat
  OBVIOUS
<1> HIDE DEF R
<1>4. PICK n \in T : \A m \in T : ~(<<m, n>> \in R)
  <2> HIDE DEF T
  <2> QED BY <1>1, <1>3, WFMin
<1>5. n \in Nat /\ n # 0 /\ n \notin S
  OBVIOUS
<1>6. n - 1 \in Nat /\ n - 1 < n /\ n - 1 + 1 = n
  BY <1>5
<1>7. n - 1 \in S
  BY <1>2, <1>4, <1>5, <1>6
<1> QED BY <1>5, <1>6, <1>7

\* Kinds that have halves.
Combined == {"race", "join", "timeout", "delay"}

\* What Trees says of the futures in a tree.
LEMMA TreeIs ==
  ASSUME kind \in Trees
  PROVE  /\ Root \in Futures /\ Futures \subseteq Nodes
         /\ \A n \in Futures :
              /\ kind[n] \in LeafKinds \cup Combined
              /\ kind[n] \notin LeafKinds =>
                   /\ n \in Inner /\ kind[n] \in Combined
                   /\ Left(n) \in Futures /\ Right(n) \in Futures
<1>1. kind \in [Nodes -> LeafKinds \cup {"race", "join", "timeout", "delay", "none"}] /\ kind[Root] # "none"
  BY DEF Trees
<1>2. \A n \in Nodes \ Inner : kind[n] \in LeafKinds \cup {"none"}
  BY DEF Trees
<1>3. \A n \in Inner : kind[n] \notin LeafKinds \cup {"none"} => kind[Left(n)] # "none" /\ kind[Right(n)] # "none"
  BY DEF Trees
<1>4. \A n \in Inner : Left(n) \in Nodes /\ Right(n) \in Nodes
  BY Halves
<1> QED BY <1>1, <1>2, <1>3, <1>4, RootIsAbove DEF Futures, Combined

\* A set that has every future whose halves it has, has all futures.
LEMMA FromTheLeaves ==
  ASSUME kind \in Trees, NEW S,
         \A n \in Futures : (kind[n] \notin LeafKinds => Left(n) \in S /\ Right(n) \in S) => n \in S
  PROVE  Futures \subseteq S
<1> DEFINE K == {k \in Nat : \A n \in Futures : Depth < Len(n) + k => n \in S}
<1>1. 0 \in K
  BY TreeIs, NodesAre, DepthAssumption
<1>2. ASSUME NEW k \in Nat, k \in K
      PROVE  k + 1 \in K
  <2>1. \A n \in Futures : Depth < Len(n) + k => n \in S
    BY <1>2
  <2>2. ASSUME NEW n \in Futures, Depth < Len(n) + (k + 1)
        PROVE  n \in S
    <3>1. ASSUME kind[n] \notin LeafKinds
          PROVE  Left(n) \in S /\ Right(n) \in S
      <4>1. n \in Inner /\ Left(n) \in Futures /\ Right(n) \in Futures
        BY <3>1, TreeIs
      <4>2. Len(n) \in Nat /\ Len(Left(n)) = Len(n) + 1 /\ Len(Right(n)) = Len(n) + 1
        BY <4>1, Turn DEF Left, Right
      <4>3. Depth < Len(Left(n)) + k /\ Depth < Len(Right(n)) + k
        BY <2>2, <4>2, DepthAssumption
      <4> QED BY <2>1, <4>1, <4>3
    <3> QED BY <3>1
  <2> QED BY <2>2
<1>3. Nat \subseteq K
  <2> HIDE DEF K
  <2> QED BY <1>1, <1>2, Numbers
<1>4. ASSUME NEW n \in Futures
      PROVE  n \in S
  <2>1. Depth + 1 \in Nat /\ Len(n) \in Nat
    BY DepthAssumption, TreeIs, NodesAre
  <2>2. Depth < Len(n) + (Depth + 1)
    BY <2>1, DepthAssumption
  <2>3. Depth + 1 \in K
    BY <1>3, <2>1
  <2> QED BY <2>2, <2>3
<1> QED BY <1>4

\* What polling a node does, given what polling its halves does.
PollsFrom(n, p) == [s \in States |-> PollNode(n, p[Left(n)], p[Right(n)], s)]

\* A leaf has no halves to ask.
LEMMA LeavesAskNobody ==
  ASSUME kind \in Trees, NEW n \in Futures, kind[n] \in LeafKinds, NEW p, NEW q
  PROVE  PollsFrom(n, p) = PollsFrom(n, q)
<1>1. kind[n] = "event" \/ kind[n] = "yield"
  BY DEF LeafKinds
<1>2. ASSUME NEW s \in States
      PROVE  PollNode(n, p[Left(n)], p[Right(n)], s) = PollNode(n, q[Left(n)], q[Right(n)], s)
  BY <1>1 DEF PollNode
<1> QED BY <1>2 DEF PollsFrom

\* Poll is what its definition says, for it goes down the tree only.
LEMMA PollIs ==
  ASSUME kind \in Trees
  PROVE  \A n \in Futures : Poll[n] = PollsFrom(n, Poll)
<1> DEFINE GoodBelow(p, k) == \A n \in Futures : Depth < Len(n) + k => p[n] = PollsFrom(n, p)
           K == {k \in Nat : \E p : p = [n \in Futures |-> p[n]] /\ GoodBelow(p, k)}
<1>1. 0 \in K
  <2> DEFINE p == [n \in Futures |-> n]
  <2>1. p = [n \in Futures |-> p[n]]
    OBVIOUS
  <2>2. \A n \in Futures : ~(Depth < Len(n) + 0)
    BY TreeIs, NodesAre, DepthAssumption
  <2> HIDE DEF p
  <2> QED BY <2>1, <2>2
<1>2. ASSUME NEW k \in Nat, k \in K
      PROVE  k + 1 \in K
  <2>1. PICK p : p = [n \in Futures |-> p[n]] /\ GoodBelow(p, k)
    BY <1>2
  <2> DEFINE q == [n \in Futures |-> PollsFrom(n, p)]
  <2>2. q = [n \in Futures |-> q[n]] /\ \A n \in Futures : q[n] = PollsFrom(n, p)
    OBVIOUS
  <2> HIDE DEF q
  <2>3. ASSUME NEW n \in Futures, Depth < Len(n) + (k + 1)
        PROVE  q[n] = PollsFrom(n, q)
    <3>1. CASE kind[n] \in LeafKinds
      BY <2>2, <3>1, LeavesAskNobody
    <3>2. CASE kind[n] \notin LeafKinds
      <4>1. n \in Inner /\ Left(n) \in Futures /\ Right(n) \in Futures
        BY <3>2, TreeIs
      <4>2. Len(n) \in Nat /\ Len(Left(n)) = Len(n) + 1 /\ Len(Right(n)) = Len(n) + 1
        BY <4>1, Turn DEF Left, Right
      <4>3. Depth < Len(Left(n)) + k /\ Depth < Len(Right(n)) + k
        BY <2>3, <4>2, DepthAssumption
      <4>4. p[Left(n)] = q[Left(n)] /\ p[Right(n)] = q[Right(n)]
        BY <2>1, <2>2, <4>1, <4>3
      <4> QED BY <2>2, <4>4 DEF PollsFrom
    <3> QED BY <3>1, <3>2
  <2> QED BY <2>2, <2>3
<1>3. Depth + 1 \in K
  <2>1. Nat \subseteq K
    <3> HIDE DEF K
    <3> QED BY <1>1, <1>2, Numbers
  <2> QED BY <2>1, DepthAssumption
<1>4. PICK p : p = [n \in Futures |-> p[n]] /\ GoodBelow(p, Depth + 1)
  BY <1>3
<1>5. \A n \in Futures : Depth < Len(n) + (Depth + 1)
  BY TreeIs, NodesAre, DepthAssumption
<1>6. \A n \in Futures : p[n] = PollsFrom(n, p)
  BY <1>4, <1>5
<1> DEFINE Good(f) == f = [n \in Futures |-> [s \in States |-> PollNode(n, f[Left(n)], f[Right(n)], s)]]
<1>7. p = [n \in Futures |-> PollsFrom(n, p)]
  BY <1>4, <1>6
<1>8. Good(p)
  BY <1>7 DEF PollsFrom
<1>9. Poll = CHOOSE f : Good(f)
  BY DEF Poll
<1>10. Good(Poll)
  <2> HIDE DEF Good
  <2> QED BY <1>8, <1>9
<1> DEFINE W == Poll
<1>11. W = [n \in Futures |-> PollsFrom(n, W)]
  BY <1>10 DEF PollsFrom
<1> HIDE DEF W
<1>12. \A n \in Futures : W[n] = PollsFrom(n, W)
  BY <1>11
<1> QED BY <1>12 DEF W

----------------------------------------------------------------------------
(* What a future may return.                                               *)

\* What n may return, given what all others may.
OutputsFrom(n, o, R, Y) == OutputsOf(n, o[Left(n)], o[Right(n)], R, Y)

\* A leaf has no halves.
LEMMA LeavesStandAlone ==
  ASSUME kind \in Trees, NEW n \in Futures, kind[n] \in LeafKinds, NEW p, NEW q, NEW R, NEW Y
  PROVE  OutputsFrom(n, p, R, Y) = OutputsFrom(n, q, R, Y)
  BY DEF OutputsFrom, OutputsOf, LeafKinds

\* OutputsWhen is what its definition says.
LEMMA OutputsAre ==
  ASSUME kind \in Trees, NEW R, NEW Y
  PROVE  \A n \in Futures : OutputsWhen(R, Y)[n] = OutputsFrom(n, OutputsWhen(R, Y), R, Y)
<1> DEFINE GoodBelow(p, k) == \A n \in Futures : Depth < Len(n) + k => p[n] = OutputsFrom(n, p, R, Y)
           K == {k \in Nat : \E p : p = [n \in Futures |-> p[n]] /\ GoodBelow(p, k)}
<1>1. 0 \in K
  <2> DEFINE p == [n \in Futures |-> n]
  <2>1. p = [n \in Futures |-> p[n]]
    OBVIOUS
  <2>2. \A n \in Futures : ~(Depth < Len(n) + 0)
    BY TreeIs, NodesAre, DepthAssumption
  <2> HIDE DEF p
  <2> QED BY <2>1, <2>2
<1>2. ASSUME NEW k \in Nat, k \in K
      PROVE  k + 1 \in K
  <2>1. PICK p : p = [n \in Futures |-> p[n]] /\ GoodBelow(p, k)
    BY <1>2
  <2> DEFINE q == [n \in Futures |-> OutputsFrom(n, p, R, Y)]
  <2>2. q = [n \in Futures |-> q[n]] /\ \A n \in Futures : q[n] = OutputsFrom(n, p, R, Y)
    OBVIOUS
  <2> HIDE DEF q
  <2>3. ASSUME NEW n \in Futures, Depth < Len(n) + (k + 1)
        PROVE  q[n] = OutputsFrom(n, q, R, Y)
    <3>1. CASE kind[n] \in LeafKinds
      BY <2>2, <3>1, LeavesStandAlone
    <3>2. CASE kind[n] \notin LeafKinds
      <4>1. n \in Inner /\ Left(n) \in Futures /\ Right(n) \in Futures
        BY <3>2, TreeIs
      <4>2. Len(n) \in Nat /\ Len(Left(n)) = Len(n) + 1 /\ Len(Right(n)) = Len(n) + 1
        BY <4>1, Turn DEF Left, Right
      <4>3. Depth < Len(Left(n)) + k /\ Depth < Len(Right(n)) + k
        BY <2>3, <4>2, DepthAssumption
      <4>4. p[Left(n)] = q[Left(n)] /\ p[Right(n)] = q[Right(n)]
        BY <2>1, <2>2, <4>1, <4>3
      <4> QED BY <2>2, <4>4 DEF OutputsFrom
    <3> QED BY <3>1, <3>2
  <2> QED BY <2>2, <2>3
<1>3. Depth + 1 \in K
  <2>1. Nat \subseteq K
    <3> HIDE DEF K
    <3> QED BY <1>1, <1>2, Numbers
  <2> QED BY <2>1, DepthAssumption
<1>4. PICK p : p = [n \in Futures |-> p[n]] /\ GoodBelow(p, Depth + 1)
  BY <1>3
<1>5. \A n \in Futures : Depth < Len(n) + (Depth + 1)
  BY TreeIs, NodesAre, DepthAssumption
<1>6. \A n \in Futures : p[n] = OutputsFrom(n, p, R, Y)
  BY <1>4, <1>5
<1> DEFINE Good(f) == f = [n \in Futures |-> OutputsOf(n, f[Left(n)], f[Right(n)], R, Y)]
<1>7. p = [n \in Futures |-> OutputsFrom(n, p, R, Y)]
  BY <1>4, <1>6
<1>8. Good(p)
  BY <1>7 DEF OutputsFrom
<1>9. OutputsWhen(R, Y) = CHOOSE f : Good(f)
  BY DEF OutputsWhen
<1>10. Good(OutputsWhen(R, Y))
  <2> HIDE DEF Good
  <2> QED BY <1>8, <1>9
<1> DEFINE W == OutputsWhen(R, Y)
<1>11. W = [n \in Futures |-> OutputsFrom(n, W, R, Y)]
  BY <1>10 DEF OutputsFrom
<1> HIDE DEF W
<1>12. \A n \in Futures : W[n] = OutputsFrom(n, W, R, Y)
  BY <1>11
<1> QED BY <1>12 DEF W

\* An event returns when it has happened.
LEMMA EventOutputs ==
  ASSUME kind \in Trees, NEW R, NEW Y, NEW n \in Futures, kind[n] = "event"
  PROVE  OutputsWhen(R, Y)[n] = IF n \in R THEN {{n}} ELSE {}
<1> DEFINE W == OutputsWhen(R, Y)
<1>1. W[n] = OutputsOf(n, W[Left(n)], W[Right(n)], R, Y)
  BY OutputsAre DEF OutputsFrom
<1> HIDE DEF W
<1>2. W[n] = IF n \in R THEN {{n}} ELSE {}
  BY <1>1 DEF OutputsOf
<1> QED BY <1>2 DEF W

\* A YieldNow returns when it has yielded.
LEMMA YieldOutputs ==
  ASSUME kind \in Trees, NEW R, NEW Y, NEW n \in Futures, kind[n] = "yield"
  PROVE  OutputsWhen(R, Y)[n] = IF n \in Y THEN {{n}} ELSE {}
<1> DEFINE W == OutputsWhen(R, Y)
<1>1. W[n] = OutputsOf(n, W[Left(n)], W[Right(n)], R, Y)
  BY OutputsAre DEF OutputsFrom
<1> HIDE DEF W
<1>2. W[n] = IF n \in Y THEN {{n}} ELSE {}
  BY <1>1 DEF OutputsOf
<1> QED BY <1>2 DEF W

\* A race returns what one of its halves returns.
LEMMA RaceOutputs ==
  ASSUME kind \in Trees, NEW R, NEW Y, NEW n \in Futures, kind[n] \in {"race", "timeout"}
  PROVE  OutputsWhen(R, Y)[n] = OutputsWhen(R, Y)[Left(n)] \cup OutputsWhen(R, Y)[Right(n)]
<1> DEFINE W == OutputsWhen(R, Y)
<1>1. W[n] = OutputsOf(n, W[Left(n)], W[Right(n)], R, Y)
  BY OutputsAre DEF OutputsFrom
<1> HIDE DEF W
<1>2. W[n] = W[Left(n)] \cup W[Right(n)]
  BY <1>1 DEF OutputsOf
<1> QED BY <1>2 DEF W

\* A join returns what both of its halves return.
LEMMA JoinOutputs ==
  ASSUME kind \in Trees, NEW R, NEW Y, NEW n \in Futures, kind[n] = "join"
  PROVE  OutputsWhen(R, Y)[n] =
           {a \cup b : a \in OutputsWhen(R, Y)[Left(n)], b \in OutputsWhen(R, Y)[Right(n)]}
<1> DEFINE W == OutputsWhen(R, Y)
<1>1. W[n] = OutputsOf(n, W[Left(n)], W[Right(n)], R, Y)
  BY OutputsAre DEF OutputsFrom
<1> HIDE DEF W
<1>2. W[n] =
           {a \cup b : a \in W[Left(n)], b \in W[Right(n)]}
  BY <1>1 DEF OutputsOf
<1> QED BY <1>2 DEF W

\* A delay returns what its first half returns, after the second.
LEMMA DelayOutputs ==
  ASSUME kind \in Trees, NEW R, NEW Y, NEW n \in Futures, kind[n] = "delay"
  PROVE  OutputsWhen(R, Y)[n] =
           IF OutputsWhen(R, Y)[Right(n)] = {} THEN {} ELSE OutputsWhen(R, Y)[Left(n)]
<1> DEFINE W == OutputsWhen(R, Y)
<1>1. W[n] = OutputsOf(n, W[Left(n)], W[Right(n)], R, Y)
  BY OutputsAre DEF OutputsFrom
<1> HIDE DEF W
<1>2. W[n] =
           IF W[Right(n)] = {} THEN {} ELSE W[Left(n)]
  BY <1>1 DEF OutputsOf
<1> QED BY <1>2 DEF W

\* What was ready or had yielded under n is so still.
Grows(n, R, Y, R2, Y2) ==
  \A m \in Below(n) : (m \in R => m \in R2) /\ (m \in Y => m \in Y2)

\* The more has happened under a node, the more it may return.
LEMMA OutputsGrow ==
  ASSUME kind \in Trees, NEW R, NEW Y, NEW R2, NEW Y2, NEW n \in Futures, Grows(n, R, Y, R2, Y2)
  PROVE  OutputsWhen(R, Y)[n] \subseteq OutputsWhen(R2, Y2)[n]
<1> DEFINE V == OutputsWhen(R, Y)
           W == OutputsWhen(R2, Y2)
           S == {m \in Futures : Grows(m, R, Y, R2, Y2) => V[m] \subseteq W[m]}
<1>1. ASSUME NEW m \in Futures,
             kind[m] \notin LeafKinds => Left(m) \in S /\ Right(m) \in S
      PROVE  m \in S
  <2> SUFFICES ASSUME Grows(m, R, Y, R2, Y2)
               PROVE  V[m] \subseteq W[m]
    OBVIOUS
  <2>1. CASE kind[m] \in LeafKinds
    <3>1. m \in Below(m)
      BY TreeIs, BelowHolds
    <3>2. (m \in R => m \in R2) /\ (m \in Y => m \in Y2)
      BY <3>1 DEF Grows
    <3>3. CASE kind[m] = "event"
      <4>1. /\ V[m] = IF m \in R THEN {{m}} ELSE {}
            /\ W[m] = IF m \in R2 THEN {{m}} ELSE {}
        BY <3>3, EventOutputs
      <4> HIDE DEF V, W
      <4> QED BY <3>2, <4>1
    <3>4. CASE kind[m] = "yield"
      <4>1. /\ V[m] = IF m \in Y THEN {{m}} ELSE {}
            /\ W[m] = IF m \in Y2 THEN {{m}} ELSE {}
        BY <3>4, YieldOutputs
      <4> HIDE DEF V, W
      <4> QED BY <3>2, <4>1
    <3> QED BY <2>1, <3>3, <3>4 DEF LeafKinds
  <2>2. CASE kind[m] \notin LeafKinds
    <3>1. kind[m] \in Combined /\ m \in Inner
      BY <2>2, TreeIs
    <3>2. Grows(Left(m), R, Y, R2, Y2) /\ Grows(Right(m), R, Y, R2, Y2)
      BY <3>1, Halves DEF Grows
    <3>3. V[Left(m)] \subseteq W[Left(m)] /\ V[Right(m)] \subseteq W[Right(m)]
      BY <1>1, <2>2, <3>2
    <3> HIDE DEF S
    <3>4. CASE kind[m] \in {"race", "timeout"}
      <4>1. V[m] = V[Left(m)] \cup V[Right(m)] /\ W[m] = W[Left(m)] \cup W[Right(m)]
        BY <3>4, RaceOutputs
      <4> HIDE DEF V, W
      <4> QED BY <3>3, <4>1
    <3>5. CASE kind[m] = "join"
      <4>1. /\ V[m] = {a \cup b : a \in V[Left(m)], b \in V[Right(m)]}
            /\ W[m] = {a \cup b : a \in W[Left(m)], b \in W[Right(m)]}
        BY <3>5, JoinOutputs
      <4> HIDE DEF V, W
      <4> QED BY <3>3, <4>1
    <3>6. CASE kind[m] = "delay"
      <4>1. /\ V[m] = IF V[Right(m)] = {} THEN {} ELSE V[Left(m)]
            /\ W[m] = IF W[Right(m)] = {} THEN {} ELSE W[Left(m)]
        BY <3>6, DelayOutputs
      <4> HIDE DEF V, W
      <4> QED BY <3>3, <4>1
    <3> QED BY <3>1, <3>4, <3>5, <3>6 DEF Combined
  <2> QED BY <2>1, <2>2
<1>2. Futures \subseteq S
  <2> HIDE DEF S
  <2> QED BY <1>1, FromTheLeaves
<1> QED BY <1>2

\* An output is made of leaves under the node, at least one.
LEMMA OutputsAreBelow ==
  ASSUME kind \in Trees, NEW R, NEW Y, NEW n \in Futures, NEW o \in OutputsWhen(R, Y)[n]
  PROVE  o # {} /\ o \subseteq Below(n)
<1> DEFINE W == OutputsWhen(R, Y)
           S == {m \in Futures : \A x \in W[m] : x # {} /\ x \subseteq Below(m)}
<1>1. ASSUME NEW m \in Futures,
             kind[m] \notin LeafKinds => Left(m) \in S /\ Right(m) \in S
      PROVE  m \in S
  <2> SUFFICES ASSUME NEW x \in W[m]
               PROVE  x # {} /\ x \subseteq Below(m)
    OBVIOUS
  <2>1. CASE kind[m] \in LeafKinds
    <3>1. m \in Below(m)
      BY TreeIs, BelowHolds
    <3>2. CASE kind[m] = "event"
      <4>1. W[m] = IF m \in R THEN {{m}} ELSE {}
        BY <3>2, EventOutputs
      <4> HIDE DEF W
      <4> QED BY <3>1, <4>1
    <3>3. CASE kind[m] = "yield"
      <4>1. W[m] = IF m \in Y THEN {{m}} ELSE {}
        BY <3>3, YieldOutputs
      <4> HIDE DEF W
      <4> QED BY <3>1, <4>1
    <3> QED BY <2>1, <3>2, <3>3 DEF LeafKinds
  <2>2. CASE kind[m] \notin LeafKinds
    <3>1. kind[m] \in Combined /\ m \in Inner
      BY <2>2, TreeIs
    <3>2. /\ \A y \in W[Left(m)] : y # {} /\ y \subseteq Below(Left(m))
          /\ \A y \in W[Right(m)] : y # {} /\ y \subseteq Below(Right(m))
      BY <1>1, <2>2
    <3>3. Below(Left(m)) \subseteq Below(m) /\ Below(Right(m)) \subseteq Below(m)
      BY <3>1, Halves
    <3> HIDE DEF S
    <3>4. CASE kind[m] \in {"race", "timeout"}
      <4>1. W[m] = W[Left(m)] \cup W[Right(m)]
        BY <3>4, RaceOutputs
      <4> HIDE DEF W
      <4> QED BY <3>2, <3>3, <4>1
    <3>5. CASE kind[m] = "join"
      <4>1. W[m] = {a \cup b : a \in W[Left(m)], b \in W[Right(m)]}
        BY <3>5, JoinOutputs
      <4> HIDE DEF W
      <4> QED BY <3>2, <3>3, <4>1
    <3>6. CASE kind[m] = "delay"
      <4>1. W[m] = IF W[Right(m)] = {} THEN {} ELSE W[Left(m)]
        BY <3>6, DelayOutputs
      <4> HIDE DEF W
      <4> QED BY <3>2, <3>3, <4>1
    <3> QED BY <3>1, <3>4, <3>5, <3>6 DEF Combined
  <2> QED BY <2>1, <2>2
<1>2. Futures \subseteq S
  <2> HIDE DEF S
  <2> QED BY <1>1, FromTheLeaves
<1> QED BY <1>2

----------------------------------------------------------------------------
(* What a poll may assume and what it does.                                *)

\* From s to t only the futures in B and what is kept about them change, and
\* wakers, yields and wake-ups are not taken back.
Within(B, s, t) ==
  /\ \A m \in Nodes \ B :
       /\ t.res[m] = s.res[m]
       /\ m \in t.delay <=> m \in s.delay
       /\ m \in t.yielded <=> m \in s.yielded
       /\ m \in t.ended <=> m \in s.ended
  /\ s.asked \subseteq t.asked
  /\ s.yielded \subseteq t.yielded
  /\ s.woke => t.woke
  /\ ~t.woke => t.yielded = s.yielded

\* Half h of a join, whose result is o if it has returned.
HalfKept(h, o, s) ==
  IF o.ready THEN o.of \in OutputsWhen(ready, s.yielded)[h]
  ELSE h \notin s.ended /\ o = Pending

\* Between two polls only a join that has not returned keeps a result, of at
\* most one half and a possible one. What is asked next has not returned, and
\* a delay that is gone had elapsed.
TidyAt(m, s) ==
  /\ kind[m] # "join" \/ m \in s.ended => s.res[m] = NoResults
  /\ m \in Futures \ s.ended =>
       /\ kind[m] \in {"race", "timeout"} => Left(m) \notin s.ended /\ Right(m) \notin s.ended
       /\ kind[m] = "join" =>
            /\ HalfKept(Left(m), s.res[m][1], s) /\ HalfKept(Right(m), s.res[m][2], s)
            /\ ~(s.res[m][1].ready /\ s.res[m][2].ready)
       /\ kind[m] = "delay" =>
            /\ Left(m) \notin s.ended
            /\ m \in s.delay => Right(m) \notin s.ended
            /\ m \notin s.delay => OutputsWhen(ready, s.yielded)[Right(m)] # {}

Tidy(n, s) == \A m \in Below(n) : TidyAt(m, s)

\* The state between two calls within a poll.
Typed(s) ==
  /\ s \in States
  /\ s.asked \subseteq Events /\ s.delay \subseteq Inner
  /\ s.again = {}

\* What a future is asked in.
Askable(n, s) == Typed(s) /\ n \notin s.ended /\ Tidy(n, s)

\* All that may have happened when the wakers kept in s have not been called.
Unheard(s) == ready \cup (Nodes \ s.asked)

\* The poll of n from s to t had outcome o: an output n may return, or n can
\* return nothing before one of the wakers in t is called.
Answer(n, s, t, o) ==
  /\ o \in Outcomes
  /\ o.ready <=> n \in t.ended
  /\ o.ready => o.of \in OutputsWhen(ready, s.yielded)[n]
  /\ ~o.ready => o = Pending /\ OutputsWhen(Unheard(t), s.yielded)[n] = {}

\* A timeout returns what its future returns, if that can return.
FutureFirst(n, s, o) ==
  kind[n] = "timeout" /\ o.ready /\ OutputsWhen(ready, s.yielded)[Left(n)] # {} =>
    o.of \in OutputsWhen(ready, s.yielded)[Left(n)]

\* What p, the poll of n in s, must be.
Good(n, s, p) ==
  /\ p \in [s : States, out : Outcomes]
  /\ Typed(p.s)
  /\ Within(Below(n), s, p.s)
  /\ Tidy(n, p.s)
  /\ Answer(n, s, p.s, p.out)
  /\ FutureFirst(n, s, p.out)

\* f polls n as it must.
PollsWell(n, f) == \A s \in States : Askable(n, s) => Good(n, s, f[s])

\* No results is a pair of outcomes.
LEMMA NothingKept ==
  /\ Pending \in Outcomes /\ ~Pending.ready /\ Pending.of = {}
  /\ NoResults \in [{1, 2} -> Outcomes] /\ NoResults[1] = Pending /\ NoResults[2] = Pending
<1>1. Pending \in Outcomes /\ ~Pending.ready /\ Pending.of = {}
  BY DEF Pending, Outcomes
<1>2. NoResults[1] = Pending /\ NoResults[2] = Pending
  BY DEF NoResults
<1>3. NoResults \in [{1, 2} -> Outcomes]
  BY <1>1 DEF NoResults
<1> QED BY <1>1, <1>2, <1>3

\* What an outcome is made of.
LEMMA OutcomesAre ==
  ASSUME NEW o \in Outcomes
  PROVE  o.ready \in BOOLEAN /\ o.of \subseteq Nodes
  BY DEF Outcomes

\* One change after the other.
LEMMA WithinBoth ==
  ASSUME NEW B, NEW C, NEW D, NEW s, NEW t, NEW u,
         Within(B, s, t), Within(C, t, u), B \subseteq D, C \subseteq D
  PROVE  Within(D, s, u)
<1>1. \A m \in Nodes \ D : m \in Nodes \ B /\ m \in Nodes \ C
  OBVIOUS
<1>2. ASSUME NEW m \in Nodes \ D
      PROVE  /\ u.res[m] = s.res[m]
             /\ m \in u.delay <=> m \in s.delay
             /\ m \in u.yielded <=> m \in s.yielded
             /\ m \in u.ended <=> m \in s.ended
  BY <1>1 DEF Within
<1>3. s.asked \subseteq u.asked /\ s.yielded \subseteq u.yielded
  BY DEF Within
<1>4. (s.woke => u.woke) /\ (~u.woke => u.yielded = s.yielded)
  BY DEF Within
<1> QED BY <1>2, <1>3, <1>4 DEF Within

\* Nothing has to change.
LEMMA WithinNothing ==
  ASSUME NEW B, NEW s
  PROVE  Within(B, s, s)
  BY DEF Within

\* A node none of whose surroundings change stays tidy.
LEMMA TidyAtStays ==
  ASSUME kind \in Trees, NEW m \in Nodes, NEW B, NEW s, NEW t, Within(B, s, t), m \notin B,
         m \in Inner => Left(m) \notin B /\ Right(m) \notin B, TidyAt(m, s)
  PROVE  TidyAt(m, t)
<1>1. t.res[m] = s.res[m] /\ (m \in t.delay <=> m \in s.delay) /\ (m \in t.ended <=> m \in s.ended)
  BY DEF Within
<1>2. kind[m] # "join" \/ m \in t.ended => t.res[m] = NoResults
  BY <1>1 DEF TidyAt
<1>3. ASSUME m \in Futures \ t.ended, kind[m] \notin LeafKinds
      PROVE  TidyAt(m, t)
  <2>1. m \in Inner /\ m \in Futures \ s.ended /\ Left(m) \in Futures /\ Right(m) \in Futures /\ Futures \subseteq Nodes
    BY <1>1, <1>3, TreeIs
  <2>2. (Left(m) \in t.ended <=> Left(m) \in s.ended) /\ (Right(m) \in t.ended <=> Right(m) \in s.ended)
    BY <2>1 DEF Within
  <2>3. \A h \in Futures : OutputsWhen(ready, s.yielded)[h] \subseteq OutputsWhen(ready, t.yielded)[h]
    <3>1. \A h \in Futures : Grows(h, ready, s.yielded, ready, t.yielded)
      BY DEF Grows, Within
    <3> QED BY <3>1, OutputsGrow
  <2>4. kind[m] \in {"race", "timeout"} => Left(m) \notin t.ended /\ Right(m) \notin t.ended
    BY <2>1, <2>2 DEF TidyAt
  <2>5. ASSUME kind[m] = "join"
        PROVE  /\ HalfKept(Left(m), t.res[m][1], t) /\ HalfKept(Right(m), t.res[m][2], t)
               /\ ~(t.res[m][1].ready /\ t.res[m][2].ready)
    <3>1. /\ HalfKept(Left(m), t.res[m][1], s) /\ HalfKept(Right(m), t.res[m][2], s)
          /\ ~(t.res[m][1].ready /\ t.res[m][2].ready)
      BY <1>1, <2>1, <2>5 DEF TidyAt
    <3> QED BY <2>1, <2>2, <2>3, <3>1 DEF HalfKept
  <2>6. ASSUME kind[m] = "delay"
        PROVE  /\ Left(m) \notin t.ended
               /\ m \in t.delay => Right(m) \notin t.ended
               /\ m \notin t.delay => OutputsWhen(ready, t.yielded)[Right(m)] # {}
    <3>1. /\ Left(m) \notin s.ended
          /\ m \in t.delay => Right(m) \notin s.ended
          /\ m \notin t.delay => OutputsWhen(ready, s.yielded)[Right(m)] # {}
      BY <1>1, <2>1, <2>6 DEF TidyAt
    <3>2. OutputsWhen(ready, s.yielded)[Right(m)] \subseteq OutputsWhen(ready, t.yielded)[Right(m)]
      BY <2>1, <2>3
    <3> QED BY <2>2, <3>1, <3>2
  <2> QED BY <1>2, <2>4, <2>5, <2>6 DEF TidyAt
<1>4. ASSUME m \in Futures \ t.ended, kind[m] \in LeafKinds
      PROVE  TidyAt(m, t)
  BY <1>2, <1>4 DEF TidyAt, LeafKinds
<1>5. ASSUME m \notin Futures \ t.ended
      PROVE  TidyAt(m, t)
  BY <1>2, <1>5 DEF TidyAt
<1> QED BY <1>3, <1>4, <1>5

\* A tree none of which changes stays tidy.
LEMMA TidyStays ==
  ASSUME kind \in Trees, NEW n \in Nodes, NEW B, NEW s, NEW t, Within(B, s, t),
         B \cap Below(n) = {}, Tidy(n, s)
  PROVE  Tidy(n, t)
<1>1. ASSUME NEW m \in Below(n)
      PROVE  TidyAt(m, t)
  <2>1. m \in Nodes /\ m \notin B /\ (m \in Inner => Left(m) \notin B /\ Right(m) \notin B)
    BY BelowHolds
  <2> QED BY <2>1, TidyAtStays DEF Tidy
<1> QED BY <1>1 DEF Tidy

\* The state between two calls within the poll of n.
Asking(n, s) ==
  /\ Typed(s) /\ n \notin s.ended
  /\ n \in Inner => Tidy(Left(n), s) /\ Tidy(Right(n), s)

\* So is the state at the beginning.
LEMMA Begins ==
  ASSUME NEW n \in Nodes, NEW s, Askable(n, s)
  PROVE  Asking(n, s) /\ TidyAt(n, s)
<1>1. n \in Inner => Tidy(Left(n), s) /\ Tidy(Right(n), s)
  BY Halves DEF Askable, Tidy
<1>2. TidyAt(n, s)
  BY BelowHolds DEF Askable, Tidy
<1> QED BY <1>1, <1>2 DEF Askable, Asking

\* The books of a poll.
Booked(n, p) == IF p.out.ready THEN [p EXCEPT !.s.ended = @ \cup {n}] ELSE p

\* A poll that comes to the right outcome, and leaves both halves tidy.
Comes(n, s, p) ==
  /\ p \in [s : States, out : Outcomes]
  /\ Asking(n, p.s)
  /\ Within(Below(n), s, p.s)
  /\ p.out.ready =>
       p.s.res[n] = NoResults /\ p.out.of \in OutputsWhen(ready, s.yielded)[n]
  /\ ~p.out.ready =>
       p.out = Pending /\ TidyAt(n, p.s) /\ OutputsWhen(Unheard(p.s), s.yielded)[n] = {}
  /\ FutureFirst(n, s, p.out)

\* Such a poll is good.
LEMMA Closing ==
  ASSUME kind \in Trees, NEW n \in Futures, NEW s, NEW p, Comes(n, s, p)
  PROVE  Good(n, s, Booked(n, p))
<1>1. n \in Nodes /\ p.s \in States /\ p.out \in Outcomes /\ n \in Below(n)
  BY TreeIs, BelowHolds DEF Comes
<1>2. ASSUME NEW m \in Below(n), m # n
      PROVE  n \in Inner /\ (m \in Below(Left(n)) \/ m \in Below(Right(n)))
  BY <1>1, <1>2, OverHalf DEF Left, Right
<1>3. CASE ~p.out.ready
  <2>1. Booked(n, p) = p
    BY <1>3 DEF Booked
  <2>2. Tidy(n, p.s)
    BY <1>2, <1>3 DEF Comes, Asking, Tidy
  <2>3. Answer(n, s, p.s, p.out)
    BY <1>1, <1>3 DEF Answer, Comes, Asking
  <2> QED BY <2>1, <2>2, <2>3 DEF Good, Comes, Asking
<1>4. CASE p.out.ready
  <2> DEFINE t == [p.s EXCEPT !.ended = @ \cup {n}]
  <2>1. Booked(n, p) = [s |-> t, out |-> p.out]
    BY <1>4 DEF Booked, Comes
  <2>2. /\ t \in States /\ t.res = p.s.res /\ t.delay = p.s.delay /\ t.yielded = p.s.yielded
        /\ t.asked = p.s.asked /\ t.woke = p.s.woke /\ t.ended = p.s.ended \cup {n} /\ t.again = p.s.again
    BY <1>1 DEF States
  <2> HIDE DEF t
  <2>3. Within({n}, p.s, t)
    BY <2>2 DEF Within
  <2>4. Within(Below(n), s, t)
    <3>1. {n} \subseteq Below(n) /\ Below(n) \subseteq Below(n)
      BY <1>1
    <3> QED BY <2>3, <3>1, WithinBoth DEF Comes
  <2>5. ASSUME NEW m \in Below(n)
        PROVE  TidyAt(m, t)
    <3>1. CASE m = n
      BY <1>4, <2>2, <3>1 DEF TidyAt, Comes
    <3>2. CASE m # n
      <4>1. n \in Inner /\ (m \in Below(Left(n)) \/ m \in Below(Right(n)))
        BY <1>2, <3>2
      <4>2. /\ Left(n) \in Nodes /\ Right(n) \in Nodes
            /\ {n} \cap Below(Left(n)) = {} /\ {n} \cap Below(Right(n)) = {}
        BY <4>1, Halves
      <4>3. Tidy(Left(n), p.s) /\ Tidy(Right(n), p.s)
        BY <4>1 DEF Comes, Asking
      <4>4. Tidy(Left(n), t) /\ Tidy(Right(n), t)
        BY <2>3, <4>2, <4>3, TidyStays
      <4> QED BY <4>1, <4>4 DEF Tidy
    <3> QED BY <3>1, <3>2
  <2>6. Typed(t)
    BY <2>2 DEF Typed, Comes, Asking
  <2>7. Answer(n, s, t, p.out)
    BY <1>1, <1>4, <2>2 DEF Answer, Comes
  <2>8. [s |-> t, out |-> p.out] \in [s : States, out : Outcomes]
    BY <1>1, <2>2
  <2>9. Good(n, s, [s |-> t, out |-> p.out])
    BY <2>4, <2>5, <2>6, <2>7, <2>8 DEF Good, Tidy, Comes
  <2> QED BY <2>1, <2>9
<1> QED BY <1>3, <1>4

----------------------------------------------------------------------------
(* Kind by kind.                                                           *)

\* A poll of a future that has not returned.
LEMMA FirstPoll ==
  ASSUME NEW n, NEW l, NEW r, NEW s, n \notin s.ended
  PROVE  /\ kind[n] = "event" => PollNode(n, l, r, s) = Booked(n, PollEvent(n, s))
         /\ kind[n] = "yield" => PollNode(n, l, r, s) = Booked(n, PollYield(n, s))
         /\ kind[n] = "race" => PollNode(n, l, r, s) = Booked(n, PollRace(n, l, r, s))
         /\ kind[n] = "join" => PollNode(n, l, r, s) = Booked(n, PollJoin(n, l, r, s))
         /\ kind[n] = "timeout" => PollNode(n, l, r, s) = Booked(n, PollTimeout(n, l, r, s))
         /\ kind[n] = "delay" => PollNode(n, l, r, s) = Booked(n, PollDelay(n, l, r, s))
  BY DEF PollNode, Booked

\* An outcome that is ready.
LEMMA ReadyIs ==
  ASSUME NEW X, X \subseteq Nodes
  PROVE  Ready(X) \in Outcomes /\ Ready(X).ready /\ Ready(X).of = X
  BY DEF Ready, Outcomes

\* An event that has not happened keeps the waker.
LEMMA EventPolls ==
  ASSUME kind \in Trees, NEW n \in Futures, NEW s \in States, Askable(n, s), kind[n] = "event"
  PROVE  Comes(n, s, PollEvent(n, s))
<1>1. n \in Nodes /\ n \in Events /\ Asking(n, s) /\ TidyAt(n, s)
  BY TreeIs, Begins DEF Events
<1>2. FutureFirst(n, s, PollEvent(n, s).out)
  BY DEF FutureFirst
<1>3. CASE n \in ready
  <2>1. PollEvent(n, s) = [s |-> s, out |-> Ready({n})]
    BY <1>3 DEF PollEvent
  <2>2. OutputsWhen(ready, s.yielded)[n] = {{n}}
    BY <1>3, EventOutputs
  <2>3. s.res[n] = NoResults
    BY <1>1 DEF TidyAt
  <2>4. Ready({n}) \in Outcomes /\ Ready({n}).ready /\ Ready({n}).of = {n}
    BY <1>1, ReadyIs
  <2>5. Comes(n, s, [s |-> s, out |-> Ready({n})])
    BY <1>1, <1>2, <2>1, <2>2, <2>3, <2>4, WithinNothing DEF Comes
  <2> QED BY <2>1, <2>5
<1>4. CASE n \notin ready
  <2> DEFINE t == [s EXCEPT !.asked = @ \cup {n}]
  <2>1. PollEvent(n, s) = [s |-> t, out |-> Pending]
    BY <1>4 DEF PollEvent
  <2>2. /\ t \in States /\ t.res = s.res /\ t.delay = s.delay /\ t.yielded = s.yielded
        /\ t.asked = s.asked \cup {n} /\ t.woke = s.woke /\ t.ended = s.ended /\ t.again = s.again
    BY <1>1 DEF States
  <2> HIDE DEF t
  <2>3. Within({}, s, t) /\ Within(Below(n), s, t)
    BY <2>2 DEF Within
  <2>4. OutputsWhen(Unheard(t), s.yielded)[n] = {}
    <3>1. n \notin Unheard(t)
      BY <1>4, <2>2 DEF Unheard
    <3> QED BY <3>1, EventOutputs
  <2>5. Asking(n, t)
    <3>1. Typed(t) /\ n \notin t.ended
      BY <1>1, <2>2 DEF Asking, Typed
    <3>2. ASSUME n \in Inner
          PROVE  Tidy(Left(n), t) /\ Tidy(Right(n), t)
      BY <1>1, <2>3, <3>2, Halves, TidyStays DEF Asking
    <3> QED BY <3>1, <3>2 DEF Asking
  <2>6. TidyAt(n, t)
    BY <1>1, <2>3, TidyAtStays
  <2>7. Comes(n, s, [s |-> t, out |-> Pending])
    BY <1>2, <2>1, <2>2, <2>3, <2>4, <2>5, <2>6, NothingKept DEF Comes
  <2> QED BY <2>1, <2>7
<1> QED BY <1>3, <1>4

\* A YieldNow that has not yielded wakes its own task.
LEMMA YieldPolls ==
  ASSUME kind \in Trees, NEW n \in Futures, NEW s \in States, Askable(n, s), kind[n] = "yield"
  PROVE  Comes(n, s, PollYield(n, s))
<1>1. n \in Nodes /\ n \in Below(n) /\ Asking(n, s) /\ TidyAt(n, s)
  BY TreeIs, Begins, BelowHolds
<1>2. FutureFirst(n, s, PollYield(n, s).out)
  BY DEF FutureFirst
<1>3. CASE n \in s.yielded
  <2>1. PollYield(n, s) = [s |-> s, out |-> Ready({n})]
    BY <1>3 DEF PollYield
  <2>2. OutputsWhen(ready, s.yielded)[n] = {{n}}
    <3>1. OutputsWhen(ready, s.yielded)[n] = IF n \in s.yielded THEN {{n}} ELSE {}
      BY YieldOutputs
    <3> QED BY <1>3, <3>1
  <2>3. s.res[n] = NoResults
    BY <1>1 DEF TidyAt
  <2>4. Ready({n}) \in Outcomes /\ Ready({n}).ready /\ Ready({n}).of = {n}
    BY <1>1, ReadyIs
  <2>5. Comes(n, s, [s |-> s, out |-> Ready({n})])
    BY <1>1, <1>2, <2>1, <2>2, <2>3, <2>4, WithinNothing DEF Comes
  <2> QED BY <2>1, <2>5
<1>4. CASE n \notin s.yielded
  <2> DEFINE t == [s EXCEPT !.yielded = @ \cup {n}, !.woke = TRUE]
  <2>1. PollYield(n, s) = [s |-> t, out |-> Pending]
    BY <1>4 DEF PollYield
  <2>2. /\ t \in States /\ t.res = s.res /\ t.delay = s.delay /\ t.yielded = s.yielded \cup {n}
        /\ t.asked = s.asked /\ t.woke /\ t.ended = s.ended /\ t.again = s.again
    BY <1>1 DEF States
  <2> HIDE DEF t
  <2>3. Within({n}, s, t) /\ Within(Below(n), s, t)
    BY <1>1, <2>2 DEF Within
  <2>4. OutputsWhen(Unheard(t), s.yielded)[n] = {}
    BY <1>4, YieldOutputs
  <2>5. Asking(n, t)
    <3>1. Typed(t) /\ n \notin t.ended
      BY <1>1, <2>2 DEF Asking, Typed
    <3>2. ASSUME n \in Inner
          PROVE  Tidy(Left(n), t) /\ Tidy(Right(n), t)
      <4>1. /\ Left(n) \in Nodes /\ Right(n) \in Nodes
            /\ {n} \cap Below(Left(n)) = {} /\ {n} \cap Below(Right(n)) = {}
        BY <3>2, Halves
      <4> QED BY <1>1, <2>3, <3>2, <4>1, TidyStays DEF Asking
    <3> QED BY <3>1, <3>2 DEF Asking
  <2>6. TidyAt(n, t)
    BY <1>1, <2>2 DEF TidyAt
  <2>7. Comes(n, s, [s |-> t, out |-> Pending])
    BY <1>2, <2>1, <2>2, <2>3, <2>4, <2>5, <2>6, NothingKept DEF Comes
  <2> QED BY <2>1, <2>7
<1> QED BY <1>3, <1>4

\* h is a half of n, and g the other.
HalvesOf(n, h, g) == (h = Left(n) /\ g = Right(n)) \/ (h = Right(n) /\ g = Left(n))

\* The halves of a node, in either order.
LEMMA HalvesAre ==
  ASSUME kind \in Trees, NEW n \in Futures, kind[n] \notin LeafKinds, NEW h, NEW g, HalvesOf(n, h, g)
  PROVE  /\ n \in Inner /\ n \in Nodes /\ h \in Futures /\ g \in Futures /\ h \in Nodes /\ g \in Nodes
         /\ Below(h) \subseteq Below(n) /\ n \notin Below(h) /\ n \notin Below(g) /\ n \in Below(n)
         /\ Below(h) \cap Below(g) = {} /\ g \notin Below(h) /\ h \in Below(h) /\ g \in Below(g)
<1>1. n \in Inner /\ n \in Nodes /\ Left(n) \in Futures /\ Right(n) \in Futures
  BY TreeIs
<1>2. h \in Futures /\ g \in Futures /\ h \in Nodes /\ g \in Nodes
  BY <1>1, TreeIs DEF HalvesOf
<1>3. Below(h) \subseteq Below(n) /\ n \notin Below(h) /\ n \notin Below(g) /\ Below(h) \cap Below(g) = {}
  BY <1>1, Halves DEF HalvesOf
<1>4. n \in Below(n) /\ h \in Below(h) /\ g \in Below(g)
  BY <1>1, <1>2, BelowHolds
<1> QED BY <1>1, <1>2, <1>3, <1>4

\* A half is asked within the poll of n. The node and the other half are left
\* alone.
LEMMA Asked ==
  ASSUME kind \in Trees, NEW n \in Futures, kind[n] \notin LeafKinds,
         NEW h, NEW g, HalvesOf(n, h, g), NEW f, PollsWell(h, f),
         NEW s, Asking(n, s), h \notin s.ended
  PROVE  /\ Good(h, s, f[s])
         /\ Asking(n, f[s].s)
         /\ f[s].s.res[n] = s.res[n] /\ (n \in f[s].s.delay <=> n \in s.delay)
         /\ g \in f[s].s.ended <=> g \in s.ended
<1> DEFINE t == f[s].s
<1>1. /\ n \in Inner /\ n \in Nodes /\ h \in Nodes /\ g \in Nodes
      /\ n \notin Below(h) /\ g \notin Below(h) /\ Below(h) \cap Below(g) = {}
  BY HalvesAre
<1>2. Askable(h, s)
  BY <1>1 DEF Asking, Askable, HalvesOf
<1>3. s \in States
  BY DEF Asking, Typed
<1>4. Good(h, s, f[s])
  BY <1>2, <1>3 DEF PollsWell
<1>5. Within(Below(h), s, t) /\ Tidy(h, t) /\ Typed(t)
  BY <1>4 DEF Good
<1>6. Tidy(g, s)
  BY <1>1 DEF Asking, HalvesOf
<1> HIDE DEF t
<1>7. Tidy(g, t)
  BY <1>1, <1>5, <1>6, TidyStays
<1>8. /\ t.res[n] = s.res[n] /\ (n \in t.delay <=> n \in s.delay)
      /\ (g \in t.ended <=> g \in s.ended) /\ (n \in t.ended <=> n \in s.ended)
  BY <1>1, <1>5 DEF Within
<1>9. Asking(n, t)
  BY <1>1, <1>5, <1>7, <1>8 DEF Asking, HalvesOf
<1> QED BY <1>4, <1>8, <1>9 DEF t

\* The answer of a half stands while something else is asked.
LEMMA AnswerStays ==
  ASSUME kind \in Trees, NEW h \in Futures, NEW s, NEW t, NEW o, Answer(h, s, t, o),
         NEW B, NEW u, Within(B, t, u), h \notin B
  PROVE  Answer(h, s, u, o)
<1>1. h \in t.ended <=> h \in u.ended
  BY TreeIs DEF Within
<1>2. OutputsWhen(Unheard(u), s.yielded)[h] \subseteq OutputsWhen(Unheard(t), s.yielded)[h]
  <2>1. Unheard(u) \subseteq Unheard(t)
    BY DEF Within, Unheard
  <2>2. Grows(h, Unheard(u), s.yielded, Unheard(t), s.yielded)
    BY <2>1 DEF Grows
  <2> QED BY <2>2, OutputsGrow
<1>3. ~o.ready => OutputsWhen(Unheard(u), s.yielded)[h] = {}
  BY <1>2 DEF Answer
<1> QED BY <1>1, <1>3 DEF Answer

\* What a half may return does not depend on what was asked elsewhere.
LEMMA OutputsElsewhere ==
  ASSUME kind \in Trees, NEW h \in Futures, NEW s, NEW t, NEW B, Within(B, s, t),
         B \cap Below(h) = {}, NEW R
  PROVE  OutputsWhen(R, t.yielded)[h] = OutputsWhen(R, s.yielded)[h]
<1>1. Below(h) \subseteq Nodes
  BY TreeIs, BelowHolds
<1>2. \A m \in Below(h) : m \in t.yielded <=> m \in s.yielded
  BY <1>1 DEF Within
<1>3. Grows(h, R, t.yielded, R, s.yielded) /\ Grows(h, R, s.yielded, R, t.yielded)
  BY <1>2 DEF Grows
<1>4. OutputsWhen(R, t.yielded)[h] \subseteq OutputsWhen(R, s.yielded)[h]
  BY <1>3, OutputsGrow
<1>5. OutputsWhen(R, s.yielded)[h] \subseteq OutputsWhen(R, t.yielded)[h]
  BY <1>3, OutputsGrow
<1> QED BY <1>4, <1>5

\* So an answer is one to the state before something else was asked.
LEMMA AnswerSooner ==
  ASSUME kind \in Trees, NEW h \in Futures, NEW r, NEW s, NEW t, NEW o, Answer(h, s, t, o),
         NEW B, Within(B, r, s), B \cap Below(h) = {}
  PROVE  Answer(h, r, t, o)
<1>1. /\ OutputsWhen(ready, s.yielded)[h] = OutputsWhen(ready, r.yielded)[h]
      /\ OutputsWhen(Unheard(t), s.yielded)[h] = OutputsWhen(Unheard(t), r.yielded)[h]
  BY OutputsElsewhere
<1> QED BY <1>1 DEF Answer

\* More may be returned later.
LEMMA OutputsLater ==
  ASSUME kind \in Trees, NEW h \in Futures, NEW s, NEW t, NEW B, Within(B, s, t), NEW R
  PROVE  OutputsWhen(R, s.yielded)[h] \subseteq OutputsWhen(R, t.yielded)[h]
<1>1. Grows(h, R, s.yielded, R, t.yielded)
  BY DEF Grows, Within
<1> QED BY <1>1, OutputsGrow

\* Half h of n was asked in s, with outcome o, which was written to res[i].
HalfDone(n, h, g, i, s, t, o) ==
  /\ Asking(n, t)
  /\ Within(Below(h) \cup {n}, s, t)
  /\ o \in Outcomes /\ t.res[n] = [s.res[n] EXCEPT ![i] = o]
  /\ Answer(h, s, t, o)
  /\ g \in t.ended <=> g \in s.ended

\* The outcome of a half is written to res.
LEMMA HalfPolled ==
  ASSUME kind \in Trees, NEW n \in Futures, kind[n] \notin LeafKinds,
         NEW h, NEW g, HalvesOf(n, h, g), NEW f, PollsWell(h, f),
         NEW s, Asking(n, s), h \notin s.ended, NEW i \in {1, 2}
  PROVE  HalfDone(n, h, g, i, s, PollHalf(n, i, f, s), f[s].out)
<1> DEFINE u == f[s].s
           o == f[s].out
           t == PollHalf(n, i, f, s)
<1>1. /\ n \in Inner /\ n \in Nodes /\ h \in Nodes /\ g \in Nodes
      /\ n \notin Below(h) /\ n \notin Below(g) /\ g \notin Below(h) /\ h \in Below(h)
  BY HalvesAre
<1>2. Good(h, s, f[s]) /\ Asking(n, u) /\ u.res[n] = s.res[n] /\ (g \in u.ended <=> g \in s.ended)
  BY Asked
<1>3. u \in States /\ o \in Outcomes /\ Within(Below(h), s, u) /\ Answer(h, s, u, o)
  BY <1>2 DEF Good
<1>4. t = [u EXCEPT !.res[n][i] = o]
  BY DEF PollHalf
<1> HIDE DEF u, o, t
<1>5. /\ t.res[n] = [u.res[n] EXCEPT ![i] = o] /\ (\A m \in Nodes \ {n} : t.res[m] = u.res[m])
      /\ t.delay = u.delay /\ t.yielded = u.yielded /\ t.asked = u.asked
      /\ t.woke = u.woke /\ t.ended = u.ended /\ t.again = u.again
  BY <1>1, <1>3, <1>4 DEF States
<1>6. t \in States
  <2> DEFINE v == [u.res EXCEPT ![n][i] = o]
  <2>1. v \in [Nodes -> [{1, 2} -> Outcomes]]
    BY <1>1, <1>3 DEF States
  <2>2. t = [u EXCEPT !.res = v]
    BY <1>3, <1>4 DEF States
  <2> HIDE DEF v
  <2> QED BY <1>3, <2>1, <2>2 DEF States
<1>7. Within({n}, u, t)
  BY <1>5 DEF Within
<1>8. Within(Below(h) \cup {n}, s, t)
  BY <1>3, <1>7, WithinBoth
<1>9. Asking(n, t)
  <2>1. Typed(t) /\ n \notin t.ended
    BY <1>2, <1>5, <1>6 DEF Asking, Typed
  <2>2. /\ Left(n) \in Nodes /\ Right(n) \in Nodes
        /\ {n} \cap Below(Left(n)) = {} /\ {n} \cap Below(Right(n)) = {}
    BY <1>1, Halves
  <2>3. Tidy(Left(n), u) /\ Tidy(Right(n), u)
    BY <1>1, <1>2 DEF Asking
  <2>4. Tidy(Left(n), t) /\ Tidy(Right(n), t)
    BY <1>7, <2>2, <2>3, TidyStays
  <2> QED BY <2>1, <2>4 DEF Asking
<1>10. Answer(h, s, t, o)
  <2>1. h \in Futures /\ h \notin {n}
    BY <1>1, HalvesAre
  <2> QED BY <1>3, <1>7, <2>1, AnswerStays
<1>11. HalfDone(n, h, g, i, s, t, o)
  BY <1>2, <1>3, <1>5, <1>8, <1>9, <1>10 DEF HalfDone
<1> QED BY <1>11 DEF u, o, t

\* The results are taken and returned.
LEMMA Taken ==
  ASSUME kind \in Trees, NEW n \in Futures, NEW s, NEW u, Asking(n, u), Within(Below(n), s, u),
         NEW X, X = u.res[n][1].of \cup u.res[n][2].of,
         X \in OutputsWhen(ready, s.yielded)[n], FutureFirst(n, s, Ready(X))
  PROVE  Comes(n, s, TakeResults(n, u))
<1> DEFINE t == [u EXCEPT !.res[n] = NoResults]
<1>1. TakeResults(n, u) = [s |-> t, out |-> Ready(X)]
  BY DEF TakeResults
<1>2. n \in Nodes /\ u \in States /\ n \in Below(n) /\ Below(n) \subseteq Nodes
  BY TreeIs, BelowHolds DEF Asking, Typed
<1>3. /\ t.res[n] = NoResults /\ (\A m \in Nodes \ {n} : t.res[m] = u.res[m])
      /\ t.delay = u.delay /\ t.yielded = u.yielded /\ t.asked = u.asked
      /\ t.woke = u.woke /\ t.ended = u.ended /\ t.again = u.again
  BY <1>2 DEF States
<1>4. t \in States
  BY <1>2, NothingKept DEF States
<1> HIDE DEF t
<1>5. Within({n}, u, t)
  BY <1>3 DEF Within
<1>6. Within(Below(n), s, t)
  <2>1. {n} \subseteq Below(n) /\ Below(n) \subseteq Below(n)
    BY <1>2
  <2> QED BY <1>5, <2>1, WithinBoth
<1>7. Asking(n, t)
  <2>1. Typed(t) /\ n \notin t.ended
    BY <1>3, <1>4 DEF Asking, Typed
  <2>2. ASSUME n \in Inner
        PROVE  Tidy(Left(n), t) /\ Tidy(Right(n), t)
    <3>1. /\ Left(n) \in Nodes /\ Right(n) \in Nodes
          /\ {n} \cap Below(Left(n)) = {} /\ {n} \cap Below(Right(n)) = {}
      BY <2>2, Halves
    <3>2. Tidy(Left(n), u) /\ Tidy(Right(n), u)
      BY <2>2 DEF Asking
    <3> QED BY <1>5, <3>1, <3>2, TidyStays
  <2> QED BY <2>1, <2>2 DEF Asking
<1>8. Ready(X) \in Outcomes /\ Ready(X).ready /\ Ready(X).of = X
  <2>1. X \subseteq Nodes
    BY <1>2, OutputsAreBelow
  <2> QED BY <2>1, ReadyIs
<1>9. [s |-> t, out |-> Ready(X)] \in [s : States, out : Outcomes]
  BY <1>4, <1>8
<1>10. Comes(n, s, [s |-> t, out |-> Ready(X)])
  BY <1>3, <1>6, <1>7, <1>8, <1>9 DEF Comes
<1> QED BY <1>1, <1>10

\* A race keeps no result from one poll to the next, and asks the second half
\* only when the first is pending.
LEMMA RacePolls ==
  ASSUME kind \in Trees, NEW n \in Futures, NEW l, NEW r, NEW s \in States, Askable(n, s),
         kind[n] \in {"race", "timeout"}, PollsWell(Left(n), l), PollsWell(Right(n), r)
  PROVE  Comes(n, s, PollRace(n, l, r, s))
<1> DEFINE O(h) == OutputsWhen(ready, s.yielded)[h]
           s1 == PollHalf(n, 1, l, s)
           o1 == l[s].out
           s2 == PollHalf(n, 2, r, s1)
           o2 == r[s1].out
<1>1. kind[n] \notin LeafKinds /\ kind[n] # "join"
  BY DEF LeafKinds
<1>2. /\ HalvesOf(n, Left(n), Right(n)) /\ HalvesOf(n, Right(n), Left(n))
      /\ n \in Inner /\ n \in Nodes /\ Left(n) \in Futures /\ Right(n) \in Futures
      /\ Below(Left(n)) \cup {n} \subseteq Below(n) /\ Below(Right(n)) \cup {n} \subseteq Below(n)
  <2>1. HalvesOf(n, Left(n), Right(n)) /\ HalvesOf(n, Right(n), Left(n))
    BY DEF HalvesOf
  <2> QED BY <1>1, <2>1, HalvesAre
<1>3. /\ Asking(n, s) /\ TidyAt(n, s) /\ s.res[n] = NoResults
      /\ Left(n) \notin s.ended /\ Right(n) \notin s.ended
  <2>1. Asking(n, s) /\ TidyAt(n, s) /\ n \notin s.ended
    BY <1>2, Begins DEF Asking
  <2> QED BY <1>1, <2>1 DEF TidyAt
<1>4. O(n) = O(Left(n)) \cup O(Right(n))
  BY RaceOutputs
<1>5. /\ Asking(n, s1) /\ Within(Below(Left(n)) \cup {n}, s, s1)
      /\ s1.res[n] = [NoResults EXCEPT ![1] = o1] /\ o1 \in Outcomes
      /\ Answer(Left(n), s, s1, o1) /\ Right(n) \notin s1.ended
  <2>1. HalfDone(n, Left(n), Right(n), 1, s, s1, o1)
    BY <1>1, <1>2, <1>3, HalfPolled
  <2> HIDE DEF s1, o1
  <2> QED BY <1>3, <2>1 DEF HalfDone
<1> HIDE DEF O, s1, o1
<1>6. s1.res[n][1] = o1 /\ s1.res[n][2] = Pending
  BY <1>5, NothingKept
<1>7. Within(Below(n), s, s1)
  <2>1. Within({}, s, s) /\ {} \subseteq Below(n)
    BY WithinNothing
  <2> QED BY <1>2, <1>5, <2>1, WithinBoth
<1>8. CASE o1.ready
  <2>1. s1.res[n] # NoResults
    BY <1>6, <1>8, NothingKept
  <2>2. PollRace(n, l, r, s) = TakeResults(n, s1)
    BY <1>3, <2>1 DEF PollRace, s1
  <2>3. s1.res[n][1].of \cup s1.res[n][2].of = o1.of
    BY <1>6, NothingKept
  <2>4. o1.of \in O(Left(n)) /\ o1.of \in O(n)
    BY <1>4, <1>5, <1>8 DEF Answer, O
  <2>5. o1.of \subseteq Nodes
    BY <1>5, OutcomesAre
  <2>6. FutureFirst(n, s, Ready(o1.of))
    BY <2>4, <2>5, ReadyIs DEF FutureFirst, O
  <2>7. Comes(n, s, TakeResults(n, s1))
    BY <1>5, <1>7, <2>3, <2>4, <2>6, Taken DEF O
  <2> QED BY <2>2, <2>7
<1>9. CASE ~o1.ready
  <2>1. o1 = Pending /\ OutputsWhen(Unheard(s1), s.yielded)[Left(n)] = {}
    BY <1>5, <1>9 DEF Answer
  <2>2. s1.res[n] = NoResults
    <3>1. [NoResults EXCEPT ![1] = Pending] = NoResults
      BY NothingKept
    <3> QED BY <1>5, <2>1, <3>1
  <2>3. /\ Asking(n, s2) /\ Within(Below(Right(n)) \cup {n}, s1, s2)
        /\ s2.res[n] = [NoResults EXCEPT ![2] = o2] /\ o2 \in Outcomes
        /\ Answer(Right(n), s1, s2, o2) /\ (Left(n) \in s2.ended <=> Left(n) \in s1.ended)
    <3>1. HalfDone(n, Right(n), Left(n), 2, s1, s2, o2)
      BY <1>1, <1>2, <1>5, HalfPolled
    <3> HIDE DEF s2, o2
    <3> QED BY <2>2, <3>1 DEF HalfDone
  <2> HIDE DEF s2, o2
  <2>4. s2.res[n][1] = Pending /\ s2.res[n][2] = o2
    BY <2>3, NothingKept
  <2>5. Answer(Left(n), s, s2, o1) /\ Answer(Right(n), s, s2, o2)
    <3>1. Left(n) \notin Below(Right(n)) \cup {n} /\ (Below(Left(n)) \cup {n}) \cap Below(Right(n)) = {}
      BY <1>1, <1>2, HalvesAre
    <3>2. Answer(Left(n), s, s2, o1)
      BY <1>2, <1>5, <2>3, <3>1, AnswerStays
    <3>3. Answer(Right(n), s, s2, o2)
      BY <1>2, <1>5, <2>3, <3>1, AnswerSooner
    <3> QED BY <3>2, <3>3
  <2>6. Within(Below(n), s, s2)
    BY <1>2, <1>7, <2>3, WithinBoth
  <2>7. O(Left(n)) = {}
    <3>1. ready \subseteq Unheard(s1)
      BY DEF Unheard
    <3>2. Grows(Left(n), ready, s.yielded, Unheard(s1), s.yielded)
      BY <3>1 DEF Grows
    <3>3. OutputsWhen(ready, s.yielded)[Left(n)] \subseteq OutputsWhen(Unheard(s1), s.yielded)[Left(n)]
      BY <1>2, <3>2, OutputsGrow
    <3> QED BY <2>1, <3>3 DEF O
  <2>8. PollRace(n, l, r, s) =
          IF s2.res[n] = NoResults THEN [s |-> s2, out |-> Pending] ELSE TakeResults(n, s2)
    BY <1>3, <2>2 DEF PollRace, s1, s2
  <2>9. CASE o2.ready
    <3>1. s2.res[n] # NoResults
      BY <2>4, <2>9, NothingKept
    <3>2. s2.res[n][1].of \cup s2.res[n][2].of = o2.of
      BY <2>4, NothingKept
    <3>3. o2.of \in O(n)
      BY <1>4, <2>5, <2>9 DEF Answer, O
    <3>4. FutureFirst(n, s, Ready(o2.of))
      BY <2>7 DEF FutureFirst, O
    <3>5. Comes(n, s, TakeResults(n, s2))
      BY <2>3, <2>6, <3>2, <3>3, <3>4, Taken DEF O
    <3> QED BY <2>8, <3>1, <3>5
  <2>10. CASE ~o2.ready
    <3>1. o2 = Pending /\ OutputsWhen(Unheard(s2), s.yielded)[Right(n)] = {}
      BY <2>5, <2>10 DEF Answer
    <3>2. s2.res[n] = NoResults
      <4>1. [NoResults EXCEPT ![2] = Pending] = NoResults
        BY NothingKept
      <4> QED BY <2>3, <3>1, <4>1
    <3>3. OutputsWhen(Unheard(s2), s.yielded)[n] = {}
      <4>1. OutputsWhen(Unheard(s2), s.yielded)[Left(n)] = {}
        BY <1>9, <2>5 DEF Answer
      <4> QED BY <3>1, <4>1, RaceOutputs
    <3>4. TidyAt(n, s2)
      <4>1. Left(n) \notin s2.ended /\ Right(n) \notin s2.ended
        BY <1>9, <2>5, <2>10 DEF Answer
      <4> QED BY <1>1, <3>2, <4>1 DEF TidyAt
    <3>5. s2 \in States
      BY <2>3 DEF Asking, Typed
    <3>6. FutureFirst(n, s, Pending)
      BY NothingKept DEF FutureFirst
    <3>7. Comes(n, s, [s |-> s2, out |-> Pending])
      BY <2>3, <2>6, <3>3, <3>4, <3>5, <3>6, NothingKept DEF Comes
    <3> QED BY <2>8, <3>2, <3>7
  <2> QED BY <2>9, <2>10
<1> QED BY <1>8, <1>9

\* A half of a join, whose result is o: ready and possible, or pending.
Half(h, s, t, o) ==
  /\ o \in Outcomes
  /\ o.ready => o.of \in OutputsWhen(ready, s.yielded)[h]
  /\ ~o.ready => o = Pending /\ h \notin t.ended /\ OutputsWhen(Unheard(t), s.yielded)[h] = {}

\* It stands while the other half is asked.
LEMMA HalfStays ==
  ASSUME kind \in Trees, NEW h \in Futures, NEW r, NEW s, NEW t, NEW u, NEW o, Half(h, s, t, o),
         NEW B, Within(B, r, s), B \cap Below(h) = {}, NEW C, Within(C, t, u), h \notin C
  PROVE  Half(h, r, u, o)
<1>1. h \in t.ended <=> h \in u.ended
  BY TreeIs DEF Within
<1>2. /\ OutputsWhen(ready, s.yielded)[h] = OutputsWhen(ready, r.yielded)[h]
      /\ OutputsWhen(Unheard(t), s.yielded)[h] = OutputsWhen(Unheard(t), r.yielded)[h]
  BY OutputsElsewhere
<1>3. OutputsWhen(Unheard(u), r.yielded)[h] \subseteq OutputsWhen(Unheard(t), r.yielded)[h]
  <2>1. Unheard(u) \subseteq Unheard(t)
    BY DEF Within, Unheard
  <2>2. Grows(h, Unheard(u), r.yielded, Unheard(t), r.yielded)
    BY <2>1 DEF Grows
  <2> QED BY <2>2, OutputsGrow
<1> QED BY <1>1, <1>2, <1>3 DEF Half

\* Join asks a half that it keeps no result of.
AskedByJoin(n, i, f, s) == IF s.res[n][i] = Pending THEN PollHalf(n, i, f, s) ELSE s

\* It has then a result, or a half that is pending; j is the other index.
JoinHalf(n, h, g, i, j, s, t) ==
  /\ Asking(n, t)
  /\ Within(Below(h) \cup {n}, s, t)
  /\ t.res[n][j] = s.res[n][j]
  /\ g \in t.ended <=> g \in s.ended
  /\ Half(h, s, t, t.res[n][i])

\* What it keeps is as good as what it would be told.
LEMMA JoinAsks ==
  ASSUME kind \in Trees, NEW n \in Futures, kind[n] = "join",
         NEW h, NEW g, HalvesOf(n, h, g), NEW f, PollsWell(h, f),
         NEW s, Asking(n, s), NEW i \in {1, 2}, NEW j \in {1, 2}, i # j, HalfKept(h, s.res[n][i], s)
  PROVE  JoinHalf(n, h, g, i, j, s, AskedByJoin(n, i, f, s))
<1> DEFINE t == AskedByJoin(n, i, f, s)
<1>1. kind[n] \notin LeafKinds /\ n \in Nodes
  BY TreeIs DEF LeafKinds
<1>2. s.res[n] \in [{1, 2} -> Outcomes]
  BY <1>1 DEF Asking, Typed, States
<1>3. CASE s.res[n][i] = Pending
  <2>1. h \notin s.ended
    BY <1>3, NothingKept DEF HalfKept
  <2> DEFINE o == f[s].out
  <2>2. HalfDone(n, h, g, i, s, t, o)
    <3>1. t = PollHalf(n, i, f, s)
      BY <1>3 DEF AskedByJoin
    <3>2. HalfDone(n, h, g, i, s, PollHalf(n, i, f, s), o)
      BY <1>1, <2>1, HalfPolled
    <3> HIDE DEF t, o
    <3> QED BY <3>1, <3>2
  <2> HIDE DEF t, o
  <2>3. t.res[n][i] = o /\ t.res[n][j] = s.res[n][j]
    BY <1>2, <2>2 DEF HalfDone
  <2>4. Half(h, s, t, o)
    BY <2>2 DEF Answer, Half, HalfDone
  <2>5. JoinHalf(n, h, g, i, j, s, t)
    BY <2>2, <2>3, <2>4 DEF HalfDone, JoinHalf
  <2> QED BY <2>5 DEF t
<1>4. CASE s.res[n][i] # Pending
  <2>1. s.res[n][i] \in Outcomes /\ s.res[n][i].ready /\ s.res[n][i].of \in OutputsWhen(ready, s.yielded)[h]
    BY <1>2, <1>4 DEF HalfKept
  <2>2. Half(h, s, s, s.res[n][i])
    BY <2>1 DEF Half
  <2>3. t = s
    BY <1>4 DEF AskedByJoin
  <2>4. JoinHalf(n, h, g, i, j, s, s)
    BY <2>2, WithinNothing DEF JoinHalf
  <2> QED BY <2>3, <2>4
<1> QED BY <1>3, <1>4

\* A join keeps the result of the half that returned first.
LEMMA JoinPolls ==
  ASSUME kind \in Trees, NEW n \in Futures, NEW l, NEW r, NEW s \in States, Askable(n, s),
         kind[n] = "join", PollsWell(Left(n), l), PollsWell(Right(n), r)
  PROVE  Comes(n, s, PollJoin(n, l, r, s))
<1> DEFINE s1 == AskedByJoin(n, 1, l, s)
           s2 == AskedByJoin(n, 2, r, s1)
           a == s2.res[n][1]
           b == s2.res[n][2]
<1>1. kind[n] \notin LeafKinds
  BY DEF LeafKinds
<1>2. HalvesOf(n, Left(n), Right(n)) /\ HalvesOf(n, Right(n), Left(n))
  BY DEF HalvesOf
<1>3. /\ n \in Nodes /\ Left(n) \in Futures /\ Right(n) \in Futures
      /\ Below(Left(n)) \cup {n} \subseteq Below(n) /\ Below(Right(n)) \cup {n} \subseteq Below(n)
      /\ Left(n) \notin Below(Right(n)) \cup {n} /\ (Below(Left(n)) \cup {n}) \cap Below(Right(n)) = {}
      /\ Right(n) \notin Below(Left(n)) \cup {n}
  BY <1>1, <1>2, HalvesAre
<1>4. Asking(n, s) /\ HalfKept(Left(n), s.res[n][1], s) /\ HalfKept(Right(n), s.res[n][2], s)
  <2>1. Asking(n, s) /\ TidyAt(n, s) /\ n \notin s.ended
    BY <1>3, Begins DEF Asking
  <2> QED BY <2>1 DEF TidyAt
<1>5. /\ Asking(n, s1) /\ Within(Below(Left(n)) \cup {n}, s, s1) /\ s1.res[n][2] = s.res[n][2]
      /\ (Right(n) \in s1.ended <=> Right(n) \in s.ended) /\ Half(Left(n), s, s1, s1.res[n][1])
  <2>1. 1 \in {1, 2} /\ 2 \in {1, 2} /\ 1 # 2
    OBVIOUS
  <2>2. JoinHalf(n, Left(n), Right(n), 1, 2, s, s1)
    BY <1>2, <1>4, <2>1, JoinAsks
  <2> HIDE DEF s1
  <2> QED BY <2>2 DEF JoinHalf
<1> HIDE DEF s1
<1>6. HalfKept(Right(n), s1.res[n][2], s1)
  <2>1. OutputsWhen(ready, s.yielded)[Right(n)] \subseteq OutputsWhen(ready, s1.yielded)[Right(n)]
    BY <1>3, <1>5, OutputsLater
  <2> QED BY <1>4, <1>5, <2>1 DEF HalfKept
<1>7. /\ Asking(n, s2) /\ Within(Below(Right(n)) \cup {n}, s1, s2) /\ s2.res[n][1] = s1.res[n][1]
      /\ (Left(n) \in s2.ended <=> Left(n) \in s1.ended) /\ Half(Right(n), s1, s2, s2.res[n][2])
  <2>1. 1 \in {1, 2} /\ 2 \in {1, 2} /\ 2 # 1
    OBVIOUS
  <2>2. JoinHalf(n, Right(n), Left(n), 2, 1, s1, s2)
    BY <1>2, <1>5, <1>6, <2>1, JoinAsks
  <2> HIDE DEF s2
  <2> QED BY <2>2 DEF JoinHalf
<1>8. PollJoin(n, l, r, s) =
        IF s2.res[n][1].ready /\ s2.res[n][2].ready THEN TakeResults(n, s2)
        ELSE [s |-> s2, out |-> Pending]
  BY DEF PollJoin, AskedByJoin, s1
<1> HIDE DEF s2
<1>9. Half(Left(n), s, s2, a)
  <2>1. Within({}, s, s) /\ {} \cap Below(Left(n)) = {}
    BY WithinNothing
  <2>2. Half(Left(n), s, s2, s1.res[n][1])
    BY <1>3, <1>5, <1>7, <2>1, HalfStays
  <2> QED BY <1>7, <2>2
<1>10. Half(Right(n), s, s2, b)
  <2>1. Within({}, s2, s2) /\ Right(n) \notin {}
    BY WithinNothing
  <2> QED BY <1>3, <1>5, <1>7, <2>1, HalfStays
<1>11. Within(Below(n), s, s2)
  BY <1>3, <1>5, <1>7, WithinBoth
<1> HIDE DEF a, b
<1>12. CASE a.ready /\ b.ready
  <2>1. PollJoin(n, l, r, s) = TakeResults(n, s2)
    BY <1>8, <1>12 DEF a, b
  <2>2. a.of \cup b.of \in OutputsWhen(ready, s.yielded)[n]
    <3>1. a.of \in OutputsWhen(ready, s.yielded)[Left(n)] /\ b.of \in OutputsWhen(ready, s.yielded)[Right(n)]
      BY <1>9, <1>10, <1>12 DEF Half
    <3>2. OutputsWhen(ready, s.yielded)[n] =
            {x \cup y : x \in OutputsWhen(ready, s.yielded)[Left(n)],
                        y \in OutputsWhen(ready, s.yielded)[Right(n)]}
      BY JoinOutputs
    <3> QED BY <3>1, <3>2
  <2>3. FutureFirst(n, s, Ready(a.of \cup b.of))
    BY DEF FutureFirst
  <2>4. Comes(n, s, TakeResults(n, s2))
    <3>1. a.of \cup b.of = s2.res[n][1].of \cup s2.res[n][2].of
      BY DEF a, b
    <3> QED BY <1>7, <1>11, <2>2, <2>3, <3>1, Taken
  <2> QED BY <2>1, <2>4
<1>13. CASE ~(a.ready /\ b.ready)
  <2>1. PollJoin(n, l, r, s) = [s |-> s2, out |-> Pending]
    BY <1>8, <1>13 DEF a, b
  <2>2. OutputsWhen(Unheard(s2), s.yielded)[n] = {}
    <3>1. OutputsWhen(Unheard(s2), s.yielded)[Left(n)] = {} \/ OutputsWhen(Unheard(s2), s.yielded)[Right(n)] = {}
      BY <1>9, <1>10, <1>13 DEF Half
    <3>2. OutputsWhen(Unheard(s2), s.yielded)[n] =
            {x \cup y : x \in OutputsWhen(Unheard(s2), s.yielded)[Left(n)],
                        y \in OutputsWhen(Unheard(s2), s.yielded)[Right(n)]}
      BY JoinOutputs
    <3> QED BY <3>1, <3>2
  <2>3. HalfKept(Left(n), a, s2) /\ HalfKept(Right(n), b, s2)
    <3>1. /\ OutputsWhen(ready, s.yielded)[Left(n)] \subseteq OutputsWhen(ready, s2.yielded)[Left(n)]
          /\ OutputsWhen(ready, s.yielded)[Right(n)] \subseteq OutputsWhen(ready, s2.yielded)[Right(n)]
      BY <1>3, <1>11, OutputsLater
    <3> QED BY <1>9, <1>10, <3>1 DEF Half, HalfKept
  <2>4. TidyAt(n, s2)
    <3>1. n \notin s2.ended
      BY <1>7 DEF Asking
    <3> QED BY <1>13, <2>3, <3>1 DEF TidyAt, a, b
  <2>5. s2 \in States
    BY <1>7 DEF Asking, Typed
  <2>6. FutureFirst(n, s, Pending)
    BY DEF FutureFirst
  <2>7. Comes(n, s, [s |-> s2, out |-> Pending])
    BY <1>7, <1>11, <2>2, <2>4, <2>5, <2>6, NothingKept DEF Comes
  <2> QED BY <2>1, <2>7
<1> QED BY <1>12, <1>13

\* A delay that ends is dropped, and the future is asked in the same poll.
LEMMA DelayPolls ==
  ASSUME kind \in Trees, NEW n \in Futures, NEW l, NEW r, NEW s \in States, Askable(n, s),
         kind[n] = "delay", PollsWell(Left(n), l), PollsWell(Right(n), r)
  PROVE  Comes(n, s, PollDelay(n, l, r, s))
<1>1. kind[n] \notin LeafKinds
  BY DEF LeafKinds
<1>2. HalvesOf(n, Left(n), Right(n)) /\ HalvesOf(n, Right(n), Left(n))
  BY DEF HalvesOf
<1>3. /\ n \in Nodes /\ Left(n) \in Futures /\ Right(n) \in Futures /\ n \in Below(n)
      /\ Below(Left(n)) \subseteq Below(n) /\ Below(Right(n)) \subseteq Below(n)
      /\ Below(Left(n)) \cap Below(Right(n)) = {} /\ n \notin Below(Left(n)) /\ n \notin Below(Right(n))
  BY <1>1, <1>2, HalvesAre
<1>4. Asking(n, s) /\ TidyAt(n, s) /\ n \notin s.ended /\ s.res[n] = NoResults
  <2>1. Asking(n, s) /\ TidyAt(n, s) /\ n \notin s.ended
    BY <1>3, Begins DEF Asking
  <2> QED BY <2>1 DEF TidyAt
<1>5. ASSUME NEW u, Asking(n, u), Within(Below(Right(n)) \cup {n}, s, u), u.res[n] = NoResults,
             Left(n) \notin u.ended, n \notin u.delay,
             OutputsWhen(ready, s.yielded)[Right(n)] # {}
      PROVE  Comes(n, s, l[u])
  <2> DEFINE v == l[u].s
             o == l[u].out
  <2>1. /\ Good(Left(n), u, l[u]) /\ Asking(n, v)
        /\ v.res[n] = u.res[n] /\ (n \in v.delay <=> n \in u.delay)
    BY <1>1, <1>2, <1>5, Asked
  <2>2. l[u] \in [s : States, out : Outcomes] /\ Within(Below(Left(n)), u, v) /\ Answer(Left(n), u, v, o)
    BY <2>1 DEF Good
  <2> HIDE DEF v, o
  <2>3. Within(Below(n), s, v)
    <3>1. Below(Right(n)) \cup {n} \subseteq Below(n)
      BY <1>3
    <3> QED BY <1>3, <1>5, <2>2, <3>1, WithinBoth
  <2>4. Answer(Left(n), s, v, o)
    <3>1. (Below(Right(n)) \cup {n}) \cap Below(Left(n)) = {}
      BY <1>3
    <3> QED BY <1>3, <1>5, <2>2, <3>1, AnswerSooner
  <2>5. OutputsWhen(ready, s.yielded)[n] = OutputsWhen(ready, s.yielded)[Left(n)]
    BY <1>5, DelayOutputs
  <2>6. ASSUME o.ready
        PROVE  v.res[n] = NoResults /\ o.of \in OutputsWhen(ready, s.yielded)[n]
    BY <1>5, <2>1, <2>4, <2>5, <2>6 DEF Answer
  <2>7. ASSUME ~o.ready
        PROVE  o = Pending /\ TidyAt(n, v) /\ OutputsWhen(Unheard(v), s.yielded)[n] = {}
    <3>1. o = Pending /\ Left(n) \notin v.ended /\ OutputsWhen(Unheard(v), s.yielded)[Left(n)] = {}
      BY <2>4, <2>7 DEF Answer
    <3>2. OutputsWhen(Unheard(v), s.yielded)[n] =
            IF OutputsWhen(Unheard(v), s.yielded)[Right(n)] = {} THEN {}
            ELSE OutputsWhen(Unheard(v), s.yielded)[Left(n)]
      BY DelayOutputs
    <3>3. OutputsWhen(ready, v.yielded)[Right(n)] # {}
      <4>1. OutputsWhen(ready, s.yielded)[Right(n)] \subseteq OutputsWhen(ready, v.yielded)[Right(n)]
        BY <1>3, <2>3, OutputsLater
      <4> QED BY <1>5, <4>1
    <3>4. TidyAt(n, v)
      BY <1>5, <2>1, <3>1, <3>3 DEF TidyAt
    <3> QED BY <3>1, <3>2, <3>4
  <2>8. FutureFirst(n, s, o)
    BY DEF FutureFirst
  <2> QED BY <2>1, <2>2, <2>3, <2>6, <2>7, <2>8 DEF Comes, v, o
<1>6. CASE n \notin s.delay
  <2>1. Left(n) \notin s.ended /\ OutputsWhen(ready, s.yielded)[Right(n)] # {}
    BY <1>4, <1>6 DEF TidyAt
  <2>2. Comes(n, s, l[s])
    BY <1>4, <1>5, <1>6, <2>1, WithinNothing
  <2> QED BY <1>6, <2>2 DEF PollDelay
<1>7. CASE n \in s.delay
  <2> DEFINE u == r[s].s
             o == r[s].out
  <2>1. Right(n) \notin s.ended /\ Left(n) \notin s.ended
    BY <1>4, <1>7 DEF TidyAt
  <2>2. /\ Good(Right(n), s, r[s]) /\ Asking(n, u)
        /\ u.res[n] = s.res[n] /\ (n \in u.delay <=> n \in s.delay)
        /\ Left(n) \in u.ended <=> Left(n) \in s.ended
    BY <1>1, <1>2, <1>4, <2>1, Asked
  <2>3. r[s] \in [s : States, out : Outcomes] /\ Within(Below(Right(n)), s, u) /\ Answer(Right(n), s, u, o)
    BY <2>2 DEF Good
  <2>4. CASE o.ready
    <3> DEFINE t == [u EXCEPT !.delay = @ \ {n}]
    <3>1. PollDelay(n, l, r, s) = l[t]
      BY <1>7, <2>4 DEF PollDelay
    <3> HIDE DEF u, o
    <3>2. u \in States
      BY <2>2 DEF Asking, Typed
    <3>3. /\ t \in States /\ t.res = u.res /\ t.delay = u.delay \ {n} /\ t.yielded = u.yielded
          /\ t.asked = u.asked /\ t.woke = u.woke /\ t.ended = u.ended /\ t.again = u.again
      BY <3>2 DEF States
    <3> HIDE DEF t
    <3>4. Within({n}, u, t)
      BY <3>3 DEF Within
    <3>5. Within(Below(Right(n)) \cup {n}, s, t)
      BY <2>3, <3>4, WithinBoth
    <3>6. Asking(n, t)
      <4>1. Typed(t) /\ n \notin t.ended
        BY <2>2, <3>3 DEF Asking, Typed
      <4>2. /\ n \in Inner /\ Left(n) \in Nodes /\ Right(n) \in Nodes
            /\ {n} \cap Below(Left(n)) = {} /\ {n} \cap Below(Right(n)) = {}
        BY <1>1, <1>3, TreeIs
      <4>3. Tidy(Left(n), u) /\ Tidy(Right(n), u)
        BY <2>2, <4>2 DEF Asking
      <4>4. Tidy(Left(n), t) /\ Tidy(Right(n), t)
        BY <3>4, <4>2, <4>3, TidyStays
      <4> QED BY <4>1, <4>4 DEF Asking
    <3>7. OutputsWhen(ready, s.yielded)[Right(n)] # {}
      BY <2>3, <2>4 DEF Answer, o
    <3>8. t.res[n] = NoResults /\ Left(n) \notin t.ended /\ n \notin t.delay
      BY <1>4, <2>1, <2>2, <3>3
    <3>9. Comes(n, s, l[t])
      BY <1>5, <3>5, <3>6, <3>7, <3>8
    <3> QED BY <3>1, <3>9
  <2>5. CASE ~o.ready
    <3>1. PollDelay(n, l, r, s) = r[s]
      BY <1>7, <2>5 DEF PollDelay
    <3> HIDE DEF u, o
    <3>2. o = Pending /\ Right(n) \notin u.ended /\ OutputsWhen(Unheard(u), s.yielded)[Right(n)] = {}
      BY <2>3, <2>5 DEF Answer
    <3>3. OutputsWhen(Unheard(u), s.yielded)[n] = {}
      <4>1. OutputsWhen(Unheard(u), s.yielded)[n] =
              IF OutputsWhen(Unheard(u), s.yielded)[Right(n)] = {} THEN {}
              ELSE OutputsWhen(Unheard(u), s.yielded)[Left(n)]
        BY DelayOutputs
      <4> QED BY <3>2, <4>1
    <3>4. TidyAt(n, u)
      BY <1>4, <1>7, <2>1, <2>2, <3>2 DEF TidyAt
    <3>5. Within(Below(n), s, u)
      <4>1. Within({}, s, s) /\ {} \subseteq Below(n)
        BY WithinNothing
      <4> QED BY <1>3, <2>3, <4>1, WithinBoth
    <3>6. FutureFirst(n, s, o)
      BY DEF FutureFirst
    <3>7. Comes(n, s, r[s])
      BY <2>2, <2>3, <2>5, <3>2, <3>3, <3>4, <3>5, <3>6 DEF Comes, u, o
    <3> QED BY <3>1, <3>7
  <2> QED BY <2>4, <2>5
<1> QED BY <1>6, <1>7

\* Every future polls well, if its halves do.
LEMMA AllPollWell ==
  ASSUME kind \in Trees
  PROVE  \A n \in Futures : PollsWell(n, Poll[n])
<1> DEFINE S == {n \in Futures : PollsWell(n, Poll[n])}
<1>1. ASSUME NEW n \in Futures,
             kind[n] \notin LeafKinds => Left(n) \in S /\ Right(n) \in S
      PROVE  n \in S
  <2>1. ASSUME NEW s \in States, Askable(n, s)
        PROVE  Good(n, s, Poll[n][s])
    <3> DEFINE l == Poll[Left(n)]
               r == Poll[Right(n)]
               p == PollNode(n, l, r, s)
    <3>1. Poll[n][s] = p
      <4>1. Poll[n] = PollsFrom(n, Poll)
        BY PollIs
      <4> QED BY <4>1 DEF PollsFrom
    <3>2. n \notin s.ended
      BY <2>1 DEF Askable
    <3>3. kind[n] \notin LeafKinds => PollsWell(Left(n), l) /\ PollsWell(Right(n), r)
      BY <1>1
    <3> HIDE DEF l, r
    <3>4. CASE kind[n] = "event"
      <4>1. p = Booked(n, PollEvent(n, s))
        BY <3>2, <3>4, FirstPoll
      <4> QED BY <2>1, <3>1, <3>4, <4>1, EventPolls, Closing
    <3>5. CASE kind[n] = "yield"
      <4>1. p = Booked(n, PollYield(n, s))
        BY <3>2, <3>5, FirstPoll
      <4> QED BY <2>1, <3>1, <3>5, <4>1, YieldPolls, Closing
    <3>6. CASE kind[n] = "race"
      <4>1. p = Booked(n, PollRace(n, l, r, s))
        BY <3>2, <3>6, FirstPoll
      <4>2. Comes(n, s, PollRace(n, l, r, s))
        BY <2>1, <3>3, <3>6, RacePolls DEF LeafKinds
      <4> QED BY <3>1, <4>1, <4>2, Closing
    <3>7. CASE kind[n] = "join"
      <4>1. p = Booked(n, PollJoin(n, l, r, s))
        BY <3>2, <3>7, FirstPoll
      <4>2. Comes(n, s, PollJoin(n, l, r, s))
        BY <2>1, <3>3, <3>7, JoinPolls DEF LeafKinds
      <4> QED BY <3>1, <4>1, <4>2, Closing
    <3>8. CASE kind[n] = "timeout"
      <4>1. p = Booked(n, PollRace(n, l, r, s))
        BY <3>2, <3>8, FirstPoll DEF PollTimeout
      <4>2. Comes(n, s, PollRace(n, l, r, s))
        BY <2>1, <3>3, <3>8, RacePolls DEF LeafKinds
      <4> QED BY <3>1, <4>1, <4>2, Closing
    <3>9. CASE kind[n] = "delay"
      <4>1. p = Booked(n, PollDelay(n, l, r, s))
        BY <3>2, <3>9, FirstPoll
      <4>2. Comes(n, s, PollDelay(n, l, r, s))
        BY <2>1, <3>3, <3>9, DelayPolls DEF LeafKinds
      <4> QED BY <3>1, <4>1, <4>2, Closing
    <3>10. kind[n] \in {"event", "yield", "race", "join", "timeout", "delay"}
      BY TreeIs DEF LeafKinds, Combined
    <3> QED BY <3>4, <3>5, <3>6, <3>7, <3>8, <3>9, <3>10
  <2> QED BY <2>1 DEF PollsWell
<1>2. Futures \subseteq S
  <2> HIDE DEF S
  <2> QED BY <1>1, FromTheLeaves
<1> QED BY <1>2

----------------------------------------------------------------------------
(* The invariant.                                                          *)

\* All that the tree says about the state of its futures between two polls,
\* and that a sleeping task has nothing to return before a waker it left is
\* called.
Inv ==
  /\ kind \in Trees
  /\ ready \subseteq Events /\ root \in {"live", "done"} /\ woken \in BOOLEAN /\ result \subseteq Nodes
  /\ Typed(fut) /\ fut.woke = FALSE
  /\ Tidy(Root, fut)
  /\ root = "live" => Root \notin fut.ended /\ result = {}
  /\ root = "live" /\ ~woken => OutputsWhen(Unheard(fut), fut.yielded)[Root] = {}

\* In the beginning nothing was asked.
LEMMA InitHolds == Init => Inv
<1> SUFFICES ASSUME Init
             PROVE  Inv
  OBVIOUS
<1>1. kind \in Trees /\ fut = Fresh /\ ready = {} /\ root = "live" /\ woken = TRUE /\ result = {}
  BY DEF Init
<1>2. Inner \subseteq Nodes /\ Below(Root) = Nodes
  BY RootIsAbove DEF Inner
<1>3. /\ fut.res = [n \in Nodes |-> NoResults] /\ fut.delay = Inner /\ fut.yielded = {}
      /\ fut.asked = {} /\ fut.woke = FALSE /\ fut.ended = {} /\ fut.again = {}
  BY <1>1 DEF Fresh
<1>4. fut \in States
  BY <1>1, <1>2, NothingKept DEF Fresh, States
<1>5. Typed(fut)
  BY <1>3, <1>4 DEF Typed
<1>6. ASSUME NEW m \in Nodes
      PROVE  TidyAt(m, fut)
  <2>1. fut.res[m] = NoResults
    BY <1>3
  <2>2. kind[m] = "delay" /\ m \in Futures => m \in fut.delay
    BY <1>1, <1>3, TreeIs DEF LeafKinds
  <2> QED BY <1>3, <2>1, <2>2, NothingKept DEF TidyAt, HalfKept
<1>7. Tidy(Root, fut)
  BY <1>2, <1>6 DEF Tidy
<1> QED BY <1>1, <1>3, <1>5, <1>7 DEF Inv

\* A poll of the root is good.
LEMMA RootPolls ==
  ASSUME Inv, root = "live"
  PROVE  Root \in Futures /\ Good(Root, fut, Poll[Root][fut])
<1>1. Root \in Futures
  BY TreeIs DEF Inv
<1>2. Askable(Root, fut) /\ fut \in States
  BY DEF Inv, Askable, Typed
<1> QED BY <1>1, <1>2, AllPollWell DEF Inv, PollsWell

\* The outputs depend on no other variable than kind.
LEMMA SameOutputs ==
  ASSUME kind' = kind
  PROVE  /\ OutputsWhen(ready, fut.yielded)' = OutputsWhen(ready', fut'.yielded)
         /\ OutputsWhen(Unheard(fut), fut.yielded)' =
              OutputsWhen(ready' \cup (Nodes \ fut'.asked), fut'.yielded)
<1>1. OutputsWhen(ready, fut.yielded)' = OutputsWhen(ready', fut'.yielded)
  BY DEF OutputsWhen, OutputsOf, Futures
<1>2. OutputsWhen(Unheard(fut), fut.yielded)' =
        OutputsWhen(ready' \cup (Nodes \ fut'.asked), fut'.yielded)
  BY DEF OutputsWhen, OutputsOf, Futures, Unheard
<1> QED BY <1>1, <1>2

\* What is tidy stays tidy when only the flag of the poll is reset or another
\* event has happened.
LEMMA TidyNext ==
  ASSUME kind \in Trees, kind' = kind, ready \subseteq ready', NEW t,
         t.res = fut'.res, t.delay = fut'.delay, t.yielded = fut'.yielded, t.ended = fut'.ended,
         Tidy(Root, t)
  PROVE  Tidy(Root, fut)'
<1> SUFFICES ASSUME NEW m \in Below(Root)
             PROVE  TidyAt(m, fut)'
  BY DEF Tidy
<1>1. TidyAt(m, t)
  BY DEF Tidy
<1>2. \A h \in Futures : OutputsWhen(ready, t.yielded)[h] \subseteq OutputsWhen(ready, fut.yielded)'[h]
  <2>1. ASSUME NEW h \in Futures
        PROVE  OutputsWhen(ready, t.yielded)[h] \subseteq OutputsWhen(ready', t.yielded)[h]
    <3>1. Grows(h, ready, t.yielded, ready', t.yielded)
      BY DEF Grows
    <3> QED BY <3>1, OutputsGrow
  <2>2. OutputsWhen(ready, fut.yielded)' = OutputsWhen(ready', fut'.yielded)
    BY SameOutputs
  <2> QED BY <2>1, <2>2
<1>3. Futures' = Futures
  BY DEF Futures
<1> DEFINE Later(h) == OutputsWhen(ready, fut.yielded)'[h]
<1>4. ASSUME NEW h \in Futures, NEW o, HalfKept(h, o, t)
      PROVE  IF o.ready THEN o.of \in Later(h) ELSE h \notin fut'.ended /\ o = Pending
  <2>1. OutputsWhen(ready, t.yielded)[h] \subseteq Later(h)
    BY <1>2
  <2> HIDE DEF Later
  <2> QED BY <1>4, <2>1 DEF HalfKept
<1>5. kind[m] # "join" \/ m \in fut'.ended => fut'.res[m] = NoResults
  BY <1>1 DEF TidyAt
<1>6. ASSUME m \in Futures \ fut'.ended
      PROVE  /\ kind[m] \in {"race", "timeout"} => Left(m) \notin fut'.ended /\ Right(m) \notin fut'.ended
             /\ kind[m] = "delay" => Left(m) \notin fut'.ended /\ (m \in fut'.delay => Right(m) \notin fut'.ended)
             /\ kind[m] = "join" => /\ HalfKept(Left(m), fut'.res[m][1], t)
                                    /\ HalfKept(Right(m), fut'.res[m][2], t)
                                    /\ ~(fut'.res[m][1].ready /\ fut'.res[m][2].ready)
             /\ kind[m] = "delay" /\ m \notin fut'.delay => OutputsWhen(ready, t.yielded)[Right(m)] # {}
             /\ kind[m] \notin LeafKinds => Left(m) \in Futures /\ Right(m) \in Futures
  BY <1>1, <1>6, TreeIs DEF TidyAt
<1>7. ASSUME m \in Futures \ fut'.ended, kind[m] = "join"
      PROVE  /\ IF fut'.res[m][1].ready THEN fut'.res[m][1].of \in Later(Left(m))
                ELSE Left(m) \notin fut'.ended /\ fut'.res[m][1] = Pending
             /\ IF fut'.res[m][2].ready THEN fut'.res[m][2].of \in Later(Right(m))
                ELSE Right(m) \notin fut'.ended /\ fut'.res[m][2] = Pending
             /\ ~(fut'.res[m][1].ready /\ fut'.res[m][2].ready)
  <2>1. Left(m) \in Futures /\ Right(m) \in Futures
    BY <1>6, <1>7 DEF LeafKinds
  <2> HIDE DEF Later
  <2> QED BY <1>4, <1>6, <1>7, <2>1
<1>8. ASSUME m \in Futures \ fut'.ended, kind[m] = "delay", m \notin fut'.delay
      PROVE  Later(Right(m)) # {}
  <2>1. Right(m) \in Futures
    BY <1>6, <1>8 DEF LeafKinds
  <2>2. OutputsWhen(ready, t.yielded)[Right(m)] \subseteq Later(Right(m))
    BY <1>2, <2>1
  <2> HIDE DEF Later
  <2> QED BY <1>6, <1>8, <2>2
<1> QED BY <1>3, <1>5, <1>6, <1>7, <1>8 DEF TidyAt, HalfKept

\* What a poll of the root changes.
LEMMA RootStep ==
  ASSUME Inv, PollRoot, NEW p, p = Poll[Root][fut]
  PROVE  /\ root = "live" /\ kind' = kind /\ ready' = ready /\ Good(Root, fut, p)
         /\ fut' = [p.s EXCEPT !.woke = FALSE] /\ woken' = p.s.woke
         /\ root' = IF p.out.ready THEN "done" ELSE "live"
         /\ result' = p.out.of
<1>1. root = "live" /\ Good(Root, fut, p)
  BY RootPolls DEF PollRoot
<1> QED BY <1>1 DEF PollRoot

\* Nothing can be returned before a waker is called, so nothing can be now.
LEMMA NothingNow ==
  ASSUME kind \in Trees, NEW n \in Futures, NEW s, NEW Y, OutputsWhen(Unheard(s), Y)[n] = {}
  PROVE  OutputsWhen(ready, Y)[n] = {}
<1>1. ready \subseteq Unheard(s)
  BY DEF Unheard
<1>2. Grows(n, ready, Y, Unheard(s), Y)
  BY <1>1 DEF Grows
<1>3. OutputsWhen(ready, Y)[n] \subseteq OutputsWhen(Unheard(s), Y)[n]
  BY <1>2, OutputsGrow
<1> QED BY <1>3

\* A poll keeps the invariant.
LEMMA PollKeeps ==
  ASSUME Inv, PollRoot
  PROVE  Inv'
<1> DEFINE p == Poll[Root][fut]
           t == p.s
           o == p.out
<1>1. /\ root = "live" /\ kind' = kind /\ ready' = ready /\ Good(Root, fut, p)
      /\ fut' = [t EXCEPT !.woke = FALSE] /\ woken' = t.woke
      /\ root' = IF o.ready THEN "done" ELSE "live"
      /\ result' = o.of
  BY RootStep
<1>2. t \in States /\ o \in Outcomes /\ Typed(t) /\ Tidy(Root, t) /\ Answer(Root, fut, t, o) /\ Within(Below(Root), fut, t)
  BY <1>1 DEF Good
<1> HIDE DEF p, t, o
<1>3. /\ fut' \in States /\ fut'.res = t.res /\ fut'.delay = t.delay /\ fut'.yielded = t.yielded
      /\ fut'.asked = t.asked /\ fut'.woke = FALSE /\ fut'.ended = t.ended /\ fut'.again = t.again
  BY <1>1, <1>2 DEF States
<1>4. t.woke \in BOOLEAN /\ o.of \subseteq Nodes /\ o.ready \in BOOLEAN
  BY <1>2, OutcomesAre DEF States
<1>5. Events' = Events
  BY <1>1 DEF Events
<1>6. Typed(fut)'
  BY <1>2, <1>3, <1>5 DEF Typed
<1>7. Tidy(Root, fut)'
  BY <1>1, <1>2, <1>3, TidyNext DEF Inv
<1>8. root' = "live" => Root \notin fut'.ended /\ result' = {}
  BY <1>1, <1>2, <1>3, NothingKept DEF Answer
<1>9. ASSUME root' = "live", ~woken'
      PROVE  OutputsWhen(Unheard(fut), fut.yielded)'[Root] = {}
  <2>1. ~o.ready /\ t.yielded = fut.yielded
    BY <1>1, <1>2, <1>9 DEF Within
  <2>2. OutputsWhen(Unheard(t), fut.yielded)[Root] = {}
    BY <1>2, <2>1 DEF Answer
  <2>3. Unheard(t) = ready' \cup (Nodes \ fut'.asked)
    BY <1>1, <1>3 DEF Unheard
  <2>4. OutputsWhen(Unheard(fut), fut.yielded)' = OutputsWhen(ready' \cup (Nodes \ fut'.asked), fut'.yielded)
    BY <1>1, SameOutputs
  <2> QED BY <1>3, <2>1, <2>2, <2>3, <2>4
<1>10. /\ kind' \in Trees /\ ready' \subseteq Events' /\ root' \in {"live", "done"}
       /\ woken' \in BOOLEAN /\ result' \subseteq Nodes
  BY <1>1, <1>4, <1>5 DEF Inv
<1> QED BY <1>3, <1>6, <1>7, <1>8, <1>9, <1>10 DEF Inv

\* So does an event.
LEMMA EventKeeps ==
  ASSUME Inv, NEW n \in Nodes, Happens(n)
  PROVE  Inv'
<1>1. /\ root = "live" /\ n \in Events \ ready /\ ready' = ready \cup {n}
      /\ woken' = (woken \/ n \in fut.asked)
      /\ kind' = kind /\ fut' = fut /\ root' = root /\ result' = result
  BY DEF Happens
<1>2. Events' = Events
  BY <1>1 DEF Events
<1>3. Typed(fut)' /\ fut'.woke = FALSE
  BY <1>1, <1>2 DEF Inv, Typed
<1>4. Tidy(Root, fut)'
  BY <1>1, TidyNext DEF Inv
<1>5. ASSUME ~woken'
      PROVE  OutputsWhen(Unheard(fut), fut.yielded)'[Root] = {}
  <2>1. ~woken /\ n \notin fut.asked
    BY <1>1, <1>5
  <2>2. Unheard(fut) = ready' \cup (Nodes \ fut'.asked)
    BY <1>1, <2>1 DEF Unheard
  <2>3. OutputsWhen(Unheard(fut), fut.yielded)[Root] = {}
    BY <1>1, <2>1 DEF Inv
  <2>4. OutputsWhen(Unheard(fut), fut.yielded)' = OutputsWhen(ready' \cup (Nodes \ fut'.asked), fut'.yielded)
    BY <1>1, SameOutputs
  <2> QED BY <1>1, <2>2, <2>3, <2>4
<1>6. woken' \in BOOLEAN /\ ready' \subseteq Events'
  BY <1>1, <1>2 DEF Inv
<1> QED BY <1>1, <1>3, <1>4, <1>5, <1>6 DEF Inv

\* Every step keeps the invariant.
LEMMA Step ==
  ASSUME Inv, [Next]_vars
  PROVE  Inv'
<1>1. CASE UNCHANGED vars
  <2>1. /\ kind' = kind /\ fut' = fut /\ ready' = ready /\ root' = root
        /\ woken' = woken /\ result' = result
    BY <1>1 DEF vars
  <2>2. Events' = Events
    BY <2>1 DEF Events
  <2>3. Typed(fut)' /\ Tidy(Root, fut)'
    BY <2>1, <2>2, TidyNext DEF Inv, Typed
  <2>4. ASSUME root' = "live", ~woken'
        PROVE  OutputsWhen(Unheard(fut), fut.yielded)'[Root] = {}
    <3>1. OutputsWhen(Unheard(fut), fut.yielded)[Root] = {}
      BY <2>1, <2>4 DEF Inv
    <3>2. Unheard(fut) = ready' \cup (Nodes \ fut'.asked)
      BY <2>1 DEF Unheard
    <3> QED BY <2>1, <3>1, <3>2, SameOutputs
  <2> QED BY <2>1, <2>2, <2>3, <2>4 DEF Inv
<1>2. CASE PollRoot
  BY <1>2, PollKeeps
<1>3. ASSUME NEW n \in Nodes, Happens(n)
      PROVE  Inv'
  BY <1>3, EventKeeps
<1> QED BY <1>1, <1>2, <1>3 DEF Next

----------------------------------------------------------------------------
(* The theorems.                                                           *)

\* The invariant holds of every reachable state.
THEOREM Invariance == Spec => []Inv
<1>1. Init => Inv
  BY InitHolds
<1>2. Inv /\ [Next]_vars => Inv'
  BY Step
<1> QED BY <1>1, <1>2, PTL DEF Spec

\* Every state is of its type: nothing but a join that has one result, and
\* waits for the other, keeps anything between two polls.
THEOREM TypeCorrect == Spec => []TypeOK
<1>1. ASSUME Inv
      PROVE  TypeOK
  <2>1. ASSUME NEW n \in Nodes, fut.res[n] # NoResults
        PROVE  kind[n] = "join" /\ \E i \in {1, 2} : fut.res[n][i] = Pending
    <3>1. TidyAt(n, fut)
      BY <1>1, RootIsAbove DEF Inv, Tidy
    <3>2. kind[n] = "join" /\ n \in Futures \ fut.ended
      BY <2>1, <3>1 DEF TidyAt, Futures
    <3>3. /\ HalfKept(Left(n), fut.res[n][1], fut) /\ HalfKept(Right(n), fut.res[n][2], fut)
          /\ ~(fut.res[n][1].ready /\ fut.res[n][2].ready)
      BY <3>1, <3>2 DEF TidyAt
    <3> QED BY <3>2, <3>3 DEF HalfKept
  <2> QED BY <1>1, <2>1 DEF Inv, TypeOK, Typed
<1> QED BY <1>1, Invariance, PTL

\* However races, joins, timeouts and delays are nested, and in whatever order
\* their halves return, no future is polled again after it has returned.
THEOREM NeverAgain == Spec => []NeverPolledAgain
<1>1. Inv => NeverPolledAgain
  BY DEF Inv, Typed, NeverPolledAgain
<1> QED BY <1>1, Invariance, PTL

\* However deep the tree, a task that sleeps has nothing to return.
THEOREM SleepersHaveNothing == Spec => []NoWakeLost
<1>1. ASSUME Inv
      PROVE  NoWakeLost
  <2> SUFFICES ASSUME root = "live", ~woken
               PROVE  OutputsWhen(ready, fut.yielded)[Root] = {}
    BY DEF NoWakeLost, Outputs
  <2>1. OutputsWhen(Unheard(fut), fut.yielded)[Root] = {}
    BY <1>1 DEF Inv
  <2> QED BY <1>1, <2>1, NothingNow, TreeIs DEF Inv
<1> QED BY <1>1, Invariance, PTL

\* A poll of the task returns if and only if the tree has something to return,
\* and then one of the outputs that the tree may have.
THEOREM PollsReturnWhatIsThere == Spec => ReturnsWhatIsThere
<1>1. ASSUME Inv, PollRoot
      PROVE  IF root' = "done" THEN result' \in Outputs(Root) ELSE Outputs(Root) = {}
  <2> DEFINE p == Poll[Root][fut]
             o == p.out
  <2>1. Good(Root, fut, p) /\ root' = (IF o.ready THEN "done" ELSE "live") /\ result' = o.of
    BY <1>1, RootStep
  <2>2. Answer(Root, fut, p.s, o)
    BY <2>1 DEF Good
  <2> HIDE DEF p, o
  <2>3. ASSUME o.ready
        PROVE  result' \in Outputs(Root)
    BY <2>1, <2>2, <2>3 DEF Answer, Outputs
  <2>4. ASSUME ~o.ready
        PROVE  Outputs(Root) = {}
    <3>1. OutputsWhen(Unheard(p.s), fut.yielded)[Root] = {}
      BY <2>2, <2>4 DEF Answer
    <3>2. OutputsWhen(ready, fut.yielded)[Root] = {}
      BY <1>1, <3>1, NothingNow, TreeIs DEF Inv
    <3> QED BY <3>2 DEF Outputs
  <2> QED BY <2>1, <2>3, <2>4
<1> QED BY <1>1, Invariance, PTL DEF Spec, ReturnsWhatIsThere

\* A timeout around any future fails only if that future, in the poll in which
\* it fails, could not return.
THEOREM TimeoutsLoseNothing == Spec => ResultBeforeTimeout
<1>1. ASSUME Inv, [Next]_vars, ~UNCHANGED vars, kind[Root] = "timeout", result' = {Right(Root)}
      PROVE  Outputs(Left(Root)) = {}
  <2> DEFINE p == Poll[Root][fut]
             o == p.out
  <2>1. PollRoot
    <3>1. ASSUME NEW n \in Nodes, Happens(n)
          PROVE  FALSE
      <4>1. result' = result /\ result = {}
        BY <1>1, <3>1 DEF Happens, Inv
      <4> QED BY <1>1, <4>1
    <3> QED BY <1>1, <3>1 DEF Next
  <2>2. Good(Root, fut, p) /\ result' = o.of
    BY <1>1, <2>1, RootStep
  <2>3. Answer(Root, fut, p.s, o) /\ FutureFirst(Root, fut, o)
    BY <2>2 DEF Good
  <2> HIDE DEF p, o
  <2>4. o.ready
    BY <1>1, <2>2, <2>3, NothingKept DEF Answer
  <2> SUFFICES ASSUME Outputs(Left(Root)) # {}
               PROVE  FALSE
    OBVIOUS
  <2>5. {Right(Root)} \in OutputsWhen(ready, fut.yielded)[Left(Root)]
    BY <1>1, <2>2, <2>3, <2>4 DEF FutureFirst, Outputs
  <2>6. /\ Left(Root) \in Futures /\ Right(Root) \in Below(Right(Root))
        /\ Below(Left(Root)) \cap Below(Right(Root)) = {}
    <3>1. kind \in Trees /\ Root \in Futures /\ kind[Root] \notin LeafKinds
      BY <1>1, TreeIs DEF Inv, LeafKinds
    <3>2. HalvesOf(Root, Left(Root), Right(Root))
      BY DEF HalvesOf
    <3> QED BY <3>1, <3>2, HalvesAre
  <2>7. {Right(Root)} \subseteq Below(Left(Root))
    BY <1>1, <2>5, <2>6, OutputsAreBelow DEF Inv
  <2> QED BY <2>6, <2>7
<1>2. Inv /\ [Next]_vars =>
        [kind[Root] = "timeout" /\ result' = {Right(Root)} => Outputs(Left(Root)) = {}]_vars
  BY <1>1
<1> QED BY <1>2, Invariance, PTL DEF Spec, ResultBeforeTimeout
=============================================================================
