---------------------------- MODULE Combinators -----------------------------
(***************************************************************************)
(* Race, Join, TimeoutFuture and DelayFuture of src/prelude/mod.rs and     *)
(* YieldNow of src/task/mod.rs, nested in any way. A task awaits a tree of *)
(* them, whose leaves are YieldNow and events: any future that becomes     *)
(* ready at some time and wakes whoever polled it before. The delay of a   *)
(* timeout or delay is an event too; how it comes about is in Timer.tla.   *)
(*                                                                         *)
(* A poll of the root is one action: Poll goes down the tree as the code   *)
(* does. An output is abstracted to the set of leaves it comes from. The   *)
(* executor may poll the root also when nobody woke it.                    *)
(***************************************************************************)
EXTENDS Naturals, SequencesExt

CONSTANT Depth   \* how many futures may be nested in the one that is awaited

ASSUME DepthAssumption == Depth \in Nat

\* A node of the tree is named by the way to it from the root: <<1, 2>> is the
\* second half of the first half of what is awaited.
Nodes == SeqOf({1, 2}, Depth)
Root == <<>>
Left(n) == Append(n, 1)
Right(n) == Append(n, 2)

VARIABLES
  kind,    \* what each node is; "none" if the tree has no such node
  fut,     \* the state of the futures, see Fresh
  ready,   \* events that have happened
  root,    \* "live" or "done"
  woken,   \* the task's waker was called since its last poll
  result   \* what the root returned

vars == <<kind, fut, ready, root, woken, result>>

\* The nodes that may have halves.
Inner == {n \in Nodes : Len(n) < Depth}

Futures == {n \in Nodes : kind[n] # "none"}
Events == {n \in Nodes : kind[n] = "event"}
LeafKinds == {"event", "yield"}

\* What FutureExt and yield_now can build. The first half of a timeout or
\* delay is the future it is called on, the second is the timer's delay.
Trees ==
  {k \in [Nodes -> LeafKinds \cup {"race", "join", "timeout", "delay", "none"}] :
     /\ k[Root] # "none"
     /\ \A n \in Nodes \ Inner : k[n] \in LeafKinds \cup {"none"}
     /\ \A n \in Inner :
          IF k[n] \in LeafKinds \cup {"none"}
          THEN k[Left(n)] = "none" /\ k[Right(n)] = "none"
          ELSE /\ k[Left(n)] # "none" /\ k[Right(n)] # "none"
               /\ k[n] \in {"timeout", "delay"} => k[Right(n)] = "event"}

\* A poll that is pending, which is also an Option that is None; and one that
\* is ready with the outputs of some leaves.
Pending == [ready |-> FALSE, of |-> {}]
Ready(leaves) == [ready |-> TRUE, of |-> leaves]
NoResults == [i \in {1, 2} |-> Pending]

\* res of Race and Join; nodes whose DelayFuture.delay is Some; YieldNows that
\* are true; events that keep a waker; whether a waker was called in this
\* poll; futures that have returned Ready, and that were polled after that.
Fresh ==
  [res |-> [n \in Nodes |-> NoResults], delay |-> Inner, yielded |-> {},
   asked |-> {}, woke |-> FALSE, ended |-> {}, again |-> {}]

Outcomes == [ready : BOOLEAN, of : SUBSET Nodes]

States ==
  [res : [Nodes -> [{1, 2} -> Outcomes]], delay : SUBSET Nodes,
   yielded : SUBSET Nodes, asked : SUBSET Nodes, woke : BOOLEAN, ended : SUBSET Nodes,
   again : SUBSET Nodes]

Init ==
  /\ kind \in Trees
  /\ fut = Fresh
  /\ ready = {}
  /\ root = "live"
  /\ woken = TRUE
  /\ result = {}

TypeOK ==
  /\ kind \in Trees
  /\ ready \subseteq Events
  /\ root \in {"live", "done"} /\ woken \in BOOLEAN
  /\ result \subseteq Nodes
  /\ fut \in States
  /\ fut.asked \subseteq Events /\ fut.delay \subseteq Inner /\ fut.woke = FALSE
  /\ \A n \in Nodes : fut.res[n] # NoResults =>
       kind[n] = "join" /\ \E i \in {1, 2} : fut.res[n][i] = Pending

----------------------------------------------------------------------------
(* Polling. Each operator returns the state after and the outcome. What    *)
(* polling the two halves does is passed as two functions, l and r.        *)

PollEvent(n, s) ==
  IF n \in ready THEN [s |-> s, out |-> Ready({n})]
  ELSE [s |-> [s EXCEPT !.asked = @ \cup {n}], out |-> Pending]

\* YieldNow::poll wakes its own task the first time.
PollYield(n, s) ==
  IF n \in s.yielded THEN [s |-> s, out |-> Ready({n})]
  ELSE [s |-> [s EXCEPT !.yielded = @ \cup {n}, !.woke = TRUE], out |-> Pending]

\* me.res.i = poll_to_option(poll_fut(half, cx)).
PollHalf(n, i, half, s) ==
  LET p == half[s] IN [p.s EXCEPT !.res[n][i] = p.out]

\* What res holds is taken out and returned.
TakeResults(n, s) ==
  [s |-> [s EXCEPT !.res[n] = NoResults],
   out |-> Ready(s.res[n][1].of \cup s.res[n][2].of)]

RaceAsksFirstOnly(n, l, r, s) ==
  LET s1 == IF s.res[n] = NoResults THEN PollHalf(n, 1, l, s) ELSE s
  IN  IF s1.res[n] = NoResults THEN [s |-> s1, out |-> Pending] ELSE TakeResults(n, s1)

RaceAsksSecondFirst(n, l, r, s) ==
  LET s1 == IF s.res[n] = NoResults THEN PollHalf(n, 2, r, s) ELSE s
      s2 == IF s1.res[n] = NoResults THEN PollHalf(n, 1, l, s1) ELSE s1
  IN  IF s2.res[n] = NoResults THEN [s |-> s2, out |-> Pending] ELSE TakeResults(n, s2)

\* Race::poll. The second half is asked only if the first is pending.
PollRace(n, l, r, s) ==
  LET s1 == IF s.res[n] = NoResults THEN PollHalf(n, 1, l, s) ELSE s
      s2 == IF s1.res[n] = NoResults THEN PollHalf(n, 2, r, s1) ELSE s1
  IN  IF s2.res[n] = NoResults THEN [s |-> s2, out |-> Pending] ELSE TakeResults(n, s2)

JoinAsksBoth(n, l, r, s) ==
  LET s1 == PollHalf(n, 1, l, s)
      s2 == PollHalf(n, 2, r, s1)
  IN  IF s2.res[n][1].ready /\ s2.res[n][2].ready THEN TakeResults(n, s2)
      ELSE [s |-> s2, out |-> Pending]

JoinReturnsTheLast(n, l, r, s) ==
  LET s1 == IF s.res[n][1] = Pending THEN PollHalf(n, 1, l, s) ELSE s
      s2 == IF s1.res[n][2] = Pending THEN PollHalf(n, 2, r, s1) ELSE s1
  IN  IF s2.res[n][2].ready THEN TakeResults(n, s2) ELSE [s |-> s2, out |-> Pending]

\* Join::poll. A half that is ready is remembered and not asked again.
PollJoin(n, l, r, s) ==
  LET s1 == IF s.res[n][1] = Pending THEN PollHalf(n, 1, l, s) ELSE s
      s2 == IF s1.res[n][2] = Pending THEN PollHalf(n, 2, r, s1) ELSE s1
  IN  IF s2.res[n][1].ready /\ s2.res[n][2].ready THEN TakeResults(n, s2)
      ELSE [s |-> s2, out |-> Pending]

\* TimeoutFuture::poll: Err(TimeoutError) is the output of the delay.
PollTimeout(n, l, r, s) == PollRace(n, l, r, s)

DelayReturnsOnce(n, l, r, s) ==
  IF n \in s.delay
  THEN LET p == r[s]
       IN  IF p.out.ready THEN [s |-> [p.s EXCEPT !.delay = @ \ {n}], out |-> Pending] ELSE p
  ELSE l[s]

\* DelayFuture::poll. In the poll in which the delay ends, it is dropped and
\* the future itself is asked.
PollDelay(n, l, r, s) ==
  IF n \in s.delay
  THEN LET p == r[s]
       IN  IF p.out.ready THEN l[[p.s EXCEPT !.delay = @ \ {n}]] ELSE p
  ELSE l[s]

\* Future::poll of a node, with the books about it.
PollNode(n, l, r, s) ==
  LET before == IF n \in s.ended THEN [s EXCEPT !.again = @ \cup {n}] ELSE s
      p == CASE kind[n] = "event"   -> PollEvent(n, before)
             [] kind[n] = "yield"   -> PollYield(n, before)
             [] kind[n] = "race"    -> PollRace(n, l, r, before)
             [] kind[n] = "join"    -> PollJoin(n, l, r, before)
             [] kind[n] = "timeout" -> PollTimeout(n, l, r, before)
             [] kind[n] = "delay"   -> PollDelay(n, l, r, before)
  IN  IF p.out.ready THEN [p EXCEPT !.s.ended = @ \cup {n}] ELSE p

\* Poll[n][s] goes down the tree from node n in state s.
Poll ==
  LET poll[n \in Futures] ==
        [s \in States |-> PollNode(n, poll[Left(n)], poll[Right(n)], s)]
  IN  poll

----------------------------------------------------------------------------

\* The executor polls the task. Once the root has returned it is dropped.
PollRoot ==
  /\ root = "live"
  /\ LET p == Poll[Root][fut]
     IN  /\ fut' = [p.s EXCEPT !.woke = FALSE]
         /\ woken' = p.s.woke
         /\ root' = IF p.out.ready THEN "done" ELSE "live"
         /\ result' = p.out.of
  /\ UNCHANGED <<kind, ready>>

\* What a leaf waits for happens, and wakes the task if it keeps its waker.
Happens(n) ==
  /\ root = "live" /\ n \in Events \ ready
  /\ ready' = ready \cup {n}
  /\ woken' = (woken \/ n \in fut.asked)
  /\ UNCHANGED <<kind, fut, root, result>>

Next == PollRoot \/ \E n \in Nodes : Happens(n)

Spec == Init /\ [][Next]_vars

----------------------------------------------------------------------------
(* Properties. Outputs is the reference: what a node may return, given what *)
(* has happened and which YieldNows have yielded. It knows nothing of polls.*)

\* What node n may return when its halves may return the outputs in l and r.
OutputsOf(n, l, r, happened, yielded) ==
  CASE kind[n] = "event" -> IF n \in happened THEN {{n}} ELSE {}
    [] kind[n] = "yield" -> IF n \in yielded THEN {{n}} ELSE {}
    [] kind[n] \in {"race", "timeout"} -> l \cup r
    [] kind[n] = "join"  -> {a \cup b : a \in l, b \in r}
    [] kind[n] = "delay" -> IF r = {} THEN {} ELSE l

OutputsWhen(happened, yielded) ==
  LET outputs[n \in Futures] ==
        OutputsOf(n, outputs[Left(n)], outputs[Right(n)], happened, yielded)
  IN  outputs

Outputs(n) == OutputsWhen(ready, fut.yielded)[n]

\* No future is polled after it has returned Ready, however the halves of
\* races and joins end, in whatever poll: many futures panic then.
NeverPolledAgain == fut.again = {}

\* A task that sleeps has nothing to return: every leaf that could let the
\* root return, and has not happened, keeps the waker.
NoWakeLost == root = "live" /\ ~woken => Outputs(Root) = {}

\* The root returns in the first poll in which it can, with an output that is
\* right: none is lost or made up on the way through the tree.
ReturnsWhatIsThere ==
  [][PollRoot => IF root' = "done" THEN result' \in Outputs(Root) ELSE Outputs(Root) = {}]_vars

\* A timeout fails only if its future could not return in that poll: a result
\* that comes together with the timeout is not thrown away.
ResultBeforeTimeout ==
  [][kind[Root] = "timeout" /\ result' = {Right(Root)} => Outputs(Left(Root)) = {}]_vars
=============================================================================
