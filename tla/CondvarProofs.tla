--------------------------- MODULE CondvarProofs ----------------------------
(***************************************************************************)
(* The safety properties of Condvar.tla, for any finite set of tasks and   *)
(* any number of handles, items and cancelled waits.                       *)
(***************************************************************************)
EXTENDS Condvar, FiniteSetTheorems, SequenceTheorems, TLAPS

\* Nothing was used before the split.
UnsplitIsUnused ==
  condvar = "unsplit" =>
    /\ rc_notifier = 0 /\ handles = 0 /\ ~failed
    /\ At("waiting") \cup At("relocking") = {}

\* A wait borrows its handle to its end.
WaitsBorrow == At("waiting") \cup At("relocking") # {} => handles > 0

\* What is owed is still there: who takes an item takes the latest.
OwedIsThere == owed <= items

\* The inductive invariant. That no signal is lost needs to know where the
\* tasks are: one that is notified is in no list, so each notification is
\* counted once, and only a task that finds no item joins the list.
IInv ==
  /\ TypeOK
  /\ MutualExclusion
  /\ ListedOrNotified
  /\ ParkedForLockOrWoken
  /\ NoSignalLost
  /\ CountsReferences
  /\ NothingOutlivesCondvar
  /\ ErrorsAreFinal
  /\ UnsplitIsUnused
  /\ WaitsBorrow
  /\ OwedIsThere

----------------------------------------------------------------------------
(* The list of the waiters.                                                *)

\* A task joins the list at its end.
LEMMA Joins ==
  ASSUME NEW q \in Seq(Tasks), NEW t \in Tasks, IsInjective(q), t \notin ToSet(q)
  PROVE  /\ Append(q, t) \in Seq(Tasks)
         /\ ToSet(Append(q, t)) = ToSet(q) \cup {t}
         /\ IsInjective(Append(q, t))
         /\ Append(q, t) # <<>>
<1> DEFINE r == Append(q, t)
<1>1. r \in Seq(Tasks) /\ Len(r) = Len(q) + 1 /\ Len(q) \in Nat
  OBVIOUS
<1>2. DOMAIN r = 1 .. Len(r) /\ DOMAIN q = 1 .. Len(q)
  OBVIOUS
<1>3. \A i \in 1 .. Len(q) : r[i] = q[i]
  OBVIOUS
<1>4. r[Len(q) + 1] = t
  OBVIOUS
<1>5. 1 .. Len(r) = (1 .. Len(q)) \cup {Len(q) + 1}
  BY <1>1
<1>6. r # <<>>
  BY <1>1
<1> HIDE DEF r
<1>7. ToSet(r) = ToSet(q) \cup {t}
  BY <1>2, <1>3, <1>4, <1>5 DEF ToSet
<1>8. IsInjective(r)
  <2> SUFFICES ASSUME NEW i \in DOMAIN r, NEW j \in DOMAIN r, r[i] = r[j]
               PROVE  i = j
    BY DEF IsInjective
  <2>1. CASE i \in DOMAIN q /\ j \in DOMAIN q
    BY <1>2, <1>3, <2>1 DEF IsInjective
  <2>2. CASE i \notin DOMAIN q \/ j \notin DOMAIN q
    BY <1>2, <1>3, <1>4, <1>5, <2>2 DEF ToSet
  <2> QED BY <2>1, <2>2
<1> QED BY <1>1, <1>6, <1>7, <1>8 DEF r

\* The one at place i leaves it.
LEMMA Leaves ==
  ASSUME NEW q \in Seq(Tasks), IsInjective(q), NEW i \in DOMAIN q
  PROVE  /\ RemoveAt(q, i) \in Seq(Tasks)
         /\ ToSet(RemoveAt(q, i)) = ToSet(q) \ {q[i]}
         /\ IsInjective(RemoveAt(q, i))
<1> DEFINE r == RemoveAt(q, i)
           m(j) == IF j < i THEN j ELSE j + 1
<1>1. DOMAIN q = 1 .. Len(q) /\ Len(q) \in Nat /\ i \in 1 .. Len(q)
  OBVIOUS
<1> DEFINE s1 == SubSeq(q, 1, i - 1)
           s2 == SubSeq(q, i + 1, Len(q))
<1>2. /\ s1 \in Seq(Tasks) /\ Len(s1) = i - 1
      /\ \A j \in 1 .. i - 1 : s1[j] = q[j]
  BY <1>1
<1>3. /\ s2 \in Seq(Tasks) /\ Len(s2) = Len(q) - i
      /\ \A j \in 1 .. Len(q) - i : s2[j] = q[j + i]
  BY <1>1
<1>4. r = s1 \o s2
  BY DEF RemoveAt
<1> HIDE DEF s1, s2, r
<1>5. /\ r \in Seq(Tasks) /\ Len(r) = Len(s1) + Len(s2)
      /\ \A j \in 1 .. Len(s1) + Len(s2) : r[j] = IF j <= Len(s1) THEN s1[j] ELSE s2[j - Len(s1)]
  BY <1>2, <1>3, <1>4, ConcatProperties
<1>6. r \in Seq(Tasks) /\ Len(r) = Len(q) - 1
  BY <1>1, <1>2, <1>3, <1>5
<1>7. \A j \in 1 .. Len(r) : r[j] = q[m(j)] /\ m(j) \in DOMAIN q /\ m(j) # i
  <2> SUFFICES ASSUME NEW j \in 1 .. Len(r)
               PROVE  r[j] = q[m(j)] /\ m(j) \in DOMAIN q /\ m(j) # i
    OBVIOUS
  <2>1. m(j) \in DOMAIN q /\ m(j) # i
    BY <1>1, <1>6
  <2>2. CASE j < i
    BY <1>1, <1>2, <1>3, <1>6, <1>5, <2>2
  <2>3. CASE j >= i
    <3>1. r[j] = s2[j - (i - 1)] /\ j - (i - 1) \in 1 .. Len(q) - i
      BY <1>1, <1>2, <1>3, <1>6, <1>5, <2>3, SMTT(20)
    <3>2. s2[j - (i - 1)] = q[(j - (i - 1)) + i]
      BY <1>3, <3>1
    <3>3. (j - (i - 1)) + i = j + 1
      BY <1>1, <1>6
    <3> QED BY <1>1, <1>6, <2>3, <3>1, <3>2, <3>3, SMTT(20)
  <2> QED BY <1>1, <1>6, <2>1, <2>2, <2>3
<1>8. DOMAIN r = 1 .. Len(r)
  BY <1>6
<1>9. \A k \in DOMAIN q : k # i => \E j \in 1 .. Len(r) : k = m(j)
  <2> SUFFICES ASSUME NEW k \in DOMAIN q, k # i PROVE \E j \in 1 .. Len(r) : k = m(j)
    OBVIOUS
  <2>1. CASE k < i
    <3>1. k \in 1 .. Len(r) /\ k = m(k)
      BY <1>1, <1>6, <2>1
    <3> QED BY <3>1
  <2>2. CASE k > i
    <3>1. k - 1 \in 1 .. Len(r) /\ k = m(k - 1)
      BY <1>1, <1>6, <2>2
    <3> QED BY <3>1
  <2> QED BY <1>1, <2>1, <2>2
<1>10. \A j, k \in 1 .. Len(r) : m(j) = m(k) => j = k
  BY <1>1, <1>6
<1> HIDE DEF m
<1>11. ToSet(r) = ToSet(q) \ {q[i]}
  <2>1. ASSUME NEW j \in 1 .. Len(r)
        PROVE  r[j] \in ToSet(q) \ {q[i]}
    BY <1>7 DEF ToSet, IsInjective
  <2>2. ASSUME NEW x \in ToSet(q) \ {q[i]}
        PROVE  x \in ToSet(r)
    <3>1. PICK k \in DOMAIN q : q[k] = x /\ k # i
      BY DEF ToSet
    <3>2. PICK j \in 1 .. Len(r) : k = m(j)
      BY <1>9, <3>1
    <3> QED BY <1>7, <1>8, <3>1, <3>2 DEF ToSet
  <2> QED BY <1>8, <2>1, <2>2 DEF ToSet
<1>12. IsInjective(r)
  <2> SUFFICES ASSUME NEW j \in DOMAIN r, NEW k \in DOMAIN r, r[j] = r[k]
               PROVE  j = k
    BY DEF IsInjective
  <2>1. m(j) = m(k)
    BY <1>7, <1>8 DEF IsInjective
  <2> QED BY <1>8, <1>10, <2>1
<1> QED BY <1>6, <1>11, <1>12 DEF r

\* The first one leaves it.
LEMMA FirstLeaves ==
  ASSUME NEW q \in Seq(Tasks), IsInjective(q), q # <<>>
  PROVE  /\ Tail(q) \in Seq(Tasks)
         /\ Head(q) \in ToSet(q)
         /\ ToSet(Tail(q)) = ToSet(q) \ {Head(q)}
         /\ IsInjective(Tail(q))
<1>1. 1 \in DOMAIN q /\ Head(q) = q[1]
  OBVIOUS
<1>2. Tail(q) = RemoveAt(q, 1)
  <2>1. /\ SubSeq(q, 1, 0) = <<>> /\ SubSeq(q, 2, Len(q)) \in Seq(Tasks)
        /\ SubSeq(q, 2, Len(q)) = Tail(q)
    OBVIOUS
  <2> QED BY <2>1 DEF RemoveAt
<1>3. Head(q) \in ToSet(q)
  BY <1>1 DEF ToSet
<1> QED BY <1>1, <1>2, <1>3, Leaves

----------------------------------------------------------------------------
(* Counting tasks.                                                         *)

\* One task more or less in a set of them.
LEMMA OneTask ==
  ASSUME NEW S \in SUBSET Tasks, NEW t \in Tasks
  PROVE  /\ Cardinality(S) \in Nat
         /\ t \in S => Cardinality(S) > 0
         /\ Cardinality(S \ {t}) = IF t \in S THEN Cardinality(S) - 1 ELSE Cardinality(S)
         /\ Cardinality(S \cup {t}) = IF t \in S THEN Cardinality(S) ELSE Cardinality(S) + 1
<1>1. IsFiniteSet(S)
  BY TasksAssumption, FS_Subset
<1>2. Cardinality(S) \in Nat
  BY <1>1, FS_CardinalityType
<1>3. CASE t \in S
  <2>1. Cardinality(S \ {t}) = Cardinality(S) - 1
    BY <1>1, <1>3, FS_RemoveElement
  <2>2. S \cup {t} = S
    BY <1>3
  <2>3. Cardinality(S) # 0
    BY <1>1, <1>3, FS_EmptySet
  <2> QED BY <1>2, <1>3, <2>1, <2>2, <2>3
<1>4. CASE t \notin S
  <2>1. Cardinality(S \cup {t}) = Cardinality(S) + 1
    BY <1>1, <1>4, FS_AddElement
  <2>2. S \ {t} = S
    BY <1>4
  <2> QED BY <1>2, <1>4, <2>1, <2>2
<1> QED BY <1>3, <1>4

LEMMA TasksCounted == \A S \in SUBSET Tasks : Cardinality(S) \in Nat
  BY TasksAssumption, FS_Subset, FS_CardinalityType

\* Where the tasks are after one of them went somewhere.
LEMMA Moves ==
  ASSUME TypeOK, NEW t \in Tasks, NEW s \in TaskStates, Goto(t, s)
  PROVE  /\ task' \in [Tasks -> TaskStates]
         /\ \A u \in TaskStates : At(u)' = IF u = s THEN At(u) \cup {t} ELSE At(u) \ {t}
  BY DEF TypeOK, Goto, At

\* Both polls of a wait go on in the same way: the task is in no list, and
\* takes its notification with it.
LEMMA AnyPoll ==
  ASSUME IInv, NEW t \in Tasks, PollWait(t) \/ PollRelock(t)
  PROVE  /\ Running /\ task[t] \in {"waiting", "relocking"} /\ t \in woken
         /\ t \notin ToSet(waiters) /\ t \notin lock_waiting
         /\ task[t] = "waiting" <=> t \in notified
         /\ notified' = notified \ {t}
         /\ UNCHANGED <<condvar, rc_notifier, handles, until>>
         /\ Relocks(t, handles + Cardinality(At("waiting") \ {t}))
<1> USE DEF IInv, ListedOrNotified, ParkedForLockOrWoken
<1>1. CASE PollWait(t)
  <2>1. t \in At("waiting")
    BY <1>1 DEF PollWait, At
  <2>2. rc_waiter - 1 = handles + Cardinality(At("waiting") \ {t})
    <3>1. At("waiting") \in SUBSET Tasks
      BY DEF At
    <3>2. /\ Cardinality(At("waiting") \ {t}) = Cardinality(At("waiting")) - 1
          /\ Cardinality(At("waiting")) \in Nat
      BY <2>1, <3>1, OneTask
    <3> QED BY <1>1, <3>2 DEF PollWait, CountsReferences, TypeOK
  <2> QED BY <1>1, <2>2 DEF PollWait
<1>2. CASE PollRelock(t)
  <2>1. t \notin At("waiting") /\ t \notin notified
    BY <1>2 DEF PollRelock, At
  <2>2. At("waiting") \ {t} = At("waiting") /\ notified \ {t} = notified
    BY <2>1
  <2>3. rc_waiter = handles + Cardinality(At("waiting") \ {t})
    BY <1>2, <2>2 DEF PollRelock, CountsReferences
  <2> QED BY <1>2, <2>1, <2>2, <2>3 DEF PollRelock, At
<1> QED BY <1>1, <1>2

\* Who is at work is in no list and was not woken; the two lists are apart.
LEMMA Apart ==
  ASSUME IInv
  PROVE  /\ \A t \in Tasks : task[t] \in {"idle", "holding", "returned"} =>
              t \notin ToSet(waiters) \cup notified \cup woken \cup lock_waiting
         /\ lock_waiting \cap At("waiting") = {}
         /\ (woken \ notified) \cap At("waiting") = {}
         /\ ToSet(waiters) \subseteq Tasks /\ notified \subseteq woken
  BY DEF IInv, ListedOrNotified, ParkedForLockOrWoken, At

----------------------------------------------------------------------------
(* The two lists.                                                          *)

Lists == waiters \in Seq(Tasks) /\ ListedOrNotified /\ ParkedForLockOrWoken

\* A task that was in no list and is not woken goes to work, or to sleep in
\* one of the lists, while a release may wake those in the mutex's.
LEMMA GoesOn ==
  ASSUME IInv, NEW t \in Tasks, NEW s \in TaskStates, Goto(t, s),
         t \notin ToSet(waiters), t \notin lock_waiting, notified' = notified \ {t},
         \/ waiters' = waiters /\ s \notin {"waiting", "locking", "relocking"} /\ lock_waiting' = {}
              /\ woken' = (woken \ {t}) \cup lock_waiting
         \/ waiters' = waiters /\ s \in {"holding", "returned"} /\ lock_waiting' = lock_waiting
              /\ ~locked /\ woken' = woken \ {t}
         \/ waiters' = waiters /\ s \in {"locking", "relocking"} /\ lock_waiting' = lock_waiting \cup {t}
              /\ locked /\ locked' = locked /\ woken' = woken \ {t}
         \/ waiters' = Append(waiters, t) /\ s = "waiting" /\ lock_waiting' = {}
              /\ woken' = (woken \ {t}) \cup lock_waiting
  PROVE  Lists'
<1> USE DEF IInv, Lists, ListedOrNotified, ParkedForLockOrWoken
<1>1. /\ At("waiting")' = IF s = "waiting" THEN At("waiting") \cup {t} ELSE At("waiting") \ {t}
      /\ At("locking")' = IF s = "locking" THEN At("locking") \cup {t} ELSE At("locking") \ {t}
      /\ At("relocking")' = IF s = "relocking" THEN At("relocking") \cup {t} ELSE At("relocking") \ {t}
  BY Moves DEF TaskStates
<1>2. waiters \in Seq(Tasks) /\ ToSet(waiters) \subseteq Tasks /\ lock_waiting \cap At("waiting") = {}
  BY Apart DEF TypeOK
<1>3. CASE waiters' = waiters /\ s # "waiting"
  <2>1. ListedOrNotified'
    BY <1>1, <1>2, <1>3
  <2>2. CASE lock_waiting' = {} /\ woken' = (woken \ {t}) \cup lock_waiting /\ s \notin {"locking", "relocking"}
    <3>1. ParkedForLockOrWoken'
      BY <1>1, <1>2, <2>2
    <3> QED BY <1>2, <1>3, <2>1, <3>1
  <2>3. CASE ~locked /\ lock_waiting' = lock_waiting /\ woken' = woken \ {t} /\ s \notin {"locking", "relocking"}
    <3>1. ParkedForLockOrWoken'
      BY <1>1, <1>2, <2>3
    <3> QED BY <1>2, <1>3, <2>1, <3>1
  <2>4. CASE /\ lock_waiting' = lock_waiting \cup {t} /\ locked /\ locked' = locked
             /\ woken' = woken \ {t} /\ s \in {"locking", "relocking"}
    <3>1. ParkedForLockOrWoken'
      BY <1>1, <1>2, <2>4
    <3> QED BY <1>2, <1>3, <2>1, <3>1
  <2> QED BY <1>3, <2>2, <2>3, <2>4
<1>4. CASE waiters' = Append(waiters, t) /\ s = "waiting" /\ lock_waiting' = {}
           /\ woken' = (woken \ {t}) \cup lock_waiting
  <2>1. /\ waiters' \in Seq(Tasks) /\ ToSet(waiters)' = ToSet(waiters) \cup {t}
        /\ IsInjective(waiters)'
    BY <1>2, <1>4, Joins
  <2>2. ListedOrNotified'
    BY <1>1, <1>2, <1>4, <2>1
  <2>3. ParkedForLockOrWoken'
    BY <1>1, <1>2, <1>4
  <2> QED BY <2>1, <2>2, <2>3
<1> QED BY <1>3, <1>4

\* A sleeper that was asked to wake leaves the list and is woken.
LEMMA NotifyKeepsLists ==
  ASSUME IInv, NotifyOne \/ NotifyAll
  PROVE  Lists'
<1> USE DEF IInv, Lists, ListedOrNotified, ParkedForLockOrWoken
<1>1. PICK ts \in SUBSET Tasks :
        /\ ts \subseteq ToSet(waiters)
        /\ notified' = notified \cup ts /\ woken' = woken \cup ts
        /\ waiters' \in Seq(Tasks) /\ ToSet(waiters)' = ToSet(waiters) \ ts /\ IsInjective(waiters)'
  <2>0. waiters \in Seq(Tasks) /\ ToSet(waiters) \subseteq Tasks
    BY Apart DEF TypeOK
  <2>1. CASE NotifyOne /\ waiters = <<>>
    <3>1. notified' = notified \cup {} /\ woken' = woken \cup {} /\ waiters' = waiters
      BY <2>1 DEF NotifyOne
    <3> QED BY <2>0, <3>1
  <2>2. CASE NotifyOne /\ waiters # <<>>
    <3>1. /\ notified' = notified \cup {Head(waiters)} /\ woken' = woken \cup {Head(waiters)}
          /\ waiters' = Tail(waiters)
      BY <2>2 DEF NotifyOne, Notify
    <3>2. /\ Tail(waiters) \in Seq(Tasks) /\ Head(waiters) \in ToSet(waiters)
          /\ ToSet(Tail(waiters)) = ToSet(waiters) \ {Head(waiters)}
          /\ IsInjective(Tail(waiters))
      BY <2>0, <2>2, FirstLeaves
    <3> QED BY <2>0, <3>1, <3>2, ZenonT(40)
  <2>3. CASE NotifyAll
    <3>1. /\ notified' = notified \cup ToSet(waiters) /\ woken' = woken \cup ToSet(waiters)
          /\ waiters' = <<>>
      BY <2>3 DEF NotifyAll, Notify
    <3>2. ToSet(<<>>) = {} /\ IsInjective(<<>>) /\ <<>> \in Seq(Tasks)
      BY DEF ToSet, IsInjective
    <3> QED BY <2>0, <3>1, <3>2
  <2> QED BY <2>1, <2>2, <2>3
<1>2. task' = task /\ locked' = locked /\ lock_waiting' = lock_waiting
  BY DEF NotifyOne, NotifyAll, lockVars
<1>3. \A u \in TaskStates : At(u)' = At(u)
  BY <1>2 DEF At
<1>4. lock_waiting \cap ts = {} /\ (At("locking") \cup At("relocking")) \cap ts = {}
  <2>1. ts \subseteq At("waiting")
    BY <1>1
  <2> QED BY <2>1, Apart DEF At
<1>5. ListedOrNotified'
  BY <1>1, <1>3 DEF TaskStates
<1>6. ParkedForLockOrWoken'
  BY <1>1, <1>2, <1>3, <1>4 DEF TaskStates
<1> QED BY <1>1, <1>5, <1>6

\* A task that is cancelled leaves both lists and takes its wake-up with it.
LEMMA CancelKeepsLists ==
  ASSUME IInv, NEW t \in Tasks, Cancel(t)
  PROVE  Lists'
<1> USE DEF IInv, Lists, ListedOrNotified, ParkedForLockOrWoken
<1>1. /\ notified' = notified \ {t} /\ woken' = woken \ {t} /\ lock_waiting' = lock_waiting \ {t}
      /\ locked' = locked
  BY DEF Cancel
<1>2. /\ waiters' \in Seq(Tasks) /\ ToSet(waiters)' = ToSet(waiters) \ {t} /\ IsInjective(waiters)'
  <2>0. waiters \in Seq(Tasks)
    BY DEF TypeOK
  <2>1. CASE t \notin ToSet(waiters)
    <3>1. waiters' = waiters
      BY <2>1 DEF Cancel, LeaveList, ToSet
    <3> QED BY <2>0, <2>1, <3>1
  <2>2. CASE t \in ToSet(waiters)
    <3>1. PICK i \in DOMAIN waiters : waiters[i] = t /\ waiters' = RemoveAt(waiters, i)
      BY <2>2 DEF Cancel, LeaveList
    <3> QED BY <2>0, <3>1, Leaves
  <2> QED BY <2>1, <2>2
<1>3. /\ At("waiting")' = At("waiting") \ {t}
      /\ At("locking")' = At("locking") \ {t}
      /\ At("relocking")' = At("relocking") \ {t}
  BY Moves DEF Cancel, TaskStates
<1>4. ListedOrNotified'
  BY <1>1, <1>2, <1>3
<1>5. ParkedForLockOrWoken'
  BY <1>1, <1>3
<1> QED BY <1>2, <1>4, <1>5

\* No step puts a task into two lists or leaves one asleep in none.
LEMMA ListsPreserved ==
  ASSUME IInv, Next
  PROVE  Lists'
<1>0. \A t \in Tasks : t \in Holders =>
        /\ task[t] \in {"holding", "returned"} /\ t \notin ToSet(waiters)
        /\ t \notin lock_waiting /\ notified \ {t} = notified
  BY Apart DEF Holders, At
<1>1. CASE Split \/ CloneNotifier \/ DropNotifier \/ CloneWaiter \/ DropWaiter \/ DropCondvar
  BY <1>1
  DEF Split, CloneNotifier, DropNotifier, CloneWaiter, DropWaiter, DropCondvar, condVars, lockVars,
      IInv, TypeOK, Lists, ListedOrNotified, ParkedForLockOrWoken, At
<1>2. CASE NotifyOne \/ NotifyAll
  BY <1>2, NotifyKeepsLists
<1>3. ASSUME NEW t \in Tasks, Lock(t)
      PROVE  Lists'
  <2>1. t \notin ToSet(waiters) /\ t \notin lock_waiting /\ t \notin notified
    BY <1>3, Apart DEF Lock, IInv, ListedOrNotified, ParkedForLockOrWoken, At
  <2>2. notified' = notified \ {t} /\ waiters' = waiters /\ woken' = woken \ {t}
    BY <1>3, <2>1 DEF Lock, condVars
  <2>3. CASE locked
    BY <1>3, <2>1, <2>2, <2>3, GoesOn DEF Lock, ParkForLock, TaskStates
  <2>4. CASE ~locked
    BY <1>3, <2>1, <2>2, <2>4, GoesOn DEF Lock, TaskStates
  <2> QED BY <2>3, <2>4
<1>4. ASSUME NEW t \in Tasks, Put(t) \/ Take(t) \/ Unlock(t)
      PROVE  Lists'
  <2>1. /\ t \in Holders /\ Goto(t, "idle") /\ Release(t)
        /\ waiters' = waiters /\ notified' = notified
    BY <1>4 DEF Put, Take, Unlock, condVars, Holders, At
  <2> QED BY <1>0, <2>1, GoesOn DEF Release, TaskStates
<1>5. ASSUME NEW t \in Tasks, Wait(t)
      PROVE  Lists'
  <2>1. t \in Holders /\ Release(t) /\ Sleep(t, rc_waiter) /\ notified' = notified
    BY <1>5 DEF Wait
  <2> QED BY <1>0, <2>1, GoesOn DEF Release, Sleep, TaskStates
<1>6. ASSUME NEW t \in Tasks, PollWait(t) \/ PollRelock(t)
      PROVE  Lists'
  <2> DEFINE rc == handles + Cardinality(At("waiting") \ {t})
  <2>1. /\ t \notin ToSet(waiters) /\ t \notin lock_waiting /\ notified' = notified \ {t}
        /\ Relocks(t, rc)
    BY <1>6, AnyPoll
  <2> HIDE DEF rc
  <2>2. CASE ~locked /\ Returns(t, rc)
    BY <2>1, <2>2, GoesOn DEF Returns, TaskStates
  <2>3. CASE ~locked /\ WaitsAgain(t, rc)
    BY <2>1, <2>3, GoesOn DEF WaitsAgain, Release, Sleep, TaskStates
  <2>4. CASE locked
    BY <2>1, <2>4, GoesOn DEF Relocks, ParkForLock, TaskStates
  <2> QED BY <2>1, <2>2, <2>3, <2>4 DEF Relocks
<1>7. ASSUME NEW t \in Tasks, Cancel(t)
      PROVE  Lists'
  BY <1>7, CancelKeepsLists
<1> QED
  BY <1>1, <1>2, <1>3, <1>4, <1>5, <1>6, <1>7 DEF Next

----------------------------------------------------------------------------
(* The mutex, the counts and the ends.                                     *)

\* A task gets a guard when the flag is clear, and clears it when it goes.
LEMMA ExclusionPreserved ==
  ASSUME IInv, Next
  PROVE  MutualExclusion' /\ locked' \in BOOLEAN /\ task' \in [Tasks -> TaskStates]
<1> USE DEF IInv, MutualExclusion, TypeOK
<1> DEFINE Goal == MutualExclusion' /\ locked' \in BOOLEAN /\ task' \in [Tasks -> TaskStates]
<1>1. ASSUME NEW t \in Tasks, NEW s \in TaskStates, Goto(t, s)
      PROVE  /\ task' \in [Tasks -> TaskStates]
             /\ Holders' = IF s \in {"holding", "returned"} THEN Holders \cup {t} ELSE Holders \ {t}
  BY <1>1, Moves DEF Holders, TaskStates
<1>2. ASSUME NEW t \in Tasks
      PROVE  /\ Cardinality(Holders) \in Nat
             /\ t \in Holders => Cardinality(Holders) > 0
             /\ Cardinality(Holders \ {t}) = IF t \in Holders THEN Cardinality(Holders) - 1 ELSE Cardinality(Holders)
             /\ Cardinality(Holders \cup {t}) = IF t \in Holders THEN Cardinality(Holders) ELSE Cardinality(Holders) + 1
  <2>1. Holders \in SUBSET Tasks
    BY DEF Holders, At
  <2> QED BY <2>1, OneTask
\* A task with a guard gives it up, ...
<1>3. ASSUME NEW t \in Tasks, NEW s \in TaskStates \ {"holding", "returned"}, Goto(t, s),
             t \in Holders, locked' = FALSE
      PROVE  Goal
  <2>1. Holders' = Holders \ {t} /\ task' \in [Tasks -> TaskStates]
    BY <1>1, <1>3
  <2>2. Cardinality(Holders') = 0
    BY <1>2, <1>3, <2>1
  <2> QED BY <1>3, <2>1, <2>2
\* ... one without takes it, ...
<1>4. ASSUME NEW t \in Tasks, NEW s \in {"holding", "returned"}, Goto(t, s),
             t \notin Holders, ~locked, locked' = TRUE
      PROVE  Goal
  <2>1. Holders' = Holders \cup {t} /\ task' \in [Tasks -> TaskStates]
    BY <1>1, <1>4 DEF TaskStates
  <2>2. Cardinality(Holders') = 1
    BY <1>2, <1>4, <2>1
  <2> QED BY <1>4, <2>1, <2>2
\* ... or goes somewhere else.
<1>5. ASSUME NEW t \in Tasks, NEW s \in TaskStates \ {"holding", "returned"}, Goto(t, s),
             t \notin Holders, locked' = locked
      PROVE  Goal
  <2>1. Holders' = Holders \ {t} /\ task' \in [Tasks -> TaskStates]
    BY <1>1, <1>5
  <2>2. Holders \ {t} = Holders
    BY <1>5
  <2>3. Holders' = Holders
    BY <2>1, <2>2
  <2> QED BY <1>5, <2>1, <2>3
<1>6. CASE task' = task /\ locked' = locked
  <2>1. Holders' = Holders
    BY <1>6 DEF Holders, At
  <2> QED BY <1>6, <2>1
<1>7. CASE Split \/ CloneNotifier \/ DropNotifier \/ CloneWaiter \/ DropWaiter \/ DropCondvar
           \/ NotifyOne \/ NotifyAll
  BY <1>6, <1>7 DEF Split, CloneNotifier, DropNotifier, CloneWaiter, DropWaiter, DropCondvar,
                    NotifyOne, NotifyAll, lockVars
<1>8. ASSUME NEW t \in Tasks, Lock(t)
      PROVE  Goal
  <2>1. t \notin Holders
    BY <1>8 DEF Lock, Holders, At
  <2>2. CASE locked
    BY <1>5, <1>8, <2>1, <2>2 DEF Lock, ParkForLock, TaskStates
  <2>3. CASE ~locked
    BY <1>4, <1>8, <2>1, <2>3 DEF Lock
  <2> QED BY <2>2, <2>3
<1>9. ASSUME NEW t \in Tasks, Put(t) \/ Take(t) \/ Unlock(t)
      PROVE  Goal
  <2>1. t \in Holders /\ Goto(t, "idle") /\ locked' = FALSE
    BY <1>9 DEF Put, Take, Unlock, Release, Holders, At
  <2> QED BY <1>3, <2>1 DEF TaskStates
<1>10. ASSUME NEW t \in Tasks, Wait(t)
       PROVE  Goal
  BY <1>3, <1>10 DEF Wait, Release, Sleep, TaskStates
<1>11. ASSUME NEW t \in Tasks, PollWait(t) \/ PollRelock(t)
       PROVE  Goal
  <2> DEFINE rc == handles + Cardinality(At("waiting") \ {t})
  <2>1. t \notin Holders /\ Relocks(t, rc)
    BY <1>11, AnyPoll DEF Holders, At
  <2> HIDE DEF rc
  <2>2. CASE ~locked /\ Returns(t, rc)
    BY <1>4, <2>1, <2>2 DEF Returns
  <2>3. CASE ~locked /\ WaitsAgain(t, rc)
    BY <1>5, <2>1, <2>3 DEF WaitsAgain, Release, Sleep, TaskStates
  <2>4. CASE locked
    BY <1>5, <2>1, <2>4 DEF Relocks, ParkForLock, TaskStates
  <2> QED BY <2>1, <2>2, <2>3, <2>4 DEF Relocks
<1>12. ASSUME NEW t \in Tasks, Cancel(t)
       PROVE  Goal
  BY <1>5, <1>12 DEF Cancel, Holders, At, TaskStates
<1> QED
  BY <1>7, <1>8, <1>9, <1>10, <1>11, <1>12 DEF Next

\* The count of the waiters is exact, also while a wait sleeps again in the
\* poll that ended its last sleep.
LEMMA CountPreserved ==
  ASSUME IInv, Next
  PROVE  CountsReferences' /\ rc_waiter' \in Nat /\ handles' \in 0 .. MaxHandles
<1> USE BoundsAssumption DEF IInv, CountsReferences, TypeOK, Running, UnsplitIsUnused
<1> DEFINE Goal == CountsReferences' /\ rc_waiter' \in Nat /\ handles' \in 0 .. MaxHandles
           asleep == At("waiting")
<1>1. asleep \in SUBSET Tasks /\ Cardinality(asleep) \in Nat
  BY TasksCounted DEF At
<1>2. ASSUME task' = task PROVE asleep' = asleep
  BY <1>2 DEF At
<1>3. CASE Split
  <2>1. asleep = {} /\ asleep' = asleep
    BY <1>2, <1>3 DEF Split
  <2>2. Cardinality(asleep) = 0
    BY <2>1, FS_EmptySet
  <2> QED BY <1>3, <2>1, <2>2 DEF Split
<1>4. CASE CloneNotifier \/ DropNotifier \/ CloneWaiter \/ DropWaiter \/ DropCondvar
           \/ NotifyOne \/ NotifyAll
  <2>1. asleep' = asleep
    BY <1>2, <1>4 DEF CloneNotifier, DropNotifier, CloneWaiter, DropWaiter, DropCondvar, NotifyOne, NotifyAll
  <2> HIDE DEF asleep
  <2>2. CASE CloneNotifier \/ DropNotifier
    BY <1>1, <2>1, <2>2 DEF CloneNotifier, DropNotifier, asleep
  <2>3. CASE CloneWaiter \/ DropWaiter
    BY <1>1, <2>1, <2>3 DEF CloneWaiter, DropWaiter, asleep
  <2>4. CASE DropCondvar
    BY <1>1, <2>1, <2>4 DEF DropCondvar, asleep
  <2>5. CASE NotifyOne \/ NotifyAll
    BY <1>1, <2>1, <2>5 DEF NotifyOne, NotifyAll, refVars, asleep
  <2> QED BY <1>4, <2>2, <2>3, <2>4, <2>5
\* A task goes somewhere else, and is counted if it went to sleep.
<1>5. ASSUME NEW t \in Tasks, NEW s \in TaskStates, Goto(t, s), handles' = handles, condvar' = condvar,
             Running => rc_waiter' = handles + Cardinality(asleep \ {t}) + (IF s = "waiting" THEN 1 ELSE 0),
             Running
      PROVE  Goal
  <2>1. asleep' = IF s = "waiting" THEN (asleep \ {t}) \cup {t} ELSE asleep \ {t}
    BY <1>5, Moves DEF TaskStates
  <2>2. asleep \ {t} \in SUBSET Tasks
    BY <1>1
  <2>3. /\ Cardinality(asleep \ {t}) \in Nat
        /\ Cardinality((asleep \ {t}) \cup {t}) = Cardinality(asleep \ {t}) + 1
    BY <2>2, OneTask
  <2>4. Cardinality(asleep') = Cardinality(asleep \ {t}) + (IF s = "waiting" THEN 1 ELSE 0)
    <3> HIDE DEF asleep
    <3> QED BY <2>1, <2>3
  <2>5. rc_waiter' = handles + Cardinality(asleep')
    <3>1. handles \in Nat
      OBVIOUS
    <3>2. rc_waiter' = handles + Cardinality(asleep \ {t}) + (IF s = "waiting" THEN 1 ELSE 0)
      BY <1>5
    <3> HIDE DEF asleep
    <3> QED BY <2>3, <2>4, <3>1, <3>2
  <2>6. Cardinality(asleep') \in Nat
    BY <2>3, <2>4
  <2> QED BY <1>5, <2>5, <2>6
<1>6. ASSUME NEW t \in Tasks, t \notin asleep
      PROVE  Running => rc_waiter = handles + Cardinality(asleep \ {t})
  <2>1. asleep \ {t} = asleep
    BY <1>6
  <2> QED BY <2>1
<1>7. ASSUME NEW t \in Tasks, Lock(t)
      PROVE  Goal
  BY <1>1, <1>5, <1>6, <1>7 DEF Lock, At, refVars, TaskStates
<1>8. ASSUME NEW t \in Tasks, Put(t) \/ Take(t) \/ Unlock(t)
      PROVE  Goal
  <2>1. t \notin asleep
    BY <1>8 DEF Put, Take, Unlock, Holders, At
  <2> QED BY <1>1, <1>5, <1>6, <1>8, <2>1 DEF Put, Take, Unlock, refVars, TaskStates
<1>9. ASSUME NEW t \in Tasks, Wait(t)
      PROVE  Goal
  <2>1. t \notin asleep
    BY <1>9 DEF Wait, Holders, At
  <2>2. rc_waiter = handles + Cardinality(asleep \ {t}) /\ Running /\ handles' = handles /\ condvar' = condvar
    BY <1>6, <1>9, <2>1 DEF Wait
  <2>3. Sleep(t, rc_waiter)
    BY <1>9 DEF Wait
  <2> QED BY <1>5, <2>2, <2>3 DEF Sleep, TaskStates
<1>10. ASSUME NEW t \in Tasks, PollWait(t) \/ PollRelock(t)
       PROVE  Goal
  <2> DEFINE rc == handles + Cardinality(asleep \ {t})
  <2>1. Relocks(t, rc) /\ Running /\ handles' = handles /\ condvar' = condvar
    BY <1>10, AnyPoll
  <2>2. rc \in Nat
    <3>1. asleep \ {t} \in SUBSET Tasks
      BY <1>1
    <3> QED BY <3>1, TasksCounted
  <2>3. \A s \in TaskStates : Goto(t, s) /\ rc_waiter' = rc + (IF s = "waiting" THEN 1 ELSE 0) => Goal
    BY <1>5, <2>1
  <2> HIDE DEF rc, Goal
  <2>4. CASE Returns(t, rc)
    BY <2>2, <2>3, <2>4 DEF Returns, TaskStates
  <2>5. CASE WaitsAgain(t, rc)
    BY <2>2, <2>3, <2>5 DEF WaitsAgain, Sleep, TaskStates
  <2>6. CASE locked
    BY <2>1, <2>2, <2>3, <2>6 DEF Relocks, TaskStates
  <2> QED BY <2>1, <2>4, <2>5, <2>6 DEF Relocks
<1>11. ASSUME NEW t \in Tasks, Cancel(t)
       PROVE  Goal
  <2>1. Running /\ handles' = handles /\ condvar' = condvar /\ Goto(t, "idle")
        /\ rc_waiter' = IF task[t] = "waiting" THEN rc_waiter - 1 ELSE rc_waiter
    BY <1>11 DEF Cancel
  <2>2. Cardinality(asleep \ {t}) = IF task[t] = "waiting" THEN Cardinality(asleep) - 1 ELSE Cardinality(asleep)
    BY <1>1, OneTask DEF At
  <2> HIDE DEF asleep, Goal
  <2> QED BY <1>1, <1>5, <2>1, <2>2 DEF TaskStates, asleep
<1> HIDE DEF Goal
<1> QED
  BY <1>3, <1>4, <1>7, <1>8, <1>9, <1>10, <1>11 DEF Next, Goal

----------------------------------------------------------------------------
(* The signals.                                                            *)

One(b) == IF b THEN 1 ELSE 0

\* What is not owed and not lost is on its way.
LEMMA Regroup ==
  ASSUME NEW i \in Int, NEW o \in Int, NEW l \in Int, NEW w \in Int, i - o - l <= w
  PROVE  i <= o + w + l
  OBVIOUS

\* The notifications that are on their way, when a task goes somewhere.
LEMMA OnTheWay ==
  ASSUME IInv, NEW t \in Tasks, NEW s \in TaskStates, Goto(t, s), notified' = notified \ {t}
  PROVE  /\ Cardinality(notified) \in Nat /\ Cardinality(notified') \in Nat
         /\ Cardinality(At("relocking")) \in Nat /\ Cardinality(At("relocking")') \in Nat
         /\ Cardinality(At("returned")) \in Nat /\ Cardinality(At("returned")') \in Nat
         /\ Cardinality(notified') = Cardinality(notified) - One(t \in notified)
         /\ Cardinality(At("relocking")')
              = Cardinality(At("relocking")) - One(task[t] = "relocking") + One(s = "relocking")
         /\ Cardinality(At("returned")')
              = Cardinality(At("returned")) - One(task[t] = "returned") + One(s = "returned")
<1>1. ASSUME NEW u \in TaskStates
      PROVE  /\ Cardinality(At(u)) \in Nat /\ Cardinality(At(u)') \in Nat
             /\ Cardinality(At(u)') = Cardinality(At(u)) - One(task[t] = u) + One(s = u)
  <2>1. At(u)' = IF u = s THEN At(u) \cup {t} ELSE At(u) \ {t}
    BY Moves DEF IInv
  <2>2. /\ Cardinality(At(u)) \in Nat
        /\ t \in At(u) => Cardinality(At(u)) > 0
        /\ Cardinality(At(u) \ {t}) = IF t \in At(u) THEN Cardinality(At(u)) - 1 ELSE Cardinality(At(u))
        /\ Cardinality(At(u) \cup {t}) = IF t \in At(u) THEN Cardinality(At(u)) ELSE Cardinality(At(u)) + 1
    <3>1. At(u) \in SUBSET Tasks
      BY DEF At
    <3> QED BY <3>1, OneTask
  <2>3. t \in At(u) <=> task[t] = u
    BY DEF At
  <2> QED BY <2>1, <2>2, <2>3 DEF One
<1>2. /\ Cardinality(notified) \in Nat /\ Cardinality(notified') \in Nat
      /\ Cardinality(notified') = Cardinality(notified) - One(t \in notified)
  <2>1. notified \in SUBSET Tasks
    BY DEF IInv, TypeOK
  <2>2. /\ Cardinality(notified) \in Nat
        /\ t \in notified => Cardinality(notified) > 0
        /\ Cardinality(notified \ {t}) = IF t \in notified THEN Cardinality(notified) - 1 ELSE Cardinality(notified)
    BY <2>1, OneTask
  <2> QED BY <2>2 DEF One
<1> QED BY <1>1, <1>2 DEF TaskStates

\* A signal is lost only with a task that is cancelled or goes without an
\* item: each other step hands it on or takes its item.
LEMMA SignalsPreserved ==
  ASSUME IInv, Next
  PROVE  /\ NoSignalLost' /\ OwedIsThere'
         /\ items' \in 0 .. MaxItems /\ owed' \in 0 .. MaxItems /\ lost' \in 0 .. MaxLost
<1> USE BoundsAssumption DEF OwedIsThere
<1> DEFINE Goal == /\ NoSignalLost' /\ OwedIsThere'
                   /\ items' \in 0 .. MaxItems /\ owed' \in 0 .. MaxItems /\ lost' \in 0 .. MaxLost
<1>1. /\ items \in 0 .. MaxItems /\ owed \in 0 .. MaxItems /\ lost \in 0 .. MaxLost /\ owed <= items
      /\ notified \subseteq At("waiting")
  BY DEF IInv, TypeOK, ListedOrNotified
<1>2. CASE UNCHANGED <<waiters, notified, task, itemVars>>
  <2>1. At("relocking")' = At("relocking") /\ At("returned")' = At("returned")
    BY <1>2 DEF At
  <2> QED BY <1>1, <1>2, <2>1 DEF IInv, NoSignalLost, itemVars
<1>3. CASE Split \/ CloneNotifier \/ DropNotifier \/ CloneWaiter \/ DropWaiter \/ DropCondvar
  BY <1>2, <1>3
  DEF Split, CloneNotifier, DropNotifier, CloneWaiter, DropWaiter, DropCondvar, condVars
<1>4. CASE NotifyOne \/ NotifyAll
  <2>1. At("relocking")' = At("relocking") /\ At("returned")' = At("returned")
    BY <1>4 DEF NotifyOne, NotifyAll, At
  <2>2. /\ items' = items /\ lost' = lost /\ owed' \in 0 .. MaxItems
        /\ owed' <= owed /\ (owed' >= owed - 1 \/ waiters' = <<>>)
    BY <1>1, <1>4 DEF NotifyOne, NotifyAll
  <2>3. OwedIsThere'
    BY <1>1, <1>4 DEF NotifyOne, NotifyAll
  <2>4. CASE waiters' = <<>>
    BY <1>1, <2>2, <2>3, <2>4 DEF NoSignalLost
  <2>5. CASE waiters' # <<>>
    <3>1. waiters # <<>> /\ notified' = notified \cup {Head(waiters)}
      BY <1>4, <2>5 DEF NotifyOne, NotifyAll, Notify
    <3>2. Head(waiters) \in Tasks /\ Head(waiters) \notin notified /\ notified \in SUBSET Tasks
      BY <3>1, FirstLeaves DEF IInv, TypeOK, ListedOrNotified
    <3>3. Cardinality(notified') = Cardinality(notified) + 1 /\ Cardinality(notified) \in Nat
      BY <3>1, <3>2, OneTask
    <3>4. Cardinality(At("relocking")) \in Nat /\ Cardinality(At("returned")) \in Nat
      BY TasksCounted DEF At
    <3>5. items <= owed + Cardinality(notified) + Cardinality(At("relocking"))
                     + Cardinality(At("returned")) + lost
      BY <3>1 DEF IInv, NoSignalLost
    <3>6. items' <= owed' + Cardinality(notified') + Cardinality(At("relocking")')
                      + Cardinality(At("returned")') + lost'
      BY <1>1, <2>1, <2>2, <2>5, <3>3, <3>4, <3>5
    <3> QED BY <1>1, <2>2, <2>3, <3>6 DEF NoSignalLost
  <2> QED BY <2>4, <2>5
\* One task goes somewhere and the signals add up.
<1>5. ASSUME NEW t \in Tasks, NEW s \in TaskStates, Goto(t, s), notified' = notified \ {t},
             items' \in 0 .. MaxItems, owed' \in 0 .. MaxItems, lost' \in 0 .. MaxLost,
             owed' <= items',
             \/ items' <= owed'
             \/ /\ waiters' # <<>> => waiters # <<>>
                /\ items' - owed' - lost' <=
                     items - owed - lost - One(t \in notified)
                       - One(task[t] = "relocking") + One(s = "relocking")
                       - One(task[t] = "returned") + One(s = "returned")
      PROVE  Goal
  <2> DEFINE way == Cardinality(notified) + Cardinality(At("relocking")) + Cardinality(At("returned"))
         left == One(t \in notified) + One(task[t] = "relocking") + One(task[t] = "returned")
         come == One(s = "relocking") + One(s = "returned")
  <2>1. /\ way \in Nat /\ way' \in Nat /\ left \in Nat /\ come \in Nat
        /\ way' = way - left + come
    <3>1. /\ One(t \in notified) \in Nat /\ One(task[t] = "relocking") \in Nat /\ One(s = "relocking") \in Nat
          /\ One(task[t] = "returned") \in Nat /\ One(s = "returned") \in Nat
      BY DEF One
    <3>2. /\ Cardinality(notified) \in Nat /\ Cardinality(notified') \in Nat
          /\ Cardinality(At("relocking")) \in Nat /\ Cardinality(At("relocking")') \in Nat
          /\ Cardinality(At("returned")) \in Nat /\ Cardinality(At("returned")') \in Nat
          /\ Cardinality(notified') = Cardinality(notified) - One(t \in notified)
          /\ Cardinality(At("relocking")')
               = Cardinality(At("relocking")) - One(task[t] = "relocking") + One(s = "relocking")
          /\ Cardinality(At("returned")')
               = Cardinality(At("returned")) - One(task[t] = "returned") + One(s = "returned")
      BY <1>5, OnTheWay
    <3> QED BY <3>1, <3>2
  <2>2. waiters' # <<>> => items' <= owed' + way' + lost'
    <3>1. waiters # <<>> => items <= owed + way + lost
      <4>1. Cardinality(notified) \in Nat /\ Cardinality(At("relocking")) \in Nat /\ Cardinality(At("returned")) \in Nat
        BY <1>5, OnTheWay
      <4> QED BY <1>1, <4>1 DEF IInv, NoSignalLost
    <3>0. /\ items \in Int /\ owed \in Int /\ lost \in Int
          /\ items' \in Int /\ owed' \in Nat /\ lost' \in Nat
      BY <1>1, <1>5
    <3>2. CASE items' <= owed'
      BY <2>1, <3>0, <3>2
    <3>3. CASE /\ waiters' # <<>> => waiters # <<>>
               /\ items' - owed' - lost' <= items - owed - lost - left + come
      <4> SUFFICES ASSUME waiters' # <<>> PROVE items' <= owed' + way' + lost'
        OBVIOUS
      <4>1. items <= owed + way + lost
        BY <3>1, <3>3
      <4>2. items' - owed' - lost' <= items - owed - lost - left + come
        BY <3>3
      <4>3. items' - owed' - lost' <= way'
        <5>1. items - owed - lost <= way
          BY <2>1, <3>0, <4>1
        <5>2. items - owed - lost - left + come <= way - left + come
          <6> HIDE DEF way, left, come
          <6> QED BY <2>1, <3>0, <5>1
        <5>3. items' - owed' - lost' <= way - left + come
          <6> HIDE DEF way, left, come
          <6>1. left \in Int /\ come \in Int /\ way \in Int
            BY <2>1
          <6>2. items' - owed' - lost' \in Int
            BY <3>0
          <6>3. items - owed - lost - left + come \in Int
            BY <3>0, <6>1
          <6>4. way - left + come \in Int
            BY <6>1
          <6>5. items' - owed' - lost' <= items - owed - lost - left + come
            BY <4>2
          <6> QED BY <5>2, <6>2, <6>3, <6>4, <6>5
        <5> QED BY <2>1, <5>3
      <4>4. items' \in Int /\ owed' \in Int /\ lost' \in Int /\ way' \in Int
        BY <2>1, <3>0
      <4> QED BY <4>3, <4>4, Regroup
    <3>4. /\ One(t \in notified) \in Nat /\ One(task[t] = "relocking") \in Nat /\ One(s = "relocking") \in Nat
          /\ One(task[t] = "returned") \in Nat /\ One(s = "returned") \in Nat
      BY DEF One
    <3>5. CASE items' - owed' - lost' <=
                 items - owed - lost - One(t \in notified)
                   - One(task[t] = "relocking") + One(s = "relocking")
                   - One(task[t] = "returned") + One(s = "returned")
      <4>1. items' - owed' - lost' <= items - owed - lost - left + come
        BY <3>0, <3>4, <3>5
      <4> QED BY <3>3, <4>1, <1>5, <3>2
    <3> QED BY <1>5, <3>2, <3>5
  <2>3. waiters' # <<>> => items' <= owed' + Cardinality(notified') + Cardinality(At("relocking")')
                                       + Cardinality(At("returned")') + lost'
    <3>1. /\ Cardinality(notified') \in Nat /\ Cardinality(At("relocking")') \in Nat
          /\ Cardinality(At("returned")') \in Nat
      BY <1>5, OnTheWay
    <3> QED BY <1>5, <2>2, <3>1
  <2> QED BY <1>5, <2>3 DEF NoSignalLost
<1>6. ASSUME NEW t \in Tasks, task[t] # "waiting"
      PROVE  t \notin notified /\ notified \ {t} = notified
  BY <1>1, <1>6 DEF At
<1>7. ASSUME NEW t \in Tasks, Lock(t)
      PROVE  Goal
  <2>1. /\ task[t] \in {"idle", "locking"} /\ waiters' = waiters /\ notified' = notified
        /\ items' = items /\ owed' = owed /\ lost' = lost
    BY <1>7 DEF Lock, condVars, itemVars
  <2>2. PICK s \in {"locking", "holding"} : Goto(t, s)
    BY <1>7 DEF Lock
  <2> QED BY <1>1, <1>5, <1>6, <2>1, <2>2 DEF One, TaskStates
<1>8. ASSUME NEW t \in Tasks, Put(t) \/ Take(t) \/ Unlock(t)
      PROVE  Goal
  <2>1. /\ task[t] \in {"holding", "returned"} /\ waiters' = waiters /\ notified' = notified /\ Goto(t, "idle")
    BY <1>8 DEF Put, Take, Unlock, condVars, Holders, At
  <2>2. CASE Put(t)
    <3>1. task[t] = "holding" /\ items' = items + 1 /\ owed' = owed + 1 /\ lost' = lost /\ items < MaxItems
      BY <2>2 DEF Put
    <3> QED BY <1>1, <1>5, <1>6, <2>1, <3>1 DEF One, TaskStates
  <2>3. CASE Take(t)
    <3>1. /\ items' = items - 1 /\ owed' = (IF owed = items THEN owed - 1 ELSE owed)
          /\ lost' = lost /\ items > 0
      BY <2>3 DEF Take
    <3> QED BY <1>1, <1>5, <1>6, <2>1, <3>1 DEF One, TaskStates
  <2>4. CASE Unlock(t)
    <3>1. /\ items' = items /\ owed' = owed /\ lost' \in 0 .. MaxLost
          /\ lost' = lost + One(task[t] = "returned")
      BY <1>1, <2>4 DEF Unlock, One
    <3> QED BY <1>1, <1>5, <1>6, <2>1, <3>1 DEF One, TaskStates
  <2> QED BY <1>8, <2>2, <2>3, <2>4
<1>9. ASSUME NEW t \in Tasks, Wait(t)
      PROVE  Goal
  <2>1. task[t] # "waiting" /\ notified' = notified /\ items' = 0 /\ owed' = owed /\ items = 0 /\ lost' = lost
    BY <1>9 DEF Wait, itemVars, Holders, At
  <2>2. PICK s \in {"waiting", "idle"} : Goto(t, s)
    BY <1>9 DEF Wait, Sleep
  <2> QED BY <1>1, <1>5, <1>6, <2>1, <2>2 DEF TaskStates
<1>10. ASSUME NEW t \in Tasks, PollWait(t) \/ PollRelock(t)
       PROVE  Goal
  <2> DEFINE rc == handles + Cardinality(At("waiting") \ {t})
  <2>1. /\ Relocks(t, rc) /\ task[t] \in {"waiting", "relocking"}
        /\ task[t] = "waiting" <=> t \in notified
        /\ notified' = notified \ {t}
    BY <1>10, AnyPoll
  <2> HIDE DEF rc
  <2>2. CASE Returns(t, rc)
    <3>1. CASE items' = items /\ owed' = owed /\ lost' = lost /\ waiters' = waiters /\ Goto(t, "returned")
      BY <1>1, <1>5, <2>1, <3>1 DEF One, TaskStates
    <3>2. CASE /\ items' = items - 1 /\ items > 0 /\ owed' = (IF owed = items THEN owed - 1 ELSE owed)
               /\ lost' = lost /\ waiters' = waiters /\ Goto(t, "holding")
      BY <1>1, <1>5, <2>1, <3>2 DEF One, TaskStates
    <3> QED BY <2>2, <3>1, <3>2 DEF Returns, itemVars
  <2>3. CASE WaitsAgain(t, rc)
    <3>1. items' = 0 /\ items = 0 /\ owed' = owed /\ lost' = lost
      BY <2>3 DEF WaitsAgain, itemVars
    <3>2. PICK s \in {"waiting", "idle"} : Goto(t, s)
      BY <2>3 DEF WaitsAgain, Sleep
    <3> QED BY <1>1, <1>5, <2>1, <3>1, <3>2 DEF TaskStates
  <2>4. CASE /\ Goto(t, "relocking") /\ waiters' = waiters
             /\ items' = items /\ owed' = owed /\ lost' = lost
    BY <1>1, <1>5, <2>1, <2>4 DEF One, TaskStates
  <2> QED BY <2>1, <2>2, <2>3, <2>4 DEF Relocks, itemVars
<1>11. ASSUME NEW t \in Tasks, Cancel(t)
       PROVE  Goal
  <2>1. /\ task[t] \in {"locking", "waiting", "relocking"} /\ Goto(t, "idle")
        /\ notified' = notified \ {t} /\ items' = items /\ owed' = owed
    BY <1>11 DEF Cancel
  <2>2. /\ lost' \in 0 .. MaxLost
        /\ lost' = lost + One(t \in notified) + One(task[t] = "relocking")
    <3>1. task[t] = "relocking" => t \notin notified
      BY <1>6
    <3> QED BY <1>1, <1>11, <3>1 DEF Cancel, One
  <2>3. waiters' # <<>> => waiters # <<>>
    BY <1>11 DEF Cancel, LeaveList
  <2> QED BY <1>1, <1>5, <2>1, <2>2, <2>3 DEF One, TaskStates
<1> HIDE DEF Goal
<1> QED
  BY <1>3, <1>4, <1>7, <1>8, <1>9, <1>10, <1>11 DEF Next, Goal

----------------------------------------------------------------------------
(* The ends, and what is left of the types.                                *)

\* The sleepers are counted, so whoever finds both counts zero has nobody
\* asleep.
LEMMA NobodyCounted ==
  ASSUME IInv, Running, rc_waiter = 0
  PROVE  handles = 0 /\ At("waiting") = {} /\ waiters = <<>>
<1>1. IsFiniteSet(At("waiting"))
  BY TasksAssumption, FS_Subset DEF At
<1>2. Cardinality(At("waiting")) \in Nat
  BY <1>1, FS_CardinalityType
<1>3. handles \in Nat /\ 0 = handles + Cardinality(At("waiting"))
  BY BoundsAssumption DEF IInv, TypeOK, CountsReferences
<1>4. handles = 0 /\ Cardinality(At("waiting")) = 0
  BY <1>2, <1>3
<1>5. At("waiting") = {}
  BY <1>1, <1>4, FS_EmptySet
<1>6. ToSet(waiters) = {} /\ waiters \in Seq(Tasks)
  BY <1>5 DEF IInv, TypeOK, ListedOrNotified
<1>7. waiters = <<>>
  <2>1. ASSUME waiters # <<>> PROVE FALSE
    <3>1. 1 \in DOMAIN waiters
      BY <1>6, <2>1
    <3> QED BY <1>6, <3>1 DEF ToSet
  <2> QED BY <2>1
<1> QED BY <1>4, <1>5, <1>7

\* What a wait does to the counts and to the sets of tasks.
LEMMA TypesPreserved ==
  ASSUME IInv, Next
  PROVE  /\ condvar' \in {"unsplit", "split", "dropped", "panicked"}
         /\ rc_notifier' \in 0 .. MaxHandles
         /\ notified' \subseteq Tasks /\ until' \subseteq Tasks
         /\ lock_waiting' \subseteq Tasks /\ woken' \subseteq Tasks
         /\ failed' \in BOOLEAN
<1> USE BoundsAssumption DEF IInv, TypeOK
<1> DEFINE Goal == /\ condvar' \in {"unsplit", "split", "dropped", "panicked"}
                   /\ rc_notifier' \in 0 .. MaxHandles
                   /\ notified' \subseteq Tasks /\ until' \subseteq Tasks
                   /\ lock_waiting' \subseteq Tasks /\ woken' \subseteq Tasks
                   /\ failed' \in BOOLEAN
<1>1. CASE Split \/ CloneNotifier \/ DropNotifier \/ CloneWaiter \/ DropWaiter \/ DropCondvar
  BY <1>1
  DEF Split, CloneNotifier, DropNotifier, CloneWaiter, DropWaiter, DropCondvar, condVars, lockVars
<1>2. CASE NotifyOne \/ NotifyAll
  <2>1. ToSet(waiters) \subseteq Tasks
    BY Apart
  <2>2. waiters # <<>> => Head(waiters) \in Tasks
    OBVIOUS
  <2> QED BY <1>2, <2>1, <2>2 DEF NotifyOne, NotifyAll, Notify, refVars, lockVars
<1>3. ASSUME NEW t \in Tasks, Lock(t)
      PROVE  Goal
  BY <1>3 DEF Lock, ParkForLock, refVars, condVars
<1>4. ASSUME NEW t \in Tasks, Put(t) \/ Take(t) \/ Unlock(t)
      PROVE  Goal
  BY <1>4 DEF Put, Take, Unlock, Release, refVars, condVars
<1>5. ASSUME NEW t \in Tasks, Wait(t)
      PROVE  Goal
  BY <1>5 DEF Wait, Release, Sleep
<1>6. ASSUME NEW t \in Tasks, PollWait(t) \/ PollRelock(t)
      PROVE  Goal
  <2> DEFINE rc == handles + Cardinality(At("waiting") \ {t})
  <2>1. /\ Relocks(t, rc) /\ notified' = notified \ {t}
        /\ UNCHANGED <<condvar, rc_notifier, handles, until>>
    BY <1>6, AnyPoll
  <2> HIDE DEF rc
  <2> QED BY <2>1 DEF Relocks, Returns, WaitsAgain, Release, Sleep, ParkForLock
<1>7. ASSUME NEW t \in Tasks, Cancel(t)
      PROVE  Goal
  BY <1>7 DEF Cancel
<1> QED
  BY <1>1, <1>2, <1>3, <1>4, <1>5, <1>6, <1>7 DEF Next

\* The handles say who may wait and who may go.
Ends == NothingOutlivesCondvar /\ ErrorsAreFinal /\ UnsplitIsUnused /\ WaitsBorrow

\* A wait starts and goes on only where there is a handle, and the condition
\* variable is dropped only where there is none.
LEMMA EndsPreserved ==
  ASSUME IInv, Next
  PROVE  Ends'
<1> USE BoundsAssumption
        DEF IInv, Ends, NothingOutlivesCondvar, ErrorsAreFinal, UnsplitIsUnused, WaitsBorrow
<1> DEFINE inside == At("waiting") \cup At("relocking")
<1>1. handles \in Nat /\ rc_notifier \in Nat
  BY DEF TypeOK
<1>2. ASSUME task' = task
      PROVE  At("waiting")' = At("waiting") /\ At("relocking")' = At("relocking")
  BY <1>2 DEF At
<1>3. CASE Split
  BY <1>1, <1>2, <1>3 DEF Split
<1>4. CASE CloneNotifier \/ DropNotifier \/ CloneWaiter \/ DropWaiter
  BY <1>1, <1>2, <1>4
  DEF CloneNotifier, DropNotifier, CloneWaiter, DropWaiter, condVars
<1>5. CASE DropCondvar
  <2>1. Running
    BY <1>5 DEF DropCondvar, Running
  <2> QED BY <1>1, <1>2, <1>5, <2>1, NobodyCounted DEF DropCondvar, condVars
<1>6. CASE NotifyOne \/ NotifyAll
  <2>1. /\ UNCHANGED <<condvar, rc_notifier, handles, task, failed>>
        /\ rc_notifier > 0
    BY <1>6 DEF NotifyOne, NotifyAll, refVars
  <2>2. condvar # "dropped"
    BY <1>1, <2>1
  <2> QED BY <1>2, <2>1, <2>2
\* A task goes somewhere else while there is a handle, or was not inside.
<1>7. ASSUME NEW t \in Tasks, NEW s \in TaskStates, Goto(t, s),
             UNCHANGED <<condvar, rc_notifier, handles>>,
             failed' = failed \/ (rc_notifier = 0 /\ handles > 0),
             waiters' = waiters \/ handles > 0,
             s \in {"waiting", "relocking"} => handles > 0
      PROVE  Ends'
  <2>1. /\ At("waiting")' = IF s = "waiting" THEN At("waiting") \cup {t} ELSE At("waiting") \ {t}
        /\ At("relocking")' = IF s = "relocking" THEN At("relocking") \cup {t} ELSE At("relocking") \ {t}
    BY <1>7, Moves DEF TaskStates
  <2>2. CASE handles > 0
    <3>1. condvar # "dropped" /\ condvar # "unsplit"
      BY <1>1, <2>2
    <3> QED BY <1>7, <2>2, <3>1
  <2>3. CASE handles = 0
    <3>1. /\ At("waiting") = {} /\ At("relocking") = {} /\ failed' = failed /\ waiters' = waiters
          /\ s \notin {"waiting", "relocking"}
      BY <1>7, <2>3
    <3>2. At("waiting")' = {} /\ At("relocking")' = {}
      BY <2>1, <3>1
    <3> QED BY <1>7, <2>3, <3>1, <3>2
  <2> QED BY <1>1, <2>2, <2>3
<1>8. ASSUME NEW t \in Tasks, task[t] \in {"waiting", "relocking"}
      PROVE  handles > 0
  BY <1>8 DEF At
<1>9. ASSUME NEW t \in Tasks, Lock(t)
      PROVE  Ends'
  BY <1>7, <1>9 DEF Lock, refVars, condVars, TaskStates
<1>10. ASSUME NEW t \in Tasks, Put(t) \/ Take(t) \/ Unlock(t)
       PROVE  Ends'
  BY <1>7, <1>10 DEF Put, Take, Unlock, refVars, condVars, TaskStates
<1>11. ASSUME NEW t \in Tasks, Wait(t)
       PROVE  Ends'
  <2>1. handles > 0 /\ Sleep(t, rc_waiter) /\ UNCHANGED <<condvar, rc_notifier, handles>>
    BY <1>11 DEF Wait
  <2> QED BY <1>7, <2>1 DEF Sleep, TaskStates
<1>12. ASSUME NEW t \in Tasks, PollWait(t) \/ PollRelock(t)
       PROVE  Ends'
  <2> DEFINE rc == handles + Cardinality(At("waiting") \ {t})
  <2>1. /\ Relocks(t, rc) /\ UNCHANGED <<condvar, rc_notifier, handles>>
        /\ task[t] \in {"waiting", "relocking"}
    BY <1>12, AnyPoll
  <2>2. handles > 0
    BY <1>8, <2>1
  <2> HIDE DEF rc
  <2>3. CASE Returns(t, rc)
    BY <1>7, <2>1, <2>2, <2>3 DEF Returns, TaskStates
  <2>4. CASE WaitsAgain(t, rc)
    BY <1>7, <2>1, <2>2, <2>4 DEF WaitsAgain, Sleep, TaskStates
  <2>5. CASE locked
    BY <1>7, <2>1, <2>2, <2>5 DEF Relocks, TaskStates
  <2> QED BY <2>1, <2>3, <2>4, <2>5 DEF Relocks
<1>13. ASSUME NEW t \in Tasks, Cancel(t)
       PROVE  Ends'
  <2>1. CASE handles > 0
    BY <1>7, <1>13, <2>1 DEF Cancel, TaskStates
  <2>2. CASE handles = 0
    <3>1. At("waiting") = {}
      BY <2>2
    <3>2. t \notin ToSet(waiters)
      BY <3>1 DEF ListedOrNotified
    <3>3. waiters' = waiters
      BY <1>13, <3>2 DEF Cancel, LeaveList, ToSet
    <3> QED BY <1>7, <1>13, <3>3 DEF Cancel, TaskStates
  <2> QED BY <1>1, <2>1, <2>2
<1> QED
  BY <1>3, <1>4, <1>5, <1>6, <1>9, <1>10, <1>11, <1>12, <1>13 DEF Next

----------------------------------------------------------------------------
(* The theorems.                                                           *)

\* Nothing is there at the start.
LEMMA InitEstablishes == Init => IInv
<1> SUFFICES ASSUME Init PROVE IInv
  OBVIOUS
<1> USE BoundsAssumption DEF Init
<1>1. \A s \in TaskStates \ {"idle"} : At(s) = {}
  BY DEF At, TaskStates
<1>2. At("waiting") = {} /\ At("relocking") = {} /\ At("locking") = {} /\ Holders = {}
  BY <1>1 DEF Holders, TaskStates
<1>3. Cardinality({}) = 0
  BY FS_EmptySet
<1>4. ToSet(<<>>) = {} /\ IsInjective(<<>>) /\ <<>> \in Seq(Tasks)
  BY DEF ToSet, IsInjective
<1>5. TypeOK
  <2>1. 0 \in 0 .. MaxHandles /\ 0 \in 0 .. MaxItems /\ 0 \in 0 .. MaxLost /\ 0 \in Nat
    OBVIOUS
  <2>2. task \in [Tasks -> TaskStates]
    BY DEF TaskStates
  <2>3. waiters \in Seq(Tasks) /\ locked \in BOOLEAN /\ failed \in BOOLEAN
    BY <1>4
  <2> QED BY <2>1, <2>2, <2>3 DEF TypeOK
<1>6. MutualExclusion
  BY <1>2, <1>3 DEF MutualExclusion
<1>7. ListedOrNotified /\ ParkedForLockOrWoken
  BY <1>2, <1>4 DEF ListedOrNotified, ParkedForLockOrWoken
<1>8. CountsReferences
  <2>1. Cardinality(At("waiting")) = 0
    BY <1>2, <1>3
  <2> QED BY <2>1 DEF CountsReferences
<1>9. NoSignalLost /\ NothingOutlivesCondvar /\ ErrorsAreFinal /\ UnsplitIsUnused /\ WaitsBorrow /\ OwedIsThere
  BY <1>2 DEF NoSignalLost, NothingOutlivesCondvar, ErrorsAreFinal, UnsplitIsUnused, WaitsBorrow, OwedIsThere
<1> QED BY <1>5, <1>6, <1>7, <1>8, <1>9 DEF IInv

\* Every step keeps the invariant.
LEMMA StepPreserves == IInv /\ [Next]_vars => IInv'
<1> SUFFICES ASSUME IInv, [Next]_vars PROVE IInv'
  OBVIOUS
<1>1. CASE Next
  <2>1. /\ condvar' \in {"unsplit", "split", "dropped", "panicked"}
        /\ rc_notifier' \in 0 .. MaxHandles
        /\ notified' \subseteq Tasks /\ until' \subseteq Tasks
        /\ lock_waiting' \subseteq Tasks /\ woken' \subseteq Tasks
        /\ failed' \in BOOLEAN
    BY <1>1, TypesPreserved
  <2>2. waiters' \in Seq(Tasks) /\ ListedOrNotified' /\ ParkedForLockOrWoken'
    BY <1>1, ListsPreserved DEF Lists
  <2>3. MutualExclusion' /\ locked' \in BOOLEAN /\ task' \in [Tasks -> TaskStates]
    BY <1>1, ExclusionPreserved
  <2>4. CountsReferences' /\ rc_waiter' \in Nat /\ handles' \in 0 .. MaxHandles
    BY <1>1, CountPreserved
  <2>5. /\ NoSignalLost' /\ OwedIsThere'
        /\ items' \in 0 .. MaxItems /\ owed' \in 0 .. MaxItems /\ lost' \in 0 .. MaxLost
    BY <1>1, SignalsPreserved
  <2>6. Ends'
    BY <1>1, EndsPreserved
  <2>7. TypeOK'
    BY <2>1, <2>2, <2>3, <2>4, <2>5 DEF TypeOK
  <2> QED BY <2>2, <2>3, <2>4, <2>5, <2>6, <2>7 DEF IInv, Ends
<1>2. CASE UNCHANGED vars
  BY <1>2 DEF vars, refVars, condVars, lockVars, itemVars, IInv, TypeOK, MutualExclusion,
              ListedOrNotified, ParkedForLockOrWoken, NoSignalLost, CountsReferences, Running,
              NothingOutlivesCondvar, ErrorsAreFinal, UnsplitIsUnused, WaitsBorrow, OwedIsThere,
              Holders, At
<1> QED BY <1>1, <1>2

\* The invariant holds in every state, for any number of tasks.
THEOREM Invariance == Spec => []IInv
  BY InitEstablishes, StepPreserves, PTL DEF Spec

\* Every variable keeps its type: in particular the list holds tasks only.
THEOREM TypeCorrectness == Spec => []TypeOK
<1>1. IInv => TypeOK
  BY DEF IInv
<1> QED BY <1>1, Invariance, PTL

\* At most one task has a guard, although waits unlock and lock the mutex.
THEOREM Exclusion == Spec => []MutualExclusion
<1>1. IInv => MutualExclusion
  BY DEF IInv
<1> QED BY <1>1, Invariance, PTL

\* Whoever sleeps in a wait is in the list of the condition variable, from the
\* poll that unlocks the mutex, or was notified and woken.
THEOREM NobodySleepsUnlisted == Spec => []ListedOrNotified
<1>1. IInv => ListedOrNotified
  BY DEF IInv
<1> QED BY <1>1, Invariance, PTL

\* Whoever sleeps for the mutex is in its list, or was woken.
THEOREM NobodyWaitsForAFreeMutex == Spec => []ParkedForLockOrWoken
<1>1. IInv => ParkedForLockOrWoken
  BY DEF IInv
<1> QED BY <1>1, Invariance, PTL

\* No signal is lost but with a task that is cancelled or goes without an item.
THEOREM SignalsAreKept == Spec => []NoSignalLost
<1>1. IInv => NoSignalLost
  BY DEF IInv
<1> QED BY <1>1, Invariance, PTL

\* The counts are exact, so a condition variable that is dropped without a
\* panic has no handle and no waiter that points to it.
THEOREM ReferencesAreSafe == Spec => [](CountsReferences /\ NothingOutlivesCondvar)
<1>1. IInv => CountsReferences /\ NothingOutlivesCondvar
  BY DEF IInv
<1> QED BY <1>1, Invariance, PTL

\* A wait that failed is right for good: no notifier comes after the last.
THEOREM ErrorsAreTrue == Spec => []ErrorsAreFinal
<1>1. IInv => ErrorsAreFinal
  BY DEF IInv
<1> QED BY <1>1, Invariance, PTL

----------------------------------------------------------------------------
(* The mutex is a lock still.                                              *)

Asking == IF Running THEN At("locking") \cup At("relocking") ELSE {}

\* A lock that nobody asked for.
LEMMA InitRefines == Init => Abstract!Init
<1> SUFFICES ASSUME Init PROVE Abstract!Init
  OBVIOUS
<1>1. At("locking") = {} /\ At("relocking") = {}
  BY DEF Init, At
<1> QED BY <1>1 DEF Init, Abstract!Init

\* What one poll does to the mutex is one step of the lock: a wait that wakes
\* and finds no item for its condition has only stopped asking.
LEMMA StepRefines ==
  ASSUME IInv, [Next]_vars
  PROVE  [Abstract!Next]_(Abstract!vars)
<1> DEFINE Goal == [Abstract!Next]_(Abstract!vars)
<1> USE DEF Asking
<1>1. ASSUME Asking' \subseteq Asking, locked' = locked
      PROVE  Goal
  <2>1. Abstract!GiveUp
    BY <1>1 DEF Abstract!GiveUp
  <2> QED BY <2>1 DEF Abstract!Next
<1>2. ASSUME NEW t \in Tasks, NEW s \in TaskStates, Goto(t, s), Running, condvar' = condvar
      PROVE  Asking' = IF s \in {"locking", "relocking"} THEN Asking \cup {t} ELSE Asking \ {t}
  BY <1>2, Moves DEF TaskStates, Running, IInv
\* A task asks for the lock, ...
<1>3. ASSUME NEW t \in Tasks, NEW s \in {"locking", "relocking"}, Goto(t, s), Running,
             condvar' = condvar, locked, locked' = locked
      PROVE  Goal
  <2>1. Asking' = Asking \cup {t}
    BY <1>2, <1>3 DEF TaskStates
  <2>2. Abstract!Wait(t)
    BY <1>3, <2>1 DEF Abstract!Wait
  <2> QED BY <2>2 DEF Abstract!Next
\* ... gets it, ...
<1>4. ASSUME NEW t \in Tasks, NEW s \in {"holding", "returned"}, Goto(t, s), Running,
             condvar' = condvar, ~locked, locked' = TRUE
      PROVE  Goal
  <2>1. Asking' = Asking \ {t}
    BY <1>2, <1>4 DEF TaskStates
  <2>2. CASE t \in Asking
    <3>1. Abstract!Grant(t)
      BY <1>4, <2>1, <2>2 DEF Abstract!Grant
    <3> QED BY <3>1 DEF Abstract!Next
  <2>3. CASE t \notin Asking
    <3>1. Abstract!Barge
      BY <1>4, <2>1, <2>3 DEF Abstract!Barge
    <3> QED BY <3>1 DEF Abstract!Next
  <2> QED BY <2>2, <2>3
\* ... gives it back ...
<1>5. ASSUME NEW t \in Tasks, NEW s \in {"idle", "waiting"}, Goto(t, s), Running,
             condvar' = condvar, t \in Holders, locked' = FALSE
      PROVE  Goal
  <2>1. Asking' = Asking \ {t} /\ t \notin Asking
    BY <1>2, <1>5 DEF TaskStates, Holders, At
  <2>2. locked = TRUE
    <3>1. Holders \in SUBSET Tasks
      BY DEF Holders, At
    <3>2. Cardinality(Holders) > 0 /\ Cardinality(Holders) \in Nat
      BY <1>5, <3>1, OneTask
    <3> QED BY <3>2 DEF IInv, MutualExclusion, TypeOK
  <2>3. Abstract!Release
    BY <1>5, <2>1, <2>2 DEF Abstract!Release
  <2> QED BY <2>3 DEF Abstract!Next
\* ... or asks no more.
<1>6. ASSUME NEW t \in Tasks, NEW s \in {"idle", "waiting"}, Goto(t, s), Running,
             condvar' = condvar, locked' = locked
      PROVE  Goal
  <2>1. Asking' = Asking \ {t}
    BY <1>2, <1>6 DEF TaskStates
  <2> QED BY <1>1, <1>6, <2>1
<1>7. CASE Split \/ CloneNotifier \/ DropNotifier \/ CloneWaiter \/ DropWaiter \/ DropCondvar
           \/ NotifyOne \/ NotifyAll
  <2>1. task' = task /\ locked' = locked
    BY <1>7 DEF Split, CloneNotifier, DropNotifier, CloneWaiter, DropWaiter, DropCondvar,
                NotifyOne, NotifyAll, lockVars
  <2>2. Running' => Running
    BY <1>7 DEF Split, CloneNotifier, DropNotifier, CloneWaiter, DropWaiter, DropCondvar,
                NotifyOne, NotifyAll, refVars, Running
  <2>3. At("locking")' = At("locking") /\ At("relocking")' = At("relocking")
    BY <2>1 DEF At
  <2> QED BY <1>1, <2>1, <2>2, <2>3
<1>8. ASSUME NEW t \in Tasks, Lock(t)
      PROVE  Goal
  <2>1. Running /\ condvar' = condvar
    BY <1>8 DEF Lock, refVars
  <2>2. CASE locked
    BY <1>3, <1>8, <2>1, <2>2 DEF Lock, ParkForLock
  <2>3. CASE ~locked
    BY <1>4, <1>8, <2>1, <2>3 DEF Lock
  <2> QED BY <2>2, <2>3
<1>9. ASSUME NEW t \in Tasks, Put(t) \/ Take(t) \/ Unlock(t)
      PROVE  Goal
  <2>1. t \in Holders /\ Goto(t, "idle") /\ locked' = FALSE /\ Running /\ condvar' = condvar
    BY <1>9 DEF Put, Take, Unlock, Release, Holders, At, refVars
  <2> QED BY <1>5, <2>1
<1>10. ASSUME NEW t \in Tasks, Wait(t)
       PROVE  Goal
  BY <1>5, <1>10 DEF Wait, Release, Sleep
<1>11. ASSUME NEW t \in Tasks, PollWait(t) \/ PollRelock(t)
       PROVE  Goal
  <2> DEFINE rc == handles + Cardinality(At("waiting") \ {t})
  <2>1. Relocks(t, rc) /\ Running /\ condvar' = condvar
    BY <1>11, AnyPoll
  <2> HIDE DEF rc, Goal
  <2>2. CASE ~locked /\ Returns(t, rc)
    BY <1>4, <2>1, <2>2 DEF Returns
  <2>3. CASE ~locked /\ WaitsAgain(t, rc)
    <3>1. locked' = locked
      BY <2>3 DEF WaitsAgain, Release, IInv, TypeOK
    <3> QED BY <1>6, <2>1, <2>3, <3>1 DEF WaitsAgain, Sleep
  <2>4. CASE locked
    BY <1>3, <2>1, <2>4 DEF Relocks, ParkForLock
  <2> QED BY <2>1, <2>2, <2>3, <2>4 DEF Relocks
<1>12. ASSUME NEW t \in Tasks, Cancel(t)
       PROVE  Goal
  BY <1>6, <1>12 DEF Cancel
<1>13. CASE UNCHANGED vars
  <2>1. locked' = locked /\ Asking' = Asking
    BY <1>13 DEF vars, refVars, lockVars, At, Running
  <2> QED BY <1>1, <2>1
<1>14. CASE Next
  <2>1. CASE \E t \in Tasks :
               \/ Lock(t) \/ Put(t) \/ Take(t) \/ Unlock(t)
               \/ Wait(t) \/ PollWait(t) \/ PollRelock(t) \/ Cancel(t)
    <3>1. PICK t \in Tasks :
            \/ Lock(t) \/ Put(t) \/ Take(t) \/ Unlock(t)
            \/ Wait(t) \/ PollWait(t) \/ PollRelock(t) \/ Cancel(t)
      BY <2>1
    <3> QED BY <1>8, <1>9, <1>10, <1>11, <1>12, <3>1
  <2> QED BY <1>7, <1>14, <2>1 DEF Next
<1> QED BY <1>13, <1>14

\* Every behaviour of the mutex under a condition variable is one of the
\* lock's, whatever calls a poll of a wait makes.
THEOREM RefinesLock == Spec => Abstract!Init /\ [][Abstract!Next]_(Abstract!vars)
<1>1. IInv /\ [Next]_vars => [Abstract!Next]_(Abstract!vars)
  BY StepRefines
<1> QED BY <1>1, InitRefines, Invariance, PTL DEF Spec
=============================================================================
