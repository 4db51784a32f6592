---------------------------- MODULE MutexProofs ----------------------------
(***************************************************************************)
(* The safety properties of Mutex.tla, for any finite set of lock futures  *)
(* and any number of references.                                           *)
(***************************************************************************)
EXTENDS Mutex, FiniteSetTheorems, TLAPS

\* The inductive invariant. The properties need each other: the count stays
\* a natural number because it counts what exists; a dropped mutex gets no
\* new references because there is none left to copy; and a future that is
\* polled is in no list because it was woken. What they leave out is that
\* nothing exists before the first take_ref, whose anchor starts from 0.
UnanchoredIsUnused == ~anchored => handles = 0 /\ guards = 0 /\ Existing = {}

IInv ==
  /\ TypeOK
  /\ MutualExclusion
  /\ NoLostUnlock
  /\ ParkedOrWoken
  /\ CountsReferences
  /\ NothingOutlivesMutex
  /\ UnanchoredIsUnused

----------------------------------------------------------------------------
(* Counting the futures.                                                   *)

\* Only finitely many futures exist.
LEMMA ExistingFinite == IsFiniteSet(Existing)
  BY FuturesAssumption, FS_Subset DEF Existing

\* Creating a future adds one to the number that exist.
LEMMA OneMore ==
  ASSUME TypeOK, NEW f \in Futures, future[f] = "none",
         NEW s \in FutureStates, s # "none",
         future' = [future EXCEPT ![f] = s]
  PROVE  Cardinality(Existing') = Cardinality(Existing) + 1
<1>1. Existing' = Existing \cup {f}
  BY DEF Existing, TypeOK
<1>2. f \notin Existing
  BY DEF Existing
<1> QED BY <1>1, <1>2, ExistingFinite, FS_AddElement

\* Dropping one takes one away.
LEMMA OneLess ==
  ASSUME TypeOK, NEW f \in Futures, future[f] # "none",
         future' = [future EXCEPT ![f] = "none"]
  PROVE  /\ Cardinality(Existing') = Cardinality(Existing) - 1
         /\ Cardinality(Existing) > 0
<1>1. Existing' = Existing \ {f}
  BY DEF Existing, TypeOK
<1>2. f \in Existing
  BY DEF Existing
<1>3. Cardinality(Existing') = Cardinality(Existing) - 1
  BY <1>1, <1>2, ExistingFinite, FS_RemoveElement
<1>4. Cardinality(Existing) \in Nat /\ Cardinality(Existing) # 0
  BY <1>2, ExistingFinite, FS_CardinalityType, FS_EmptySet
<1> QED BY <1>3, <1>4

\* Polling changes what a future does and not how many there are.
LEMMA SameNumber ==
  ASSUME TypeOK, NEW f \in Futures, future[f] # "none",
         NEW s \in FutureStates, s # "none",
         future' = [future EXCEPT ![f] = s]
  PROVE  Existing' = Existing
  BY DEF Existing, TypeOK

----------------------------------------------------------------------------
(* The invariant.                                                          *)

LEMMA InitEstablishes == Init => IInv
<1> SUFFICES ASSUME Init PROVE IInv
  OBVIOUS
<1>1. Existing = {} /\ Pending = {}
  BY DEF Init, Existing, Pending
<1>2. Cardinality(Existing) = 0
  BY <1>1, FS_EmptySet
<1>3. TypeOK
  <2>1. anchored \in BOOLEAN /\ locked \in BOOLEAN
    BY DEF Init
  <2> QED BY <2>1, HandlesAssumption DEF Init, TypeOK, FutureStates
<1>4. CountsReferences
  BY <1>2 DEF Init, CountsReferences
<1> QED
  BY <1>1, <1>3, <1>4
  DEF Init, IInv, MutualExclusion, NoLostUnlock, ParkedOrWoken,
      NothingOutlivesMutex, UnanchoredIsUnused

\* A step keeps the types, and the count exact with them.
LEMMA CountPreserved ==
  ASSUME IInv, Next
  PROVE  TypeOK' /\ CountsReferences'
<1> USE HandlesAssumption DEF TypeOK, CountsReferences, FutureStates, Running, IInv
<1>0. Cardinality(Existing) \in Nat
  BY ExistingFinite, FS_CardinalityType
<1>1. CASE TakeRef
  <2>1. Existing' = Existing
    BY <1>1 DEF TakeRef, Existing
  <2>2. ~anchored => Cardinality(Existing) = 0
    BY FS_EmptySet DEF UnanchoredIsUnused
  <2>3. anchored' \in BOOLEAN
    BY <1>1 DEF TakeRef
  <2> QED BY <1>0, <1>1, <2>1, <2>2, <2>3 DEF TakeRef, UnanchoredIsUnused
<1>2. CASE CloneRef
  <2>1. Existing' = Existing
    BY <1>2 DEF CloneRef, Existing
  <2> QED BY <1>0, <1>2, <2>1 DEF CloneRef
<1>3. CASE DropRef
  <2>1. Existing' = Existing
    BY <1>3 DEF DropRef, Existing
  <2> QED BY <1>0, <1>3, <2>1 DEF DropRef
<1>4. CASE TryLock
  <2>1. Existing' = Existing
    BY <1>4 DEF TryLock, Existing
  <2>2. locked' \in BOOLEAN
    BY <1>4 DEF TryLock
  <2> QED BY <1>0, <1>4, <2>1, <2>2 DEF TryLock
<1>5. CASE DropGuard
  <2>1. Existing' = Existing
    BY <1>5 DEF DropGuard, Existing
  <2>2. locked' \in BOOLEAN
    BY <1>5 DEF DropGuard, Release
  <2> QED BY <1>0, <1>5, <2>1, <2>2 DEF DropGuard, Release
<1>6. CASE DropMutex
  <2>1. Existing' = Existing
    BY <1>6 DEF DropMutex, Existing
  <2> QED BY <1>0, <1>6, <2>1 DEF DropMutex
<1>7. ASSUME NEW f \in Futures, Lock(f)
      PROVE  TypeOK' /\ CountsReferences'
  <2>1. Cardinality(Existing') = Cardinality(Existing) + 1
    BY <1>7, OneMore DEF Lock
  <2> QED BY <1>0, <1>7, <2>1 DEF Lock
<1>8. ASSUME NEW f \in Futures, Poll(f)
      PROVE  TypeOK' /\ CountsReferences'
  <2>1. Existing' = Existing
    BY <1>8, SameNumber DEF Poll, Pollable, Park, Acquire
  <2>2. locked' \in BOOLEAN
    BY <1>8 DEF Poll, Park, Acquire
  <2> QED BY <1>0, <1>8, <2>1, <2>2 DEF Poll, Park, Acquire
<1>9. ASSUME NEW f \in Futures, DropFuture(f)
      PROVE  TypeOK' /\ CountsReferences'
  <2>1. Cardinality(Existing') = Cardinality(Existing) - 1 /\ Cardinality(Existing) > 0
    BY <1>9, OneLess DEF DropFuture
  <2> QED BY <1>0, <1>9, <2>1 DEF DropFuture
<1> QED
  BY <1>1, <1>2, <1>3, <1>4, <1>5, <1>6, <1>7, <1>8, <1>9 DEF Next

\* Every step leaves the waiters where the next unlock finds them. Only a
\* poll moves futures one by one: a polled future is in no list because it
\* was woken or is new.
LEMMA WaitersPreserved ==
  ASSUME IInv, Next
  PROVE  MutualExclusion' /\ NoLostUnlock' /\ ParkedOrWoken'
<1> USE DEF TypeOK, MutualExclusion, NoLostUnlock, ParkedOrWoken, Pending, FutureStates, IInv
<1>1. CASE TakeRef
  BY <1>1 DEF TakeRef
<1>2. CASE CloneRef
  BY <1>2 DEF CloneRef
<1>3. CASE DropRef
  BY <1>3 DEF DropRef
<1>4. CASE TryLock
  BY <1>4 DEF TryLock
<1>5. CASE DropGuard
  <2>1. MutualExclusion'
    BY <1>5 DEF DropGuard, Release
  <2>2. NoLostUnlock'
    BY <1>5 DEF DropGuard, Release
  <2>3. ParkedOrWoken'
    BY <1>5 DEF DropGuard, Release
  <2> QED BY <2>1, <2>2, <2>3
<1>6. CASE DropMutex
  BY <1>6 DEF DropMutex
<1>7. ASSUME NEW f \in Futures, Lock(f)
      PROVE  MutualExclusion' /\ NoLostUnlock' /\ ParkedOrWoken'
  <2>1. Pending' = Pending
    BY <1>7 DEF Lock
  <2> QED BY <1>7, <2>1 DEF Lock
<1>8. ASSUME NEW f \in Futures, Poll(f)
      PROVE  MutualExclusion' /\ NoLostUnlock' /\ ParkedOrWoken'
  <2>1. f \notin waiting
    BY <1>8 DEF Poll, Pollable
  <2>2. CASE locked
    <3>1. Pending' = Pending \cup {f}
      BY <1>8, <2>2 DEF Poll, Park
    <3>2. ParkedOrWoken'
      BY <1>8, <2>1, <2>2, <3>1 DEF Poll, Park
    <3> QED BY <1>8, <2>2, <3>2 DEF Poll, Park
  <2>3. CASE ~locked
    <3>1. Pending' = Pending \ {f}
      BY <1>8, <2>3 DEF Poll, Acquire
    <3>2. ParkedOrWoken'
      BY <1>8, <2>1, <2>3, <3>1 DEF Poll, Acquire
    <3> QED BY <1>8, <2>3, <3>2 DEF Poll, Acquire
  <2> QED BY <2>2, <2>3
<1>9. ASSUME NEW f \in Futures, DropFuture(f)
      PROVE  MutualExclusion' /\ NoLostUnlock' /\ ParkedOrWoken'
  <2>1. Pending' = Pending \ {f}
    BY <1>9 DEF DropFuture
  <2> QED BY <1>9, <2>1 DEF DropFuture
<1> QED
  BY <1>1, <1>2, <1>3, <1>4, <1>5, <1>6, <1>7, <1>8, <1>9 DEF Next

\* Nothing comes to exist before the anchor is set or after the mutex is
\* dropped, and the mutex is dropped in peace only when nothing exists.
LEMMA EndsPreserved ==
  ASSUME IInv, Next
  PROVE  NothingOutlivesMutex' /\ UnanchoredIsUnused'
<1> USE DEF TypeOK, NothingOutlivesMutex, UnanchoredIsUnused, Existing, FutureStates, IInv
<1>1. CASE TakeRef
  BY <1>1 DEF TakeRef
<1>2. CASE CloneRef
  BY <1>2 DEF CloneRef
<1>3. CASE DropRef
  BY <1>3 DEF DropRef
<1>4. CASE TryLock
  BY <1>4 DEF TryLock
<1>5. CASE DropGuard
  BY <1>5 DEF DropGuard, Release
<1>6. CASE DropMutex
  <2>1. CASE refcount = 0
    <3>1. handles + guards + Cardinality(Existing) = 0 /\ Cardinality(Existing) \in Nat
      BY <1>6, <2>1, ExistingFinite, FS_CardinalityType DEF DropMutex, CountsReferences, Running
    <3>2. handles = 0 /\ guards = 0 /\ Cardinality(Existing) = 0
      BY <3>1
    <3>3. Existing = {}
      BY <3>2, ExistingFinite, FS_EmptySet
    <3> QED BY <1>6, <3>2, <3>3 DEF DropMutex
  <2>2. CASE refcount # 0
    BY <1>6, <2>2 DEF DropMutex
  <2> QED BY <2>1, <2>2
<1>7. ASSUME NEW f \in Futures, Lock(f)
      PROVE  NothingOutlivesMutex' /\ UnanchoredIsUnused'
  BY <1>7 DEF Lock
<1>8. ASSUME NEW f \in Futures, Poll(f)
      PROVE  NothingOutlivesMutex' /\ UnanchoredIsUnused'
  <2>1. Existing # {}
    BY <1>8 DEF Poll, Pollable
  <2> QED BY <1>8, <2>1 DEF Poll
<1>9. ASSUME NEW f \in Futures, DropFuture(f)
      PROVE  NothingOutlivesMutex' /\ UnanchoredIsUnused'
  <2>1. Existing # {}
    BY <1>9 DEF DropFuture
  <2> QED BY <1>9, <2>1 DEF DropFuture
<1> QED
  BY <1>1, <1>2, <1>3, <1>4, <1>5, <1>6, <1>7, <1>8, <1>9 DEF Next

\* A step that changes nothing.
LEMMA Stutters ==
  ASSUME IInv, UNCHANGED vars
  PROVE  IInv'
  BY DEF IInv, TypeOK, MutualExclusion, NoLostUnlock, ParkedOrWoken, Pending, CountsReferences,
         NothingOutlivesMutex, UnanchoredIsUnused, Existing, Running, vars

----------------------------------------------------------------------------
(* The theorems.                                                           *)

\* The strengthened invariant holds in every reachable state.
THEOREM Invariance == Spec => []IInv
<1>1. Init => IInv
  BY InitEstablishes
<1>2. IInv /\ [Next]_vars => IInv'
  BY CountPreserved, WaitersPreserved, EndsPreserved, Stutters DEF IInv
<1> QED BY <1>1, <1>2, PTL DEF Spec

\* The variables of the mutex keep their types; in particular ref_count
\* never goes below zero.
THEOREM TypeCorrectness == Spec => []TypeOK
<1>1. IInv => TypeOK
  BY DEF IInv
<1> QED BY <1>1, Invariance, PTL

\* The value is behind one guard at most, and the flag says whether it is.
THEOREM Exclusion == Spec => []MutualExclusion
<1>1. IInv => MutualExclusion
  BY DEF IInv
<1> QED BY <1>1, Invariance, PTL

\* However lock calls, unlocks and drops of futures interleave, no future is
\* left in the list of a free mutex, and none that returned Pending is
\* outside the list without a wake-up on its way.
THEOREM NoWaiterForgotten == Spec => [](NoLostUnlock /\ ParkedOrWoken)
<1>1. IInv => NoLostUnlock /\ ParkedOrWoken
  BY DEF IInv
<1> QED BY <1>1, Invariance, PTL

\* The reference count is exact, and so a mutex only goes away in peace when
\* no reference, guard or future of it is left.
THEOREM ReferencesAreSafe == Spec => [](CountsReferences /\ NothingOutlivesMutex)
<1>1. IInv => CountsReferences /\ NothingOutlivesMutex
  BY DEF IInv
<1> QED BY <1>1, Invariance, PTL

----------------------------------------------------------------------------
(* The mutex implements AbstractLock, but for its progress.                *)

LEMMA InitRefines == Init => Abstract!Init
<1>1. Init => Pending = {} /\ Running /\ ~(guards > 0)
  BY DEF Init, Pending, Running
<1> QED BY <1>1 DEF Abstract!Init

LEMMA StepRefines ==
  ASSUME IInv, [Next]_vars
  PROVE  [Abstract!Next]_(Abstract!vars)
<1> USE DEF TypeOK, MutualExclusion, FutureStates, Running, Pending, IInv,
            Abstract!vars, Abstract!Next
<1>1. CASE TakeRef
  BY <1>1 DEF TakeRef
<1>2. CASE CloneRef
  BY <1>2 DEF CloneRef
<1>3. CASE DropRef
  BY <1>3 DEF DropRef
<1>4. CASE TryLock
  <2>1. CASE locked
    BY <1>4, <2>1 DEF TryLock
  <2>2. CASE ~locked
    <3>1. Abstract!Barge
      BY <1>4, <2>2 DEF TryLock, Abstract!Barge
    <3> QED BY <3>1
  <2> QED BY <2>1, <2>2
<1>5. CASE DropGuard
  <2>1. guards = 1 /\ guards' = 0
    BY <1>5 DEF DropGuard
  <2>2. Abstract!Release
    BY <1>5, <2>1 DEF DropGuard, Abstract!Release
  <2> QED BY <2>2
<1>6. CASE DropMutex
  <2>1. Abstract!GiveUp
    BY <1>6 DEF DropMutex, Abstract!GiveUp
  <2> QED BY <2>1
<1>7. ASSUME NEW f \in Futures, Lock(f)
      PROVE  [Abstract!Next]_(Abstract!vars)
  <2>1. Pending' = Pending
    BY <1>7 DEF Lock
  <2> QED BY <1>7, <2>1 DEF Lock
<1>8. ASSUME NEW f \in Futures, Poll(f)
      PROVE  [Abstract!Next]_(Abstract!vars)
  <2>1. CASE locked
    <3>1. Pending' = Pending \cup {f}
      BY <1>8, <2>1 DEF Poll, Park
    <3>2. Abstract!Wait(f)
      BY <1>8, <2>1, <3>1 DEF Poll, Park, Abstract!Wait
    <3> QED BY <3>2
  <2>2. CASE ~locked
    <3>1. Pending' = Pending \ {f}
      BY <1>8, <2>2 DEF Poll, Acquire
    <3>2. ~(guards > 0) /\ guards' > 0
      BY <1>8, <2>2 DEF Poll, Acquire
    <3>3. CASE future[f] = "new"
      <4>1. Abstract!Barge
        BY <1>8, <3>1, <3>2, <3>3 DEF Poll, Abstract!Barge
      <4> QED BY <4>1
    <3>4. CASE future[f] = "pending"
      <4>1. Abstract!Grant(f)
        BY <1>8, <3>1, <3>2, <3>4 DEF Poll, Abstract!Grant
      <4> QED BY <4>1
    <3> QED BY <1>8, <3>3, <3>4 DEF Poll, Pollable
  <2> QED BY <2>1, <2>2
<1>9. ASSUME NEW f \in Futures, DropFuture(f)
      PROVE  [Abstract!Next]_(Abstract!vars)
  <2>1. Pending' = Pending \ {f}
    BY <1>9 DEF DropFuture
  <2>2. Abstract!GiveUp
    BY <1>9, <2>1 DEF DropFuture, Abstract!GiveUp
  <2> QED BY <2>2
<1>10. CASE UNCHANGED vars
  BY <1>10 DEF vars
<1> QED
  BY <1>1, <1>2, <1>3, <1>4, <1>5, <1>6, <1>7, <1>8, <1>9, <1>10 DEF Next

\* Every behaviour of the mutex is one of the lock's: the step a call makes is
\* the lock's step of the same name, or changes nothing the lock promises.
THEOREM RefinesLock == Spec => Abstract!Init /\ [][Abstract!Next]_(Abstract!vars)
<1>1. Init => Abstract!Init
  BY InitRefines
<1>2. IInv /\ [Next]_vars => [Abstract!Next]_(Abstract!vars)
  BY StepRefines
<1> QED BY <1>1, <1>2, Invariance, PTL DEF Spec
=============================================================================
