------------------------------- MODULE Mutex --------------------------------
(***************************************************************************)
(* The asynchronous mutex of src/sync/mutex.rs with the reference counting *)
(* of src/intrusive/rc.rs, used by tasks of one single-threaded executor.  *)
(*                                                                         *)
(* One action is one call that runs to its end: a poll of a LockFuture, a  *)
(* drop, a clone. Tasks only switch between such calls. A lock future      *)
(* stands for the task that awaits it; a waker call marks the future       *)
(* woken, and the executor polls a future for the first time and then      *)
(* whenever it has been woken since its last poll.                         *)
(*                                                                         *)
(* waiting_wakers is kept as a set: release_lock wakes all of it, and the  *)
(* order of the wake calls only reaches the executor, which may poll in    *)
(* any order. ParkedOrWoken shows that a future is never pushed while it   *)
(* is linked, which is what the list code asks of its callers              *)
(* (IntrusiveList.tla).                                                    *)
(***************************************************************************)
EXTENDS Naturals, FiniteSets

CONSTANTS
  Futures,     \* the LockFutures that can exist at a time
  MaxHandles   \* bound on the MutexRefs that exist at a time

ASSUME FuturesAssumption == IsFiniteSet(Futures)
ASSUME HandlesAssumption == MaxHandles \in Nat

VARIABLES
  mutex,     \* "alive", "dropped", or "panicked" when its drop panicked
  anchored,  \* the RcAnchor points at the mutex (see maybe_init_inner)
  locked,    \* Inner.locked
  refcount,  \* Inner.ref_count of the RcAnchor
  handles,   \* number of MutexRefs that exist
  guards,    \* number of MutexGuards that exist
  future,    \* LockFutures: "none", "new" (never polled), "pending", "done"
  waiting,   \* waiting_wakers: the futures whose link is in the list
  woken      \* futures whose waker was called since their last poll

vars == <<mutex, anchored, locked, refcount, handles, guards, future, waiting, woken>>

FutureStates == {"none", "new", "pending", "done"}

TypeOK ==
  /\ mutex \in {"alive", "dropped", "panicked"}
  /\ anchored \in BOOLEAN
  /\ locked \in BOOLEAN
  /\ refcount \in Nat
  /\ handles \in 0 .. MaxHandles
  /\ guards \in Nat
  /\ future \in [Futures -> FutureStates]
  /\ waiting \subseteq Futures
  /\ woken \subseteq Futures

\* Mutex::new.
Init ==
  /\ mutex = "alive"
  /\ anchored = FALSE
  /\ locked = FALSE
  /\ refcount = 0
  /\ handles = 0
  /\ guards = 0
  /\ future = [f \in Futures |-> "none"]
  /\ waiting = {}
  /\ woken = {}

Existing == {f \in Futures : future[f] # "none"}
Pending == {f \in Futures : future[f] = "pending"}

Running == mutex # "panicked"

----------------------------------------------------------------------------
(* References.                                                             *)

TakeRefReanchors ==
  /\ mutex = "alive" /\ handles < MaxHandles
  /\ anchored' = TRUE
  /\ refcount' = 1
  /\ handles' = handles + 1
  /\ UNCHANGED <<mutex, locked, guards, future, waiting, woken>>

\* Mutex::take_ref, with maybe_init_inner: the first call replaces the null
\* anchor, and its count, by one that points at the pinned mutex.
TakeRef ==
  /\ mutex = "alive" /\ handles < MaxHandles
  /\ anchored' = TRUE
  /\ refcount' = IF anchored THEN refcount + 1 ELSE 1
  /\ handles' = handles + 1
  /\ UNCHANGED <<mutex, locked, guards, future, waiting, woken>>

\* MutexRef::clone, or MutexGuard::source.
CloneRef ==
  /\ Running /\ handles < MaxHandles
  /\ handles > 0 \/ guards > 0
  /\ handles' = handles + 1
  /\ refcount' = refcount + 1
  /\ UNCHANGED <<mutex, anchored, locked, guards, future, waiting, woken>>

DropRef ==
  /\ Running /\ handles > 0
  /\ handles' = handles - 1
  /\ refcount' = refcount - 1
  /\ UNCHANGED <<mutex, anchored, locked, guards, future, waiting, woken>>

----------------------------------------------------------------------------
(* Locking.                                                                *)

\* MutexRef::try_lock. It returns None when the mutex is locked.
TryLock ==
  /\ Running /\ handles > 0
  /\ IF locked
     THEN UNCHANGED <<locked, guards, refcount>>
     ELSE /\ locked' = TRUE
          /\ guards' = guards + 1
          /\ refcount' = refcount + 1
  /\ UNCHANGED <<mutex, anchored, handles, future, waiting, woken>>

\* MutexRef::lock only makes the future.
Lock(f) ==
  /\ Running /\ handles > 0 /\ future[f] = "none"
  /\ future' = [future EXCEPT ![f] = "new"]
  /\ refcount' = refcount + 1
  /\ UNCHANGED <<mutex, anchored, locked, handles, guards, waiting, woken>>

ParkOnlyOnce(f) ==
  /\ future' = [future EXCEPT ![f] = "pending"]
  /\ waiting' = IF future[f] = "new" THEN waiting \cup {f} ELSE waiting
  /\ UNCHANGED <<locked, guards, refcount>>

\* LockFuture::poll when the mutex is locked: store the waker, join the list.
Park(f) ==
  /\ future' = [future EXCEPT ![f] = "pending"]
  /\ waiting' = waiting \cup {f}
  /\ UNCHANGED <<locked, guards, refcount>>

\* LockFuture::poll when it is not: the guard is made from a clone of rc_ref,
\* the future keeps its own.
Acquire(f) ==
  /\ future' = [future EXCEPT ![f] = "done"]
  /\ locked' = TRUE
  /\ guards' = guards + 1
  /\ refcount' = refcount + 1
  /\ UNCHANGED waiting

Pollable(f) == future[f] = "new" \/ (future[f] = "pending" /\ f \in woken)

PollTakesAnyway(f) ==
  /\ Running /\ Pollable(f)
  /\ IF locked /\ future[f] = "new" THEN Park(f) ELSE Acquire(f)
  /\ woken' = woken \ {f}
  /\ UNCHANGED <<mutex, anchored, handles>>

\* LockFuture::poll.
Poll(f) ==
  /\ Running /\ Pollable(f)
  /\ IF locked THEN Park(f) ELSE Acquire(f)
  /\ woken' = woken \ {f}
  /\ UNCHANGED <<mutex, anchored, handles>>

ReleaseWakesOne ==
  /\ locked' = FALSE
  /\ \E f \in waiting \cup {"nobody"} :
       /\ waiting = {} \/ f \in waiting
       /\ waiting' = waiting \ {f}
       /\ woken' = woken \cup (waiting \cap {f})

ReleaseForgetsToWake ==
  /\ locked' = FALSE
  /\ waiting' = {}
  /\ UNCHANGED woken

\* Mutex::release_lock: every waiter leaves the list and is woken.
Release ==
  /\ locked' = FALSE
  /\ waiting' = {}
  /\ woken' = woken \cup waiting

\* Drop for MutexGuard, also MutexGuard::unlock.
DropGuard ==
  /\ Running /\ guards > 0
  /\ Release
  /\ guards' = guards - 1
  /\ refcount' = refcount - 1
  /\ UNCHANGED <<mutex, anchored, handles, future>>

\* A LockFuture is dropped, finished or not: its link unlinks itself, then
\* its reference goes. A waker called for it wakes a task that has moved on.
DropFuture(f) ==
  /\ Running /\ future[f] # "none"
  /\ future' = [future EXCEPT ![f] = "none"]
  /\ waiting' = waiting \ {f}
  /\ woken' = woken \ {f}
  /\ refcount' = refcount - 1
  /\ UNCHANGED <<mutex, anchored, locked, handles, guards>>

----------------------------------------------------------------------------
(* The end of the mutex.                                                   *)

\* Drop for RcAnchor: a mutex dropped under its references panics. The
\* program ends there.
DropMutex ==
  /\ mutex = "alive"
  /\ mutex' = IF refcount = 0 THEN "dropped" ELSE "panicked"
  /\ UNCHANGED <<anchored, locked, refcount, handles, guards, future, waiting, woken>>

Next ==
  \/ TakeRef \/ CloneRef \/ DropRef \/ TryLock \/ DropGuard \/ DropMutex
  \/ \E f \in Futures : Lock(f) \/ Poll(f) \/ DropFuture(f)

Spec == Init /\ [][Next]_vars

\* The executor polls every task that was woken. Nothing is assumed of the
\* tasks themselves: they may never ask, and may hold a guard for ever.
Fairness == \A f \in Futures : WF_vars(Poll(f))

FairSpec == Spec /\ Fairness

----------------------------------------------------------------------------
(* Properties.                                                             *)

\* There is one guard exactly while the flag is set, so the value behind two
\* guards is never borrowed twice.
MutualExclusion == guards = IF locked THEN 1 ELSE 0

\* No lost unlock: whoever is parked in the list is parked behind a holder
\* whose guard's drop will wake it. A parked future with the mutex free would
\* sleep for ever.
NoLostUnlock == waiting # {} => locked

\* A future that returned Pending is in the list or has been woken, never
\* both and never neither, also when others took the mutex before its poll and
\* it had to park again. So a future that is polled is in no list, and no
\* future of a live list is gone.
ParkedOrWoken ==
  /\ waiting \cup woken = Pending
  /\ waiting \cap woken = {}

\* The count is the number of references that exist, whatever order they are
\* made and dropped in: it neither leaks nor goes below zero.
CountsReferences == Running => refcount = handles + guards + Cardinality(Existing)

\* A mutex that was dropped without a panic has nothing pointing at it.
NothingOutlivesMutex ==
  mutex = "dropped" => handles = 0 /\ guards = 0 /\ Existing = {}

\* Once nobody can lock anew each pending future gets the mutex, if guards are
\* not held for ever: an unlock wakes all, and whoever is overtaken before its
\* poll parks again and is woken again, until the last has had its turn.
EveryoneGetsThrough ==
  []<>(guards = 0) =>
    \A f \in Futures : future[f] = "pending" ~> (future[f] # "pending" \/ handles > 0 \/ ~Running)

Abstract == INSTANCE AbstractLock
  WITH Waiters <- Futures,
       held <- guards > 0,
       waiting <- IF Running THEN Pending ELSE {}

\* The mutex is the lock of AbstractLock, its progress included: a free mutex
\* with a pending future is taken again, although every waiter has to be
\* polled for that and any of them may be dropped at any time.
ImplementsAbstractLock == Abstract!Spec
=============================================================================
