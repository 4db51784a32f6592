------------------------------ MODULE Condvar -------------------------------
(***************************************************************************)
(* The condition variable of src/sync/condvar.rs together with the mutex   *)
(* it is used with (Mutex.tla), of which only locked and the waiting list  *)
(* are kept. Tasks use them the way condition variables are used: items    *)
(* are put and taken under the mutex, who finds none waits, and who has    *)
(* put one notifies, at once or later.                                     *)
(*                                                                         *)
(* One action is what a task does in one poll up to its next await, or a   *)
(* call that runs to its end. A poll of wait or wait_until makes several   *)
(* calls: it leaves a list, locks, looks, unlocks and joins a list again.  *)
(* Tasks are polled when they were woken.                                  *)
(***************************************************************************)
EXTENDS Naturals, Sequences, FiniteSets, SequencesExt

CONSTANTS
  Tasks,
  MaxHandles,   \* bound on the handles of either kind
  MaxItems,     \* bound on the items
  MaxLost       \* bound on the notifications that cancelled tasks take along

ASSUME TasksAssumption == IsFiniteSet(Tasks)
ASSUME BoundsAssumption == MaxHandles \in Nat /\ MaxItems \in Nat /\ MaxLost \in Nat

VARIABLES
  condvar,       \* "unsplit", "split", "dropped", or "panicked" by its drop
  rc_notifier,   \* number of CondvarNotifiers, the count of their anchor
  rc_waiter,     \* the count of the other anchor
  handles,       \* number of CondvarWaiters
  waiters,       \* Condvar.waiters
  notified,      \* tasks whose Waiter.notified is set
  locked,        \* Inner.locked of the mutex
  lock_waiting,  \* tasks in its waiting_wakers
  task,          \* what a task is at
  until,         \* tasks that wait with wait_until
  woken,         \* tasks whose waker was called since their last poll
  items,         \* what the mutex protects
  owed,          \* items put without a notification yet
  lost,          \* notifications taken along by tasks that went without an item
  failed         \* some wait has returned WaitError

refVars == <<condvar, rc_notifier, rc_waiter, handles>>
condVars == <<waiters, notified, until>>
lockVars == <<locked, lock_waiting>>
itemVars == <<items, owed, lost>>
vars == <<refVars, condVars, lockVars, itemVars, task, woken, failed>>

\* "locking" awaits mutex.lock(), "waiting" the WaitFuture, "relocking" the
\* lock inside wait; "holding" and "returned", from wait, have a guard.
TaskStates == {"idle", "locking", "holding", "waiting", "relocking", "returned"}

TypeOK ==
  /\ condvar \in {"unsplit", "split", "dropped", "panicked"}
  /\ rc_notifier \in 0 .. MaxHandles
  /\ rc_waiter \in Nat
  /\ handles \in 0 .. MaxHandles
  /\ waiters \in Seq(Tasks)
  /\ notified \subseteq Tasks /\ until \subseteq Tasks
  /\ locked \in BOOLEAN
  /\ lock_waiting \subseteq Tasks
  /\ task \in [Tasks -> TaskStates]
  /\ woken \subseteq Tasks
  /\ items \in 0 .. MaxItems /\ owed \in 0 .. MaxItems /\ lost \in 0 .. MaxLost
  /\ failed \in BOOLEAN

\* Condvar::new, Mutex::new.
Init ==
  /\ condvar = "unsplit"
  /\ rc_notifier = 0 /\ rc_waiter = 0 /\ handles = 0
  /\ waiters = <<>> /\ notified = {} /\ until = {}
  /\ locked = FALSE /\ lock_waiting = {}
  /\ task = [t \in Tasks |-> "idle"]
  /\ woken = {}
  /\ items = 0 /\ owed = 0 /\ lost = 0
  /\ failed = FALSE

Running == condvar # "panicked"
At(s) == {t \in Tasks : task[t] = s}
Holders == At("holding") \cup At("returned")

----------------------------------------------------------------------------
(* Handles, and the end of the condition variable.                         *)

\* Condvar::split, which works once.
Split ==
  /\ condvar = "unsplit" /\ MaxHandles > 0
  /\ condvar' = "split"
  /\ rc_notifier' = 1
  /\ rc_waiter' = 1 /\ handles' = 1
  /\ UNCHANGED <<condVars, lockVars, itemVars, task, woken, failed>>

\* CondvarNotifier::clone.
CloneNotifier ==
  /\ Running /\ rc_notifier \in 1 .. MaxHandles - 1
  /\ rc_notifier' = rc_notifier + 1
  /\ UNCHANGED <<condvar, rc_waiter, handles, condVars, lockVars, itemVars, task, woken, failed>>

\* A CondvarNotifier is dropped. It is no NotifyRcRef, whose drop would notify.
DropNotifier ==
  /\ Running /\ rc_notifier > 0
  /\ rc_notifier' = rc_notifier - 1
  /\ UNCHANGED <<condvar, rc_waiter, handles, condVars, lockVars, itemVars, task, woken, failed>>

\* CondvarWaiter::clone.
CloneWaiter ==
  /\ Running /\ handles \in 1 .. MaxHandles - 1
  /\ handles' = handles + 1
  /\ rc_waiter' = rc_waiter + 1
  /\ UNCHANGED <<condvar, rc_notifier, condVars, lockVars, itemVars, task, woken, failed>>

\* A call of wait borrows its CondvarWaiter to its end.
DropWaiter ==
  /\ Running /\ handles > 0
  /\ handles > 1 \/ At("waiting") \cup At("relocking") = {}
  /\ handles' = handles - 1
  /\ rc_waiter' = rc_waiter - 1
  /\ UNCHANGED <<condvar, rc_notifier, condVars, lockVars, itemVars, task, woken, failed>>

DropCondvarChecksWaitersOnly ==
  /\ condvar \in {"unsplit", "split"}
  /\ condvar' = IF rc_waiter = 0 THEN "dropped" ELSE "panicked"
  /\ UNCHANGED <<rc_notifier, rc_waiter, handles, condVars, lockVars, itemVars, task, woken, failed>>

\* The Condvar is dropped; an anchor with references panics.
DropCondvar ==
  /\ condvar \in {"unsplit", "split"}
  /\ condvar' = IF rc_waiter = 0 /\ rc_notifier = 0 THEN "dropped" ELSE "panicked"
  /\ UNCHANGED <<rc_notifier, rc_waiter, handles, condVars, lockVars, itemVars, task, woken, failed>>

----------------------------------------------------------------------------
(* The mutex.                                                              *)

Goto(t, s) == task' = [task EXCEPT ![t] = s]

\* LockFuture::poll on a locked mutex.
ParkForLock(t) == lock_waiting' = lock_waiting \cup {t} /\ UNCHANGED locked

ReleaseForgetsToWake(t) ==
  /\ locked' = FALSE
  /\ lock_waiting' = {}
  /\ woken' = woken \ {t}

\* Mutex::release_lock, in a poll of task t.
Release(t) ==
  /\ locked' = FALSE
  /\ lock_waiting' = {}
  /\ woken' = (woken \ {t}) \cup lock_waiting

\* A task locks the mutex: the first poll of MutexRef::lock, and later ones.
Lock(t) ==
  /\ Running
  /\ task[t] = "idle" \/ (task[t] = "locking" /\ t \in woken)
  /\ \/ locked /\ ParkForLock(t) /\ Goto(t, "locking")
     \/ ~locked /\ locked' = TRUE /\ Goto(t, "holding") /\ UNCHANGED lock_waiting
  /\ woken' = woken \ {t}
  /\ UNCHANGED <<refVars, condVars, itemVars, failed>>

\* A task puts an item and unlocks. It owes a notification now.
Put(t) ==
  /\ Running /\ task[t] = "holding" /\ items < MaxItems
  /\ items' = items + 1
  /\ owed' = owed + 1
  /\ Release(t)
  /\ Goto(t, "idle")
  /\ UNCHANGED <<refVars, condVars, lost, failed>>

\* A task takes an item that is there and unlocks.
Take(t) ==
  /\ Running /\ t \in Holders /\ items > 0
  /\ items' = items - 1
  /\ owed' = IF owed = items THEN owed - 1 ELSE owed
  /\ Release(t)
  /\ Goto(t, "idle")
  /\ UNCHANGED <<refVars, condVars, lost, failed>>

\* A task drops its guard and leaves things as they are. If it had just been
\* notified, that was in vain.
Unlock(t) ==
  /\ Running /\ t \in Holders
  /\ task[t] = "returned" => lost < MaxLost
  /\ lost' = IF task[t] = "returned" THEN lost + 1 ELSE lost
  /\ Release(t)
  /\ Goto(t, "idle")
  /\ UNCHANGED <<refVars, condVars, items, owed, failed>>

----------------------------------------------------------------------------
(* Notifying.                                                              *)

NotifyWithoutWaking(ts) ==
  /\ notified' = notified \cup ts
  /\ UNCHANGED woken

\* Waiter::notify for the tasks ts, which have left the list.
Notify(ts) ==
  /\ notified' = notified \cup ts
  /\ woken' = woken \cup ts

NotifyOneLast ==
  /\ Running /\ rc_notifier > 0
  /\ IF waiters = <<>>
     THEN UNCHANGED <<waiters, notified, woken>>
     ELSE waiters' = Front(waiters) /\ Notify({Last(waiters)})
  /\ owed' = IF owed > 0 THEN owed - 1 ELSE 0
  /\ UNCHANGED <<refVars, until, lockVars, items, lost, task, failed>>

\* CondvarNotifier::notify_one. It counts for an item that was put.
NotifyOne ==
  /\ Running /\ rc_notifier > 0
  /\ IF waiters = <<>>
     THEN UNCHANGED <<waiters, notified, woken>>
     ELSE waiters' = Tail(waiters) /\ Notify({Head(waiters)})
  /\ owed' = IF owed > 0 THEN owed - 1 ELSE 0
  /\ UNCHANGED <<refVars, until, lockVars, items, lost, task, failed>>

NotifyAllOnlyFirst ==
  /\ Running /\ rc_notifier > 0
  /\ IF waiters = <<>>
     THEN UNCHANGED <<waiters, notified, woken>>
     ELSE waiters' = Tail(waiters) /\ Notify({Head(waiters)})
  /\ owed' = 0
  /\ UNCHANGED <<refVars, until, lockVars, items, lost, task, failed>>

\* CondvarNotifier::notify_all. It counts for all items that were put.
NotifyAll ==
  /\ Running /\ rc_notifier > 0
  /\ waiters' = <<>>
  /\ Notify(ToSet(waiters))
  /\ owed' = 0
  /\ UNCHANGED <<refVars, until, lockVars, items, lost, task, failed>>

----------------------------------------------------------------------------
(* Waiting.                                                                *)

SleepChecksWaiters(t, rc) ==
  \/ /\ handles > 1
     /\ waiters' = Append(waiters, t)
     /\ rc_waiter' = rc + 1
     /\ Goto(t, "waiting")
     /\ UNCHANGED failed
  \/ /\ handles <= 1
     /\ rc_waiter' = rc
     /\ Goto(t, "idle")
     /\ failed' = TRUE
     /\ UNCHANGED waiters

\* WaitFuture::poll for the first time: a fresh Waiter joins the list, or the
\* wait ends for want of a notifier, without the mutex. The count of the
\* waiters was rc before the future.
Sleep(t, rc) ==
  \/ /\ rc_notifier > 0
     /\ waiters' = Append(waiters, t)
     /\ rc_waiter' = rc + 1
     /\ Goto(t, "waiting")
     /\ UNCHANGED failed
  \/ /\ rc_notifier = 0
     /\ rc_waiter' = rc
     /\ Goto(t, "idle")
     /\ failed' = TRUE
     /\ UNCHANGED waiters

\* A task that found no item calls wait or wait_until with its guard. The
\* mutex is unlocked and the list joined in the same poll.
Wait(t) ==
  /\ Running /\ t \in Holders /\ items = 0 /\ handles > 0
  /\ until' \in {until \cup {t}, until \ {t}}
  /\ Release(t)
  /\ Sleep(t, rc_waiter)
  /\ UNCHANGED <<condvar, rc_notifier, handles, notified, itemVars>>

\* The mutex is free for a task whose wait was notified. wait returns the
\* guard. wait_until returns if its condition, which takes an item, holds.
Returns(t, rc) ==
  /\ \/ t \notin until /\ Goto(t, "returned") /\ UNCHANGED itemVars
     \/ /\ t \in until /\ items > 0
        /\ items' = items - 1
        /\ owed' = IF owed = items THEN owed - 1 ELSE owed
        /\ Goto(t, "holding")
        /\ UNCHANGED lost
  /\ locked' = TRUE
  /\ woken' = woken \ {t}
  /\ rc_waiter' = rc
  /\ UNCHANGED <<waiters, lock_waiting, failed>>

\* The condition of wait_until does not hold: the loop unlocks and waits again.
WaitsAgain(t, rc) ==
  /\ t \in until /\ items = 0
  /\ Release(t)
  /\ Sleep(t, rc)
  /\ UNCHANGED itemVars

Relocks(t, rc) ==
  \/ ~locked /\ (Returns(t, rc) \/ WaitsAgain(t, rc))
  \/ /\ locked
     /\ ParkForLock(t)
     /\ Goto(t, "relocking")
     /\ woken' = woken \ {t}
     /\ rc_waiter' = rc
     /\ UNCHANGED <<waiters, itemVars, failed>>

\* A poll of wait or wait_until while it awaits the WaitFuture. Only a notified
\* task was woken (ListedOrNotified), so the other two outcomes of
\* WaitFuture::poll are those of Sleep. The WaitFuture goes, and the mutex is
\* locked again.
PollWait(t) ==
  /\ Running /\ task[t] = "waiting" /\ t \in woken /\ t \in notified
  /\ notified' = notified \ {t}
  /\ Relocks(t, rc_waiter - 1)
  /\ UNCHANGED <<condvar, rc_notifier, handles, until>>

\* A poll of wait or wait_until while it awaits the LockFuture.
PollRelock(t) ==
  /\ Running /\ task[t] = "relocking" /\ t \in woken
  /\ Relocks(t, rc_waiter)
  /\ UNCHANGED <<condvar, rc_notifier, handles, until, notified>>

\* Drop for Link: a waiter leaves the list from anywhere in it.
LeaveList(t) ==
  \/ \E i \in DOMAIN waiters : waiters[i] = t /\ waiters' = RemoveAt(waiters, i)
  \/ t \notin ToSet(waiters) /\ UNCHANGED waiters

CancelStaysListed(t) ==
  /\ Running /\ task[t] \in {"locking", "waiting", "relocking"}
  /\ LET inVain == t \in notified \/ task[t] = "relocking"
     IN  /\ inVain => lost < MaxLost
         /\ lost' = IF inVain THEN lost + 1 ELSE lost
  /\ rc_waiter' = IF task[t] = "waiting" THEN rc_waiter - 1 ELSE rc_waiter
  /\ Goto(t, "idle")
  /\ notified' = notified \ {t}
  /\ lock_waiting' = lock_waiting \ {t}
  /\ woken' = woken \ {t}
  /\ UNCHANGED <<condvar, rc_notifier, handles, waiters, until, locked, items, owed, failed>>

\* A task is cancelled in an await. Node and Link leave their lists; that the
\* task was notified helps nobody else any more.
Cancel(t) ==
  /\ Running /\ task[t] \in {"locking", "waiting", "relocking"}
  /\ LET inVain == t \in notified \/ task[t] = "relocking"
     IN  /\ inVain => lost < MaxLost
         /\ lost' = IF inVain THEN lost + 1 ELSE lost
  /\ rc_waiter' = IF task[t] = "waiting" THEN rc_waiter - 1 ELSE rc_waiter
  /\ Goto(t, "idle")
  /\ LeaveList(t)
  /\ notified' = notified \ {t}
  /\ lock_waiting' = lock_waiting \ {t}
  /\ woken' = woken \ {t}
  /\ UNCHANGED <<condvar, rc_notifier, handles, until, locked, items, owed, failed>>

Next ==
  \/ Split \/ CloneNotifier \/ DropNotifier \/ CloneWaiter \/ DropWaiter \/ DropCondvar
  \/ NotifyOne \/ NotifyAll
  \/ \E t \in Tasks :
       \/ Lock(t) \/ Put(t) \/ Take(t) \/ Unlock(t)
       \/ Wait(t) \/ PollWait(t) \/ PollRelock(t) \/ Cancel(t)

Spec == Init /\ [][Next]_vars

\* The executor polls every task that was woken.
PollWoken(t) == t \in woken /\ (Lock(t) \/ PollWait(t) \/ PollRelock(t))

FairSpec == Spec /\ \A t \in Tasks : WF_vars(PollWoken(t))

----------------------------------------------------------------------------
(* Properties.                                                             *)

\* One guard exactly while the flag is set: wait gives its guard up before it
\* sleeps and has it again before it returns.
MutualExclusion == Cardinality(Holders) = IF locked THEN 1 ELSE 0

\* Whoever sleeps in a wait is in the list, once, or was notified and woken,
\* and nobody else is. So no notification falls between the unlocking and the
\* joining of the list, and none goes to a task that is gone.
ListedOrNotified ==
  /\ ToSet(waiters) \cup notified = At("waiting")
  /\ ToSet(waiters) \cap (notified \cup woken) = {}
  /\ notified \subseteq woken
  /\ IsInjective(waiters)

\* The same of the mutex, whose waiters come from lock and from wait.
ParkedForLockOrWoken ==
  /\ lock_waiting # {} => locked
  /\ At("locking") \cup At("relocking") = lock_waiting \cup (woken \ notified)
  /\ lock_waiting \cap woken = {}

\* No lost signal: nobody sleeps beside an item, unless its notification is
\* still to come, or on its way through a task that will look at the items,
\* or went with a task that was cancelled. The last is why notify_one is not
\* enough when waits are cancelled.
NoSignalLost ==
  waiters # <<>> =>
    items <= owed + Cardinality(notified) + Cardinality(At("relocking"))
               + Cardinality(At("returned")) + lost

\* The counts are those of the handles and of the futures in the list's hands.
CountsReferences ==
  Running => rc_waiter = handles + Cardinality(At("waiting"))

\* A condition variable dropped without a panic has no handle left and nobody
\* sleeps in it.
NothingOutlivesCondvar ==
  condvar = "dropped" => rc_notifier = 0 /\ handles = 0 /\ At("waiting") = {} /\ waiters = <<>>

\* A wait that returned WaitError was right: there is no notifier any more,
\* and there will not be one.
ErrorsAreFinal == failed => rc_notifier = 0

\* notify_one is fair: if it is called again and again, whoever waits gets to
\* the front of the list, however many others come and go.
WaitersAreNotified ==
  []<><<NotifyOne>>_vars =>
    \A t \in Tasks : t \in ToSet(waiters) ~> t \notin ToSet(waiters)

Abstract == INSTANCE AbstractLock
  WITH Waiters <- Tasks, held <- locked,
       waiting <- IF Running THEN At("locking") \cup At("relocking") ELSE {}

\* The mutex is still a lock that is handed on, although waits lock and
\* unlock it in one poll.
ImplementsAbstractLock == Abstract!Spec
=============================================================================
