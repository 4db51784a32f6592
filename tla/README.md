# embedded-async in TLA+

`embedded-async` is a small Rust crate of async utilities for microcontrollers:
no allocation, no threads, any executor. Tasks share a mutex, channels, a
condition variable and a timer; all of them keep their waiting tasks in
intrusive linked lists whose links live *inside the futures*, and count their
handles with a hand-written reference count. One module, the interrupt waker,
is also used from interrupts. Nothing here is protected by the borrow checker:
every component works through raw pointers. What makes the crate right is that
futures may be polled, dropped and cancelled in any order without a pointer, a
count or a wake-up going wrong. This directory checks that.

Line numbers and paths refer to the crate, whose root is `src/` here (so
`src/src/sync/mutex.rs` is the crate's `src/sync/mutex.rs`).

## The system

| Component | State | Operations | Used by |
|---|---|---|---|
| Intrusive list, `intrusive/internal` | `prev`/`next` of every link, two sentinels in the list, null until first use | push front/back, pop front, move to front of another list, unlink, drop | everything below but the interrupt waker |
| Reference counts, `intrusive/rc` | a count in the pinned object | get_ref, clone, drop; the anchor's drop panics if the count is not 0 | mutex, channel, condvar, timer |
| Mutex, `sync/mutex` | `locked`, `waiting_wakers`, one count | lock, try_lock, poll, unlock, drop of future/guard/reference | tasks, condvar |
| Channel, `channel` | a bounded queue, two waiting lists, a count per side | split, (try_)send, (try_)recv, poll, clone, drop | tasks |
| Condition variable, `sync/condvar` | a list of waiters, two counts | wait, wait_until, notify_one/all | tasks, with a mutex |
| Timer, `timer` | new and sleeping delays, the runner's waker, backend | delay, poll, the runner's poll, drop of the last handle | tasks, combinators |
| Combinators, `prelude` and `task` | the halves and their results | poll of Race, Join, TimeoutFuture, DelayFuture, yield | tasks, around any future |
| Interrupt waker, `interrupt` | a cell for one waker, an atomic byte of flags | set_waker (application), wake (interrupts) | drivers |

Components interact by calls (a combinator polls a mutex's future, the condvar
unlocks a mutex) and by wakers: an operation of one task calls the waker of
another, and the executor polls that one later.

What is hard about it, and so what the properties are about:

* **Wake-ups.** Whoever sleeps must be woken by somebody. All lists but the
  condvar's are emptied as a whole; a woken task may be overtaken, may have to
  park again, or may be dropped with the wake-up in its hands.
* **One poll, many calls.** A poll of a condition variable's wait may leave one
  list, lock, look, unlock and join another; the timer's runner updates, takes
  over and re-arms in one poll; a combinator polls whole trees of futures.
* **Cancellation.** A future may be dropped after it was woken and before it is
  polled, and take the wake-up along.
* **Time.** Pauses of the one backend must not make a delay early, nor lose it.
* **Ends.** The last sender, receiver, notifier or timer handle goes, perhaps
  as a field of a future, and the other side has to hear of it.
* **Memory.** A link must not be in a list after its future is gone, nor be
  pushed twice; an anchor must not go before its references.
* **Interrupts.** `set_waker` can be interrupted at any step.
* **Boundaries.** A full and an empty queue, an empty or uninitialised list, a
  first and a last reference.

`PROJECT.json` lists each hazard at its line with the properties that guard it.

## Modules

* `LinkHeap` is the pointer manipulation, as operators from a heap to the heap
  after: one `SetNext`/`SetPrev` per assignment, in the order of the code.
  `IntrusiveList` lets links and lists be created, pushed, popped, moved and
  dropped in any order. It is shown to implement `AbstractList`, in which each
  list is just a sequence. Its one guard that is not in the code is the
  obligation of the `unsafe fn`s: push a link only while it is in no list.
  What the iterator yields is a walk along `next` (`Walk`, a recursive
  function, so that it can be proved about).
* `SenderList` composes the list with its clients, tasks that send on a channel
  with the real pointers of `waiting_senders`: it extends `IntrusiveList` and
  drives its `heap`, `live` and `lists`. A task stands for the one link it may
  have, and the second list is the local one of `notify_waiting_senders`. The
  push of `SendFuture::poll` has no guard here, as in the code. It shows that the
  crate's futures meet the obligation while each task awaits one future at a
  time, and that the list is the set of parked tasks. This is why `Mutex` and
  `Channel` can keep their lists as sets (each notification empties the whole
  list, so its order reaches nobody). `SendTimeout` adds `.timeout(..)` around
  the sends; there the obligation is *not* met, see below.
* `Mutex` is `sync/mutex.rs` with its reference count, `AbstractLock` what it
  promises. `Channel` and `AbstractChannel` are the same for `channel/mod.rs`.
* `IrqWaker` is `interrupt/mod.rs`, one atomic access per action, run by an
  application and prioritised interrupts.
* `Timer` is `timer/mod.rs` with its one backend, the `ThreadTimer` of
  `examples/timer.rs`, and a clock with `Resolution` ticks per unit of duration.
  A poll of the runner is two steps, since it reads the clock twice: `PollRunner`
  pauses the backend, updates (`Expired` is `update_sleeping_timers`), takes over
  (`Accepted` is `append_new_timers`) and finds the `NextWait`; `WakeIn` starts
  the backend again. Ticks may come in between, calls may not (`Idle`). `Tick`
  and `Fire` come between any two calls. The variables `duration` and `slept`
  are not in the code; they record what the properties compare.
  `AbstractTimer` gives each delay a clock of its own.
* `Condvar` is `sync/condvar.rs` with the mutex it unlocks and locks, and tasks
  that use it in the usual way, to hand items around. `waiters` is a sequence
  here, since `notify_one` takes the first. `Wait`, `PollWait` and `PollRelock`
  are the polls of `wait` and `wait_until` from one await to the next; `Sleep`
  and `Relocks` are the parts they share. The mutex is shown to be an
  `AbstractLock` still. `items`, `owed` and `lost` belong to the tasks: they say
  which notifications are due and which went with a task that gave up.
* `Combinators` is `prelude/mod.rs` and `yield_now`: `Poll`, a recursive function
  over the tree, goes down `Race`, `Join`, `TimeoutFuture` and `DelayFuture` as
  the code does, half by half. A node is named by the way to it from the root
  (a sequence of 1s and 2s), and `Depth` bounds the nesting. The kinds of the
  nodes are part of the initial state, so that one run takes every tree.
* The `*Proofs` modules hold the theorems, the `MC*` modules and `.cfg` files
  the instances for TLC.

In all modules but `IrqWaker`, and but for the poll of the timer's runner, one
action is one call that runs to its end: a poll, a drop, a clone (in
`IntrusiveList` one of the list's methods). This is
the atomicity of the code, whose README limits it to one thread; the wakers only
mark tasks. A future stands for the task that awaits it. In `Mutex`, `Channel`
and `Condvar` it is polled when it is new and when it has been woken
(`Pollable`); delays, the runner and combinators may be polled at any time,
which the code bears; a finished future stays until it is dropped, since it
keeps its reference. The drop actions follow the order in which Rust drops the
fields. A panic in the drop of an anchor ends the program (`"panicked"`). Names
of variables and actions are those of the code: `locked`, `waiting_senders`,
`Release` for `release_lock`, `NotifySenders` for `notify_waiting_senders`.
Definitions that stand before an operation and differ from it in one detail
(`TakeRefReanchors` before `TakeRef`) are faults: with the fault in place of the
operation the property that `PROJECT.json` pairs with it fails.

## What the runs check

| Run | Instance | Shows |
|---|---|---|
| `list` | 4 links, 2 lists | `NoDangling`, `DoublyLinked`, and that each list is the sequence of `AbstractList` |
| `sender_list` | 3 tasks, queue of 1 | the same of the pointers under real futures, and `ListHoldsTheParked` |
| `mutex` | 3 futures, 2 references | exclusion, no lost unlock, nothing outlives the mutex; implements `AbstractLock`: a free lock that is waited for is taken; once nobody can lock anew each pending future gets through |
| `channel` | 2+2 futures, 2+2 handles, queue of 2, 3 values | nobody parks in vain, each value in one place, closed stays closed; implements `AbstractChannel`; whoever waits for a closed side is told |
| `irq_waker` | 2 wakers, 1 priority | no uninitialised waker taken, none leaked, no wake-up lost; the compare-and-swap loops end, wake-ups are delivered |
| `timer_safety` | 2 delays of up to 2 units, 2 handles, 2 ticks a unit | no delay is early (`NeverEarly`) or forgotten (`NothingForgotten`), the runner hears of the last handle, nothing outlives the timer |
| `timer_refinement` | same | a sleeping delay loses no time but that of the runner's polls and less than a unit at each pause (`BooksKeepUp`); the timer implements `AbstractTimer`, its progress included |
| `condvar` | 3 tasks, 2 handles a kind, 2 items, 1 lost notification | no signal lost, nobody sleeps unlisted, errors stay true, the mutex is an `AbstractLock` still, a notifier that goes on reaches every waiter |
| `combinators` | every tree of up to three levels (`Depth = 2`) | no future is polled after its end, no result is lost, a root returns as soon as it can, a result wins over a timeout that comes with it |
| `send_timeout` | 3 tasks, queue of 1 | a finding, below |
| `irq_waker_priorities` | 2 priorities | a finding, below |
| `timer_resolution` | 2 delays of one unit, 2 ticks a unit | a finding, below |

**Bounds.** Links, futures, tasks, values and wakers are finite sets. With three
lock futures one can hold and two wait, of which one is dropped or overtakes.
Four links give a link two neighbours on either side of a splice. Two futures a
side, a queue of two and a third value make one sender wait behind another on a
full queue. `MaxHandles` bounds the handles at a time; two are enough for one to
go while another is left. There is no bound on the length of a run, except that
values are offered again only once they have left the channel, which makes them
identities. Two delays are one that sleeps and one that makes the runner pause;
two units let a delay be interrupted with time left; time beyond the longest
delay (`Horizon`) is counted as that, since nothing distinguishes it. Three
tasks at a condition variable are one that puts and two that wait in order, of
which one may be cancelled; `MaxItems` bounds the items at a time and `MaxLost`
the notifications that go with a task that gave up: those are forgiven in
`NoSignalLost`, so the first one is the interesting one. Three levels of
combinators put every combinator into both halves of every other. Symmetry is
used nowhere, as most runs check liveness too.

**Deadlock.** `Mutex`, `Channel`, `Timer` and `Condvar` stop when the object is
dropped or its drop has panicked, `Combinators` when the root has returned, so
their runs do not check for deadlock. That tasks do not wait for ever is stated
by the invariants (`NoLostUnlock`, `NothingForgotten`, ...) and by liveness.

**Fairness.** The executor polls every task that was woken: weak fairness of
the poll of each future, or of each task of a condition variable. Nothing
obliges tasks to lock, send, receive, notify or drop. Where somebody has to,
the property says so: `EveryoneGetsThrough` is for runs in which the mutex is
without a guard again and again, `WaitersAreNotified` for those in which
`notify_one` is called again and again. While others may still ask, no run
claims that a *particular* waiter gets the lock or a value: the code does not
queue them fairly (a `try_lock` may always come first), and the abstract
specifications promise only that *some* waiter is served. Of a mutex without
handles every waiter is promised its turn (`EveryoneGetsThrough`).

For the timer, time goes on, a backend that is armed fires, the executor polls
the runner when it was woken, and a poll ends (weak fairness of `Tick`, `Fire`,
`Runs` and `WakeIn`). That is not enough for a delay to end: what goes by within
a poll and what a pause rounds off is lost, and if tasks start delays so often
that no pause finds a whole unit, all time is lost. Nothing in the code prevents
that, so `ImplementsAbstractTimer` promises that delays end only if a whole unit
shows on the clock again and again while the runner is polled (`UnitsPass`). That
delays are accepted and that the runner ends needs no such premise. In
`timer_resolution` the polls take no time (`OwnTaskSpec`), and delays starve by
the rounding alone. In `IrqWaker` interrupts run to their end (weak), and the
application gets to run again and again between them (strong, since each
interrupt disables it).

## Findings

* `send_timeout`. `SendFuture::poll` pushes its link whenever it returns
  `Pending`. Inside `timeout` or `race` it is polled when the *delay* has woken
  the task, while its link is still in the list. The second push makes the link
  its own neighbour; when the timeout then drops the future, the head of
  `waiting_senders` still points at it. The comment at `channel/mod.rs:308`
  calls the push safe because the link is stored in the future. `LockFuture`,
  `ReceiveFuture` and `WaitFuture` push the same way.
* `irq_waker_priorities`. `interrupt/mod.rs:3-4` says the waker can be used
  between interrupts of different priorities. `wake` tests the flag, takes the
  waker and clears the flag in three steps; an interrupt of higher priority in
  between takes the same waker, and one of the two takes uninitialised memory.
  With one priority the module is right, which is proved.
* `timer_resolution`. Each new delay makes the runner pause the backend, and
  `pause` rounds the time that went by down to whole units (the `ThreadTimer` of
  `examples/timer.rs` to milliseconds); the rest of a unit is forgotten. A task
  that starts delays more often than once per unit keeps another delay from ever
  ending (`DelayElapses`), although the example speaks of a handle "that can be
  used to delay for a specified time" (`examples/timer.rs:84`). In this run
  the polls of the runner take no time; in the code what goes by between `pause`
  and `wake_in` is lost as well, whatever the resolution. Delays are late by
  this, never early, which is proved, and no time is lost otherwise
  (`BooksKeepUp`, proved too). As long as whole units show on the clock they end
  (`timer_refinement`).

## What is proved

The proofs hold for any finite set of futures, links, lists, delays or tasks, any
values and wakers, trees of any depth and all bounds. Every safety property of
the passing runs is a theorem, invariant or action property: the ones of
`irq_waker` for one priority, as in their run, the rest without restriction. Of a
refinement it is the safety half. The
type invariants, the exactness of the reference counts (`CountsReferences`) and
the other strengthenings are proved with the rest, so the runs do not list them
again.

* `MutexProofs`. `IInv` is the conjunction of the invariants with one
  strengthening, `UnanchoredIsUnused`: before the first `take_ref` nothing
  exists, which is why that call may start the count from 0. The other parts
  carry each other: the count stays natural because it is exact; a dropped
  mutex gets no new references because there is none to copy; a polled future
  is in no list because it was woken. From `IInv` follow `TypeCorrectness`,
  `Exclusion`, `NoWaiterForgotten` and `ReferencesAreSafe`, and `RefinesLock`:
  every step is a step of `AbstractLock` or none. The counting rests on three
  lemmas about the cardinality of the set of futures that exist.
* `ChannelProofs`. Again `IInv` is the conjunction of the invariants with
  `UnsplitIsUnused`: before the split nobody refers to the channel. That the
  last one to leave a side is noticed needs the exact counts
  (`ReferencesAreSafe`); that nobody sleeps on work (`NoReceiverSleepsOnWork`,
  `NoSenderSleepsOnRoom`) needs besides that each call which makes a value, room
  or an end possible empties the list of those who wait for it; `ValuesAreKept`
  follows from two lemmas on queues without repetition. `ClosedForGood` is the
  action property: with a count of zero nobody is there to clone or to send.
  `RefinesChannel` maps every step to one of `AbstractChannel` or none; a future
  polled for the first time is a caller that does not wait, a later poll serves
  a waiter.
* `IrqWakerProofs`, for `Levels = 1`. The invariant says what is in the cell at
  each step of either side (`CellKnown`), that `LOCKED` is set exactly between
  the two compare-and-swaps (`LockHeld`), that nothing comes between an
  interrupt's load and its last step (`InterruptUndisturbed`; this is what a
  second priority breaks), and who is about to call the waker that is owed a
  call (`CallerKnown`). `CellIsSafe`, `CellIsKept` and `WakesAreSafe` follow.
* `TimerProofs`. That no delay is early rests on the books of the runner
  (`BookedAtMost`): what it has subtracted from a sleeping delay, plus what the
  backend's clock has not told it yet, never exceeds the time the delay really
  slept. A pause rounds down (`WholeUnits`), and a delay that is taken over
  starts with the clock at zero, so both steps keep it. The other direction,
  `TimeIsLostOnlyInPolls`, is an action property: no step makes the books fall
  behind but a tick within a poll of the runner and the pause that begins one,
  by less than a unit (`PauseLosesLittle`). For the ticks it needs that the
  clock runs whenever somebody sleeps and no poll goes on (`ClockRuns`).
  That holds at the end of a poll since a time to wait was found for whoever
  sleeps (`KnowsTheWait`), and is kept because a delay drops only out of the
  list. `NothingForgotten` says who will wake the sleeping runner and needs
  `SleeperIsKnown`: a runner that sleeps has left its waker. `RefinesTimer` maps
  every step to one of `AbstractTimer` at any resolution.
* `CondvarProofs`. Three lemmas say what joining and leaving do to a list
  without repetition (`Joins`, `Leaves`, `FirstLeaves`). `NoSignalLost` compares
  numbers, so each step that moves a task is a change of three cardinalities
  (`OnTheWay`) that has to pay for the change of `items`, `owed` and `lost`.
  Two facts make it inductive: `ListedOrNotified`, by which a notification is
  counted once, and `OwedIsThere`, that no more is owed than is there. The rest
  are the handles: a wait borrows one (`WaitsBorrow`), so that none can start
  after the end. `RefinesLock` is the safety half of the refinement.
* `IntrusiveListProofs` begins with lemmas about the pointers, for any finite
  sets of links and lists. A heap is `Sound` if `next` and `prev` agree in both
  directions and nothing is before a head or after a tail. It `Holds` a sequence
  of links for every list if the pointers lead from the head of each list
  through its sequence to its tail (`Strung`), or the list is `Fresh` (its
  sentinels null) and its sequence empty, and if no link is in two places
  (`Apart`). There is one lemma per method, which says which sequences the heap
  holds afterwards and which nodes are still unlinked: `UnlinkMember` and
  `UnlinkOutside`, `PushFrontHolds`, `PushBackHolds`, `PopFrontHolds`,
  `MoveHolds`, `DropHolds`. Below each, one lemma
  follows the assignments in the order of the code to the fields they leave
  (`UnlinkJoins`, `PushBackFields`, `MoveFields`), which is where aliasing is
  excluded. Stating the invariant by sequences, and not by neighbours alone,
  rules out cycles and links that two lists share; `DoublyLinked` and
  `NoDangling` by themselves are not inductive.
* `ForwardYieldsTheList` says that the iterator yields the sequence the heap
  holds. `Walk` is cut off after as many steps as there are nodes; that this is
  enough follows from `ListsAreShort`, an injection of the list into the nodes.
  This needs `FiniteAssumption`, which the code justifies by memory being
  finite. No induction schema is available, so both this proof and the one
  about `Pops` suppose a first step at which the function is wrong, which exists
  by `LeastNumber` (from the well-foundedness of `<` on the naturals). Then the
  invariant of the lists: `Inv` says the heap is sound, holds the sequences that
  its iterators yield (`Order`), and that lists and links that do not exist are
  tied to nothing. `TypeCorrect`, `NothingDangles` and `PointersAgree` follow,
  and `ListsAreSequences`, which is the whole of `ImplementsAbstractList`: every
  step is one of `AbstractList` or leaves all the sequences as they are.
* `SenderListProofs`. Between two steps the local list is fresh,
  `waiting_senders` holds exactly the parked, and the links that exist are those
  of the futures that do (`SendersInv`). `AllPops` follows the loop of
  `notify_waiting_senders`: after k calls of `pop_front` the first k links are
  untied and the rest is in order. `FewAreParked` bounds the loop, and
  `NotifyAllHolds` says that it woke all of the list and left nothing.
  `ThePushIsAllowed` is the obligation of the unsafe push: the link that
  `SendFuture::poll` pushes exists and is in no list. The invariant of
  `IntrusiveListProofs` follows (`TheListsAreKept`), and from it
  `SendersNothingDangles`. `TheListIsExact` is the set of waiting senders, and
  `TheListActsAsTheSet` that each step does to the pointers what `Channel` does
  to that set. All are for any number of tasks.
* `CombinatorsProofs`, for trees of any depth; the only assumption is that the
  depth is a number. Its core is a contract of one poll (`Good`), which every
  future meets if its halves do (`AllPollWell`). The poll of a future that has
  not returned, in a subtree that is `Tidy`, changes nothing outside the subtree
  (`Within`) and leaves it tidy. It returns an output the node may have; or it
  is pending, and then the node may have none, not even if everything happens
  whose waker was not kept (`Unheard`; a yield wakes the task at once). That is
  the form of `NoWakeLost` that composes: a race needs it of both halves, a join
  of the halves it keeps no result of, and a delay of whichever half it is at.
  `Tidy` says what the code relies on without a test: a half that will be asked
  has not returned, a join keeps at most one result, and a possible one, and a
  delay that is gone had elapsed. There is one lemma per kind (`RacePolls`,
  `JoinPolls`, `DelayPolls`, ...). `Poll` and `OutputsWhen` are recursive
  functions over the tree; that they are what their definitions say (`PollIs`,
  `OutputsAre`), and the contract itself, is shown from the leaves up
  (`FromTheLeaves`): a set that has every future whose halves it has, has all
  futures. The invariant is the contract at the root, between two polls;
  `NeverAgain`, `SleepersHaveNothing`, `PollsReturnWhatIsThere` and
  `TimeoutsLoseNothing` follow. That more may be returned the more has happened
  (`OutputsGrow`) carries the invariant over an event.

Only model-checked: all liveness (the fairness half of the refinements of the
lock, the channel and the timer included), since the provers know neither
fairness nor `ENABLED`. That the set of waiting senders in `Channel` stands for
the list of pointers is proved for tasks that only send (`SenderList`); for the
other futures, which use their lists in the same way, it is argued.

## Not modelled, and what is left

Left out for good: `channel/broadcast.rs` (commented out, does not compile),
`intrusive/slist.rs` (not part of the crate's module tree), the arithmetic that
the `Duration` implementations forward to, tests and examples but for the
backend and the tasks taken from them. `NotifyRcRef` of the condition variable
is never built, so dropping the last notifier wakes nobody. The value behind the
mutex and the payload of messages have no influence. Reference counts are
numbers without overflow: 2^32 references do not fit into memory.

Three hazards have no property, since nothing in the crate promises otherwise: a
waiter that sleeps when the last notifier goes (`sync/condvar.rs:151`), a waker
that `WAKE_REQUESTED` leaves in the cell (`interrupt/mod.rs:89`), and a delay
that changes tasks while it is pending (`timer/mod.rs:358`). A fourth is the
second push on the mutex (`sync/mutex.rs:279`): `Mutex`, `Channel` and `Condvar`
poll a pending future only when it was woken. What an earlier poll does to the
list is shown once, on the channel, by `send_timeout`; the other futures push in
the same way.

What is left to prove: that `Mutex`, `Condvar` and the receivers of `Channel`
with the lists as pointers implement the ones with sets and sequences, as it is
proved for the senders of a channel.
