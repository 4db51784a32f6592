------------------------------- MODULE Timer --------------------------------
(***************************************************************************)
(* The timer of src/timer/mod.rs: tasks delay through handles, one runner  *)
(* task serves all of them with a single backend, which is paused and      *)
(* started again whenever the runner is polled. The backend is the         *)
(* ThreadTimer of examples/timer.rs: its clock is finer than the unit of   *)
(* the durations, and pause rounds down to whole units.                    *)
(*                                                                         *)
(* One action is one call that runs to its end, or a tick of the clock,    *)
(* which may come between any two calls. Only a poll of the runner takes   *)
(* time of its own: it reads the clock when it pauses the backend and when *)
(* it starts it again, ticks come in between, and no other call does. Both *)
(* lists of delays are kept as sets: the runner goes through the whole of  *)
(* each, and what it does to a delay does not depend on the others. Any    *)
(* future may be polled when nobody has woken it, as Race and Join do.     *)
(***************************************************************************)
EXTENDS Naturals, FiniteSets

CONSTANTS
  Delays,       \* the DelayFutures that can exist at a time
  MaxHandles,   \* bound on the TimerHandles that exist at a time
  MaxDuration,  \* the longest delay, in units of Duration
  Resolution    \* ticks of the clock per unit

ASSUME DelaysAssumption == IsFiniteSet(Delays)
ASSUME HandlesAssumption == MaxHandles \in Nat
ASSUME DurationAssumption == MaxDuration \in Nat
ASSUME ResolutionAssumption == Resolution \in Nat \ {0}

VARIABLES
  timer,         \* "alive", "dropped", or "panicked" when its drop panicked
  backend,       \* "armed": the clock runs and will wake; "spent": it runs and
                 \* has woken, or was never armed; "paused"; "taken"
  wait,          \* next_wait_time of the last poll of the runner, 0 for None
  elapsed,       \* ticks since the last wake_in, while the clock runs
  timer_waker,   \* Timer.waker is Some: the waker of the runner
  rc_delays,     \* the count of the RcAnchor rc_delays
  handles,       \* number of TimerHandles
  runner,        \* "none" before the split; "task": a TimerTask; "new",
                 \* "polling" and "pending": the future of TimerTask::run; "gone"
  runner_woken,  \* the waker of the pending runner was called since its last poll
  delay,         \* per DelayFuture "none", "new", "pending" or "done"
  remaining,     \* WaitingTimer.time_until_timeout
  installed,     \* delays whose WaitingTimer.waker is Some
  new_timers, sleeping_timers,
  woken,         \* delays whose waker was called since their last poll
  duration,      \* what the delay was made with
  slept          \* ticks since the runner took the delay over

backendVars == <<backend, wait, elapsed>>
delayVars == <<delay, remaining, installed, new_timers, sleeping_timers, woken, duration, slept>>
vars == <<timer, backendVars, timer_waker, rc_delays, handles, runner, runner_woken, delayVars>>

\* Ticks are counted up to the longest delay; later is as good as then.
Horizon == Resolution * MaxDuration

Durations == 0 .. MaxDuration

TypeOK ==
  /\ timer \in {"alive", "dropped", "panicked"}
  /\ backend \in {"armed", "spent", "paused", "taken"}
  /\ wait \in Durations
  /\ elapsed \in 0 .. Horizon
  /\ timer_waker \in BOOLEAN
  /\ rc_delays \in Nat
  /\ handles \in 0 .. MaxHandles
  /\ runner \in {"none", "task", "new", "polling", "pending", "gone"}
  /\ runner_woken \in BOOLEAN
  /\ delay \in [Delays -> {"none", "new", "pending", "done"}]
  /\ remaining \in [Delays -> Durations]
  /\ installed \subseteq Delays
  /\ new_timers \subseteq Delays /\ sleeping_timers \subseteq Delays
  /\ woken \subseteq Delays
  /\ duration \in [Delays -> Durations]
  /\ slept \in [Delays -> 0 .. Horizon]

\* Timer::new with a new ThreadTimer, whose clock runs from the start.
Init ==
  /\ timer = "alive"
  /\ backend = "spent" /\ wait = 0 /\ elapsed = 0
  /\ timer_waker = FALSE
  /\ rc_delays = 0 /\ handles = 0
  /\ runner = "none" /\ runner_woken = FALSE
  /\ delay = [d \in Delays |-> "none"]
  /\ remaining = [d \in Delays |-> 0]
  /\ installed = {} /\ new_timers = {} /\ sleeping_timers = {}
  /\ woken = {}
  /\ duration = [d \in Delays |-> 0]
  /\ slept = [d \in Delays |-> 0]

Existing == {d \in Delays : delay[d] # "none"}
Running == timer # "panicked"

\* A call can be made: all of them run on the thread of the executor, which
\* is not in the middle of a poll of the runner.
Idle == Running /\ runner # "polling"

\* Duration::saturating_sub.
SaturatingSub(a, b) == IF a > b THEN a - b ELSE 0

----------------------------------------------------------------------------
(* Handles, and the ends of the timer.                                     *)

\* Timer::split, which works once.
Split ==
  /\ timer = "alive" /\ runner = "none" /\ MaxHandles > 0
  /\ runner' = "task"
  /\ handles' = 1
  /\ rc_delays' = 1
  /\ UNCHANGED <<timer, backendVars, timer_waker, runner_woken, delayVars>>

\* TimerHandle::clone.
CloneHandle ==
  /\ Idle /\ handles \in 1 .. MaxHandles - 1
  /\ handles' = handles + 1
  /\ rc_delays' = rc_delays + 1
  /\ UNCHANGED <<timer, backendVars, timer_waker, runner, runner_woken, delayVars>>

\* What a call of Timer.waker does; it reaches nobody unless the runner sleeps.
WakeRunner == runner_woken' = (runner_woken \/ (timer_waker /\ runner = "pending"))

DropRefWakesTooLate ==
  /\ rc_delays' = rc_delays - 1
  /\ IF rc_delays = 0 THEN WakeRunner ELSE UNCHANGED runner_woken

\* Drop for TimerHandleRcRef: the last reference wakes the runner, then goes.
DropRef ==
  /\ IF rc_delays = 1 THEN WakeRunner ELSE UNCHANGED runner_woken
  /\ rc_delays' = rc_delays - 1

DropHandle ==
  /\ Idle /\ handles > 0
  /\ handles' = handles - 1
  /\ DropRef
  /\ UNCHANGED <<timer, backendVars, timer_waker, runner, delayVars>>

\* Timer::consume, possible only before the timer is pinned for its split.
Consume ==
  /\ timer = "alive" /\ runner = "none"
  /\ timer' = "dropped"
  /\ backend' = "taken"
  /\ UNCHANGED <<wait, elapsed, timer_waker, rc_delays, handles, runner, runner_woken, delayVars>>

\* Timer::consume_task.
ConsumeTask ==
  /\ Running /\ runner = "task"
  /\ runner' = "gone"
  /\ backend' = "taken"
  /\ UNCHANGED <<timer, wait, elapsed, timer_waker, rc_delays, handles, runner_woken, delayVars>>

\* The Timer is dropped; an anchor with references panics. The backend goes too.
DropTimer ==
  /\ Idle /\ timer = "alive"
  /\ timer' = IF rc_delays = 0 /\ runner \in {"none", "gone"} THEN "dropped" ELSE "panicked"
  /\ backend' = "taken"
  /\ UNCHANGED <<wait, elapsed, timer_waker, rc_delays, handles, runner, runner_woken, delayVars>>

----------------------------------------------------------------------------
(* Delays.                                                                 *)

DelayUncounted(d, t) ==
  /\ Idle /\ handles > 0 /\ delay[d] = "none"
  /\ delay' = [delay EXCEPT ![d] = "new"]
  /\ remaining' = [remaining EXCEPT ![d] = t]
  /\ duration' = [duration EXCEPT ![d] = t]
  /\ slept' = [slept EXCEPT ![d] = 0]
  /\ UNCHANGED <<timer, backendVars, timer_waker, rc_delays, handles, runner, runner_woken,
                 installed, new_timers, sleeping_timers, woken>>

\* TimerHandle::delay only makes the future.
Delay(d, t) ==
  /\ Idle /\ handles > 0 /\ delay[d] = "none"
  /\ delay' = [delay EXCEPT ![d] = "new"]
  /\ remaining' = [remaining EXCEPT ![d] = t]
  /\ duration' = [duration EXCEPT ![d] = t]
  /\ slept' = [slept EXCEPT ![d] = 0]
  /\ rc_delays' = rc_delays + 1
  /\ UNCHANGED <<timer, backendVars, timer_waker, handles, runner, runner_woken,
                 installed, new_timers, sleeping_timers, woken>>

InstallsQuietly(d) ==
  /\ delay' = [delay EXCEPT ![d] = "pending"]
  /\ new_timers' = new_timers \cup {d}
  /\ installed' = installed \cup {d}
  /\ UNCHANGED runner_woken

\* DelayFuture::poll of a delay that waits and has no waker yet.
Installs(d) ==
  /\ delay' = [delay EXCEPT ![d] = "pending"]
  /\ new_timers' = new_timers \cup {d}
  /\ installed' = installed \cup {d}
  /\ WakeRunner

\* DelayFuture::poll. A delay with a waker keeps it, whoever polls.
PollDelay(d) ==
  /\ Idle /\ delay[d] \in {"new", "pending"}
  /\ \/ /\ d \in installed
        /\ UNCHANGED <<delay, new_timers, installed, runner_woken>>
     \/ d \notin installed /\ remaining[d] # 0 /\ Installs(d)
     \/ /\ d \notin installed /\ remaining[d] = 0
        /\ delay' = [delay EXCEPT ![d] = "done"]
        /\ UNCHANGED <<new_timers, installed, runner_woken>>
  /\ woken' = woken \ {d}
  /\ UNCHANGED <<timer, backendVars, timer_waker, rc_delays, handles, runner,
                 remaining, sleeping_timers, duration, slept>>

DropDelayStaysLinked(d) ==
  /\ Idle /\ delay[d] # "none"
  /\ DropRef
  /\ delay' = [delay EXCEPT ![d] = "none"]
  /\ installed' = installed \ {d}
  /\ woken' = woken \ {d}
  /\ UNCHANGED <<timer, backendVars, timer_waker, handles, runner, remaining, new_timers,
                 sleeping_timers, duration, slept>>

\* A DelayFuture is dropped, finished or not: first its reference, which may
\* be the last, then its node, which leaves its list.
DropDelay(d) ==
  /\ Idle /\ delay[d] # "none"
  /\ DropRef
  /\ delay' = [delay EXCEPT ![d] = "none"]
  /\ installed' = installed \ {d}
  /\ new_timers' = new_timers \ {d}
  /\ sleeping_timers' = sleeping_timers \ {d}
  /\ woken' = woken \ {d}
  /\ UNCHANGED <<timer, backendVars, timer_waker, handles, runner, remaining, duration, slept>>

----------------------------------------------------------------------------
(* The runner.                                                             *)

\* TimerTask::run only makes the future.
Run ==
  /\ Running /\ runner = "task"
  /\ runner' = "new"
  /\ UNCHANGED <<timer, backendVars, timer_waker, rc_delays, handles, runner_woken, delayVars>>

\* The task, or its future at any point, is dropped.
DropRunner ==
  /\ Running /\ runner \in {"task", "new", "pending"}
  /\ runner' = "gone"
  /\ runner_woken' = FALSE
  /\ UNCHANGED <<timer, backendVars, timer_waker, rc_delays, handles, delayVars>>

ElapsedOnlyAfterWake == IF backend = "spent" THEN elapsed \div Resolution ELSE 0

\* TimerBackend::pause: whole units since the clock was started.
Elapsed == IF backend = "paused" THEN 0 ELSE elapsed \div Resolution

\* The delays that update_sleeping_timers takes out of the list.
Expired(e) == {d \in sleeping_timers : e # 0 /\ SaturatingSub(remaining[d], e) = 0}

\* append_new_timers wakes a delay of zero without taking its waker.
Accepted == {d \in new_timers : remaining[d] # 0}

NextWaitOfTheSleeping(kept, left) ==
  IF kept \cap sleeping_timers = {}
  THEN wait' = 0
  ELSE /\ wait' \in {left[d] : d \in kept \cap sleeping_timers}
       /\ \A d \in kept \cap sleeping_timers : wait' <= left[d]

\* next_wait_time: the least time left, if anybody sleeps. That is not 0.
NextWait(kept, left) ==
  IF kept = {}
  THEN wait' = 0
  ELSE /\ wait' \in {left[d] : d \in kept}
       /\ \A d \in kept : wait' <= left[d]

AgesNewDelaysToo ==
  LET e    == Elapsed
      left == [d \in Delays |-> IF d \in sleeping_timers \cup new_timers
                                THEN SaturatingSub(remaining[d], e) ELSE remaining[d]]
      out  == {d \in sleeping_timers \cup new_timers : left[d] = 0}
      kept == (sleeping_timers \cup new_timers) \ out
  IN  /\ runner' = "polling"
      /\ timer_waker' = TRUE
      /\ backend' = "paused" /\ elapsed' = 0
      /\ remaining' = left
      /\ installed' = installed \ out
      /\ woken' = woken \cup out
      /\ sleeping_timers' = kept
      /\ new_timers' = {}
      /\ NextWait(kept, left)

\* TimerTaskRunner::poll while there are references, up to its call of wake_in:
\* the backend is paused, then update_sleeping_timers, then append_new_timers.
Serves ==
  LET e    == Elapsed
      kept == (sleeping_timers \ Expired(e)) \cup Accepted
      left == [d \in Delays |-> IF d \in sleeping_timers THEN SaturatingSub(remaining[d], e)
                                                         ELSE remaining[d]]
  IN  /\ runner' = "polling"
      /\ timer_waker' = TRUE
      /\ backend' = "paused" /\ elapsed' = 0
      /\ remaining' = left
      /\ installed' = installed \ Expired(e)
      /\ woken' = woken \cup Expired(e) \cup (new_timers \ Accepted)
      /\ sleeping_timers' = kept
      /\ new_timers' = {}
      /\ NextWait(kept, left)

\* TimerTaskRunner::poll. Without references the task is handed back.
PollRunner ==
  /\ Running /\ runner \in {"new", "pending"}
  /\ \/ rc_delays # 0 /\ Serves
     \/ /\ rc_delays = 0
        /\ runner' = "task"
        /\ UNCHANGED <<backendVars, timer_waker, remaining, installed, new_timers,
                       sleeping_timers, woken>>
  /\ runner_woken' = FALSE
  /\ UNCHANGED <<timer, rc_delays, handles, delay, duration, slept>>

\* The end of the poll: wake_in, if there is a time to wait. Its clock starts
\* from here.
WakeIn ==
  /\ runner = "polling"
  /\ runner' = "pending"
  /\ backend' = IF wait = 0 THEN "paused" ELSE "armed"
  /\ UNCHANGED <<timer, wait, elapsed, timer_waker, rc_delays, handles, runner_woken, delayVars>>

----------------------------------------------------------------------------
(* The clock.                                                              *)

Later(t) == IF t < Horizon THEN t + 1 ELSE t

Tick ==
  /\ Running
  /\ elapsed' = IF backend \in {"armed", "spent"} THEN Later(elapsed) ELSE elapsed
  /\ slept' = [d \in Delays |-> IF d \in sleeping_timers THEN Later(slept[d]) ELSE slept[d]]
  /\ UNCHANGED <<timer, backend, wait, timer_waker, rc_delays, handles, runner, runner_woken,
                 delay, remaining, installed, new_timers, sleeping_timers, woken, duration>>

\* The thread of wake_in has slept for the duration and calls the waker.
Fire ==
  /\ Running /\ backend = "armed" /\ elapsed >= Resolution * wait
  /\ backend' = "spent"
  /\ runner_woken' = (runner_woken \/ runner = "pending")
  /\ UNCHANGED <<timer, wait, elapsed, timer_waker, rc_delays, handles, runner, delayVars>>

Others ==
  \/ Split \/ CloneHandle \/ DropHandle \/ Consume \/ ConsumeTask \/ DropTimer
  \/ \E d \in Delays : (\E t \in Durations : Delay(d, t)) \/ PollDelay(d) \/ DropDelay(d)
  \/ Run \/ DropRunner \/ WakeIn \/ Fire

Next == Others \/ Tick \/ PollRunner

Spec == Init /\ [][Next]_vars

\* The runner as the executor polls it: when it is new and when it was woken.
Runs == (runner = "new" \/ runner_woken) /\ PollRunner

\* Time goes on, the backend keeps its promise, the executor polls the runner,
\* and a poll ends. Of the delays and of those who use them nothing is assumed.
Fairness == WF_vars(Tick) /\ WF_vars(Fire) /\ WF_vars(Runs) /\ WF_vars(WakeIn)

FairSpec == Spec /\ Fairness

\* The runner as a task of its own, which nothing else polls and whose polls
\* take no time.
OwnTaskSpec == Init /\ [][Others \/ (Tick /\ runner # "polling") \/ Runs]_vars /\ Fairness

----------------------------------------------------------------------------
(* Properties.                                                             *)

\* A pending delay either has its waker stored and is in exactly one list, or
\* its time is up and it was woken since. So nobody polls a delay into a list
\* twice, and no delay of a live list is gone.
ParkedOrTimedOut ==
  /\ new_timers \cap sleeping_timers = {}
  /\ installed = new_timers \cup sleeping_timers
  /\ installed \subseteq {d \in Delays : delay[d] = "pending" /\ remaining[d] # 0}
  /\ \A d \in Delays : delay[d] = "pending" /\ d \notin installed =>
       d \in woken /\ remaining[d] = 0

\* What the runner has booked for a sleeping delay, and what the backend's
\* clock has not told it yet, never exceeds the time it really slept.
BookedAtMost ==
  \A d \in sleeping_timers :
    Resolution * (duration[d] - remaining[d]) + elapsed <= slept[d] \/ slept[d] = Horizon

\* No delay ends before its time, however often the backend was paused for
\* other delays while it slept.
NeverEarly ==
  \A d \in Delays :
    delay[d] \in {"pending", "done"} /\ remaining[d] = 0 => slept[d] >= Resolution * duration[d]

\* The ticks by which the books of a sleeping delay are behind.
Behind(d) == slept[d] - (Resolution * (duration[d] - remaining[d]) + elapsed)

\* The time a delay sleeps is lost to it only while a poll of the runner goes
\* on, from its pause to its wake_in, and by less than a unit at each pause,
\* which rounds. All else the books keep up with, however often it is paused.
BooksKeepUp ==
  [][\A d \in sleeping_timers \cap sleeping_timers' :
       runner # "polling" /\ slept'[d] < Horizon =>
         Behind(d)' < Behind(d) + IF runner' = "polling" THEN Resolution ELSE 1]_vars

\* While the runner sleeps, each waiting delay has somebody who will wake the
\* runner for it in time: a new one has done so itself, for a sleeping one the
\* backend is armed, for no later than that delay, or has fired.
NothingForgotten ==
  Running /\ runner = "pending" /\ ~runner_woken =>
    /\ new_timers = {}
    /\ sleeping_timers # {} => backend = "armed"
    /\ \A d \in sleeping_timers : wait <= remaining[d]

\* A sleeping runner has heard of the end of the last handle, be it a handle
\* or the field of a delay.
RunnerHearsOfTheEnd == runner = "pending" /\ rc_delays = 0 => runner_woken

\* The count is that of the handles and delays that exist.
CountsReferences == Running => rc_delays = handles + Cardinality(Existing)

\* Nothing points at a timer that was dropped without a panic, and no runner
\* is without a backend, which backend_mut "expects".
NothingOutlivesTimer ==
  /\ timer = "dropped" => handles = 0 /\ Existing = {} /\ runner \in {"none", "gone"}
  /\ Running /\ runner \in {"task", "new", "polling", "pending"} => backend # "taken"

Served == Running /\ runner \in {"new", "polling", "pending"}

\* A delay the runner has taken over is woken some time, unless it is dropped
\* or the runner is.
DelayElapses == \A d \in Delays : d \in sleeping_timers ~> (d \notin sleeping_timers \/ ~Served)

----------------------------------------------------------------------------

Abstract == INSTANCE AbstractTimer
  WITH asked <- IF Running THEN new_timers ELSE {},
       left <- [d \in IF Running THEN sleeping_timers ELSE {} |-> SaturatingSub(Resolution * duration[d], slept[d])],
       served <- Served,
       wanted <- rc_delays # 0,
       MaxTime <- Horizon

\* A runner that is polled for ever finds a whole unit on the clock again and
\* again: not all time goes by in its polls and in what they round off.
UnitsPass == []<>(runner = "polling") => []<>(elapsed >= Resolution)

\* The timer is that of AbstractTimer, its progress included: who asks is
\* taken over, and the runner ends when nobody is left. A delay that has run
\* down ends too, unless the polls of the runner use up all the time.
ImplementsAbstractTimer ==
  /\ Abstract!Clocks
  /\ Abstract!Attends
  /\ UnitsPass => Abstract!Ends
=============================================================================
