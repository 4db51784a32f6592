---------------------------- MODULE TimerProofs -----------------------------
(***************************************************************************)
(* The safety properties of Timer.tla, for any finite set of delays, any   *)
(* number of handles, any durations and any resolution of the clock.       *)
(***************************************************************************)
EXTENDS Timer, FiniteSetTheorems, TLAPS

\* Nothing exists before the split, which starts the count from 0, and the
\* backend is in its place.
UnsplitIsUnused ==
  runner = "none" =>
    /\ handles = 0 /\ rc_delays = 0 /\ Existing = {}
    /\ timer = "alive" => backend # "taken"

\* A runner that was polled has left its waker in the timer.
SleeperIsKnown == runner = "pending" => timer_waker

\* In the middle of a poll the runner knows for how long to arm the backend,
\* and that somebody still wants it; nobody can change that until it is done.
KnowsTheWait ==
  runner = "polling" =>
    /\ rc_delays # 0
    /\ timer_waker
    /\ backend = "paused"
    /\ new_timers = {}
    /\ sleeping_timers # {} => wait # 0
    /\ \A d \in sleeping_timers : wait <= remaining[d]

\* The runner has booked nothing for a delay it has not taken over.
NewHaveAllTheirTime ==
  \A d \in Delays :
    delay[d] = "new" \/ d \in new_timers => remaining[d] = duration[d] /\ slept[d] = 0

OnlyLess == \A d \in Delays : remaining[d] <= duration[d]

\* The inductive invariant. That no delay ends early rests on the books of
\* the runner: what it subtracts is time that really went by. These are right
\* because a delay that ends is in the list of the sleeping, not of the new.
IInv ==
  /\ TypeOK
  /\ ParkedOrTimedOut
  /\ BookedAtMost
  /\ NeverEarly
  /\ NothingForgotten
  /\ RunnerHearsOfTheEnd
  /\ CountsReferences
  /\ NothingOutlivesTimer
  /\ UnsplitIsUnused
  /\ SleeperIsKnown
  /\ KnowsTheWait
  /\ NewHaveAllTheirTime
  /\ OnlyLess

----------------------------------------------------------------------------
(* Time.                                                                   *)

\* The time a pause reports has gone by.
LEMMA WholeUnits ==
  ASSUME NEW n \in Nat
  PROVE  n \div Resolution \in Nat /\ Resolution * (n \div Resolution) <= n
  BY ResolutionAssumption

\* Units and ticks keep their order, and differences scale.
LEMMA Scaled ==
  ASSUME NEW a \in Nat, NEW b \in Nat, a <= b
  PROVE  /\ Resolution * (b - a) = Resolution * b - Resolution * a
         /\ Resolution * a \in Nat /\ Resolution * b \in Nat
         /\ Resolution * a <= Resolution * b
  BY ResolutionAssumption

\* No duration is beyond the horizon.
LEMMA WithinHorizon ==
  /\ Horizon \in Nat
  /\ \A t \in Durations : Resolution * t \in Nat /\ Resolution * t <= Horizon
<1>1. ASSUME NEW t \in Durations
      PROVE  Resolution * t \in Nat /\ Resolution * t <= Horizon
  BY Scaled, DurationAssumption DEF Durations, Horizon
<1>2. Horizon \in Nat
  BY ResolutionAssumption, DurationAssumption DEF Horizon
<1> QED BY <1>1, <1>2

\* What a poll of the runner books for a delay is no more than what went by
\* since the last poll.
LEMMA ElapsedIsReal ==
  ASSUME TypeOK
  PROVE  /\ Elapsed \in Nat
         /\ Resolution * Elapsed \in Nat
         /\ Resolution * Elapsed <= elapsed
<1>1. elapsed \in Nat
  BY WithinHorizon DEF TypeOK
<1>2. CASE backend = "paused"
  <2>1. Elapsed = 0
    BY <1>2 DEF Elapsed
  <2>2. Resolution * 0 = 0
    BY ResolutionAssumption
  <2> QED BY <1>1, <2>1, <2>2
<1>3. CASE backend # "paused"
  <2>1. Elapsed = elapsed \div Resolution
    BY <1>3 DEF Elapsed
  <2>2. Elapsed \in Nat /\ Resolution * Elapsed <= elapsed
    BY <1>1, <2>1, WholeUnits
  <2> QED BY <2>2, ResolutionAssumption
<1> QED BY <1>2, <1>3

\* A sleeping delay that expires with a poll has slept its time.
LEMMA ExpiredHaveSlept ==
  ASSUME TypeOK, BookedAtMost, OnlyLess,
         NEW d \in sleeping_timers, SaturatingSub(remaining[d], Elapsed) = 0
  PROVE  slept[d] >= Resolution * duration[d]
<1> DEFINE left == remaining[d]
           all  == duration[d]
<1>1. /\ left \in Nat /\ all \in Nat /\ left <= all
      /\ elapsed \in Nat /\ slept[d] \in Nat
  BY DurationAssumption, WithinHorizon DEF TypeOK, OnlyLess, Durations
<1>2. left <= Elapsed
  BY <1>1, ElapsedIsReal DEF SaturatingSub
<1>3. Resolution * left <= elapsed /\ Resolution * left \in Nat
  <2>1. Resolution * left <= Resolution * Elapsed /\ Resolution * left \in Nat
    BY <1>1, <1>2, ElapsedIsReal, Scaled
  <2> QED BY <1>1, <2>1, ElapsedIsReal
<1>4. Resolution * (all - left) = Resolution * all - Resolution * left /\ Resolution * all \in Nat
  BY <1>1, Scaled
<1>5. CASE slept[d] = Horizon
  BY <1>5, WithinHorizon DEF TypeOK
<1>6. CASE Resolution * (all - left) + elapsed <= slept[d]
  BY <1>1, <1>3, <1>4, <1>6
<1> QED BY <1>5, <1>6 DEF BookedAtMost

----------------------------------------------------------------------------
(* Counting the delays.                                                    *)

\* Only finitely many delays exist.
LEMMA ExistingFinite == IsFiniteSet(Existing)
  BY DelaysAssumption, FS_Subset DEF Existing

\* Making a delay adds one to the number that exist.
LEMMA OneMore ==
  ASSUME TypeOK, NEW d \in Delays, delay[d] = "none",
         delay' = [delay EXCEPT ![d] = "new"]
  PROVE  Cardinality(Existing') = Cardinality(Existing) + 1
<1>1. Existing' = Existing \cup {d}
  BY DEF Existing, TypeOK
<1>2. d \notin Existing
  BY DEF Existing
<1> QED BY <1>1, <1>2, ExistingFinite, FS_AddElement

\* Dropping one takes one away.
LEMMA OneLess ==
  ASSUME TypeOK, NEW d \in Delays, delay[d] # "none",
         delay' = [delay EXCEPT ![d] = "none"]
  PROVE  /\ Cardinality(Existing') = Cardinality(Existing) - 1
         /\ Cardinality(Existing) > 0
<1>1. Existing' = Existing \ {d}
  BY DEF Existing, TypeOK
<1>2. d \in Existing
  BY DEF Existing
<1>3. Cardinality(Existing') = Cardinality(Existing) - 1
  BY <1>1, <1>2, ExistingFinite, FS_RemoveElement
<1>4. Cardinality(Existing) \in Nat /\ Cardinality(Existing) # 0
  BY <1>2, ExistingFinite, FS_CardinalityType, FS_EmptySet
<1> QED BY <1>3, <1>4

\* A poll changes what a delay does and not how many there are.
LEMMA SameNumber ==
  ASSUME TypeOK, NEW d \in Delays, PollDelay(d)
  PROVE  Existing' = Existing
  BY DEF Existing, TypeOK, PollDelay, Installs

----------------------------------------------------------------------------
(* The invariant.                                                          *)

LEMMA InitEstablishes == Init => IInv
<1> SUFFICES ASSUME Init PROVE IInv
  OBVIOUS
<1>1. Existing = {}
  BY DEF Init, Existing
<1>2. Cardinality(Existing) = 0
  BY <1>1, FS_EmptySet
<1>3. TypeOK
  <2>1. timer_waker \in BOOLEAN /\ runner_woken \in BOOLEAN
    BY DEF Init
  <2>2. 0 \in Durations /\ 0 \in 0 .. Horizon /\ 0 \in 0 .. MaxHandles
    BY DurationAssumption, WithinHorizon, HandlesAssumption DEF Durations
  <2> QED BY <2>1, <2>2 DEF Init, TypeOK
<1>4. CountsReferences
  BY <1>2 DEF Init, CountsReferences
<1>5. ParkedOrTimedOut /\ BookedAtMost /\ NeverEarly
  BY DEF Init, ParkedOrTimedOut, BookedAtMost, NeverEarly
<1>6. NothingForgotten /\ RunnerHearsOfTheEnd /\ SleeperIsKnown /\ KnowsTheWait
  BY DEF Init, NothingForgotten, RunnerHearsOfTheEnd, SleeperIsKnown, KnowsTheWait
<1>7. NothingOutlivesTimer /\ UnsplitIsUnused
  BY <1>1 DEF Init, NothingOutlivesTimer, UnsplitIsUnused
<1>8. NewHaveAllTheirTime /\ OnlyLess
  BY DEF Init, NewHaveAllTheirTime, OnlyLess
<1> QED
  BY <1>3, <1>4, <1>5, <1>6, <1>7, <1>8 DEF IInv

\* When a reference goes there was one, and the rest of the count is kept.
LEMMA DropRefCounts ==
  ASSUME TypeOK, rc_delays > 0, DropRef
  PROVE  rc_delays' = rc_delays - 1 /\ rc_delays' \in Nat /\ runner_woken' \in BOOLEAN
  BY DEF TypeOK, DropRef, WakeRunner

\* The time to wait is a duration.
LEMMA NextWaitTypes ==
  ASSUME NEW kept \in SUBSET Delays, NEW left \in [Delays -> Durations], NextWait(kept, left)
  PROVE  wait' \in Durations
  BY DurationAssumption DEF NextWait, Durations

\* A step keeps the types, and the count exact with them.
LEMMA CountPreserved ==
  ASSUME IInv, Next
  PROVE  TypeOK' /\ CountsReferences'
<1> USE HandlesAssumption, WithinHorizon
    DEF TypeOK, CountsReferences, Running, Idle, IInv, backendVars, delayVars
<1>0. Cardinality(Existing) \in Nat
  BY ExistingFinite, FS_CardinalityType
<1>1. CASE Split
  <2>1. Existing' = Existing /\ Cardinality(Existing) = 0 /\ handles = 0
    BY <1>1, FS_EmptySet DEF Split, Existing, UnsplitIsUnused
  <2> QED BY <1>1, <2>1 DEF Split
<1>2. CASE CloneHandle
  <2>1. Existing' = Existing
    BY <1>2 DEF CloneHandle, Existing
  <2> QED BY <1>0, <1>2, <2>1 DEF CloneHandle
<1>3. CASE DropHandle
  <2>1. Existing' = Existing
    BY <1>3 DEF DropHandle, Existing
  <2>2. rc_delays' = rc_delays - 1 /\ rc_delays' \in Nat /\ runner_woken' \in BOOLEAN
    BY <1>0, <1>3, DropRefCounts DEF DropHandle
  <2> QED BY <1>0, <1>3, <2>1, <2>2 DEF DropHandle
<1>4. CASE Consume
  BY <1>4 DEF Consume, Existing
<1>5. CASE ConsumeTask
  BY <1>5 DEF ConsumeTask, Existing
<1>6. CASE DropTimer
  BY <1>6 DEF DropTimer, Existing
<1>7. ASSUME NEW d \in Delays, NEW t \in Durations, Delay(d, t)
      PROVE  TypeOK' /\ CountsReferences'
  <2>1. Cardinality(Existing') = Cardinality(Existing) + 1
    BY <1>7, OneMore DEF Delay
  <2>2. delay' \in [Delays -> {"none", "new", "pending", "done"}]
    BY <1>7 DEF Delay
  <2>3. remaining' \in [Delays -> Durations] /\ duration' \in [Delays -> Durations]
    BY <1>7 DEF Delay
  <2>4. slept' \in [Delays -> 0 .. Horizon]
    BY <1>7 DEF Delay
  <2> QED BY <1>0, <1>7, <2>1, <2>2, <2>3, <2>4 DEF Delay
<1>8. ASSUME NEW d \in Delays, PollDelay(d)
      PROVE  TypeOK' /\ CountsReferences'
  <2>1. Existing' = Existing
    BY <1>8, SameNumber
  <2>2. delay' \in [Delays -> {"none", "new", "pending", "done"}]
    BY <1>8 DEF PollDelay, Installs
  <2>3. runner_woken' \in BOOLEAN
    BY <1>8 DEF PollDelay, Installs, WakeRunner
  <2>4. installed' \subseteq Delays /\ new_timers' \subseteq Delays /\ woken' \subseteq Delays
    BY <1>8 DEF PollDelay, Installs
  <2> QED BY <1>0, <1>8, <2>1, <2>2, <2>3, <2>4 DEF PollDelay
<1>9. ASSUME NEW d \in Delays, DropDelay(d)
      PROVE  TypeOK' /\ CountsReferences'
  <2>1. Cardinality(Existing') = Cardinality(Existing) - 1 /\ Cardinality(Existing) > 0
    BY <1>9, OneLess DEF DropDelay
  <2>2. rc_delays' = rc_delays - 1 /\ rc_delays' \in Nat /\ runner_woken' \in BOOLEAN
    BY <1>0, <1>9, <2>1, DropRefCounts DEF DropDelay
  <2>3. delay' \in [Delays -> {"none", "new", "pending", "done"}]
    BY <1>9 DEF DropDelay
  <2>4. /\ installed' \subseteq Delays /\ new_timers' \subseteq Delays
        /\ sleeping_timers' \subseteq Delays /\ woken' \subseteq Delays
    BY <1>9 DEF DropDelay
  <2> QED BY <1>0, <1>9, <2>1, <2>2, <2>3, <2>4 DEF DropDelay
<1>10. CASE Run
  BY <1>10 DEF Run, Existing
<1>11. CASE DropRunner
  BY <1>11 DEF DropRunner, Existing
<1>12. CASE Tick
  <2>1. elapsed' \in 0 .. Horizon
    BY <1>12 DEF Tick, Later
  <2>2. slept' \in [Delays -> 0 .. Horizon]
    BY <1>12 DEF Tick, Later
  <2>3. Existing' = Existing
    BY <1>12 DEF Tick, Existing
  <2> QED BY <1>12, <2>1, <2>2, <2>3 DEF Tick
<1>13. CASE Fire
  <2>1. runner_woken' \in BOOLEAN
    BY <1>13 DEF Fire
  <2> QED BY <1>13, <2>1 DEF Fire, Existing
<1>14. CASE PollRunner
  <2>1. Existing' = Existing
    BY <1>14 DEF PollRunner, Existing
  <2>2. CASE Serves
    <3> DEFINE kept == (sleeping_timers \ Expired(Elapsed)) \cup Accepted
               left == [d \in Delays |-> IF d \in sleeping_timers
                                         THEN SaturatingSub(remaining[d], Elapsed)
                                         ELSE remaining[d]]
    <3>1. left \in [Delays -> Durations]
      BY DurationAssumption, ElapsedIsReal DEF SaturatingSub, Durations
    <3>2. Expired(Elapsed) \subseteq Delays /\ Accepted \subseteq Delays
      BY DEF Expired, Accepted
    <3>3. kept \subseteq Delays
      BY <3>2
    <3>4. /\ runner' = "polling" /\ timer_waker' = TRUE /\ remaining' = left
          /\ backend' = "paused"
          /\ installed' = installed \ Expired(Elapsed)
          /\ woken' = woken \cup Expired(Elapsed) \cup (new_timers \ Accepted)
          /\ sleeping_timers' = kept /\ new_timers' = {} /\ elapsed' = 0
          /\ NextWait(kept, left)
      BY <2>2 DEF Serves
    <3>5. wait' \in Durations
      BY <3>1, <3>3, <3>4, NextWaitTypes
    <3>6. timer_waker' \in BOOLEAN /\ runner_woken' \in BOOLEAN
      BY <1>14, <3>4 DEF PollRunner
    <3>7. /\ installed' \subseteq Delays /\ new_timers' \subseteq Delays
          /\ sleeping_timers' \subseteq Delays /\ woken' \subseteq Delays
      BY <3>2, <3>3, <3>4
    <3>8. remaining' \in [Delays -> Durations] /\ elapsed' \in 0 .. Horizon
      BY <3>1, <3>4
    <3>9. /\ timer' = timer /\ rc_delays' = rc_delays /\ handles' = handles
          /\ delay' = delay /\ duration' = duration /\ slept' = slept
      BY <1>14 DEF PollRunner
    <3> HIDE DEF left, kept
    <3> QED BY <2>1, <3>4, <3>5, <3>6, <3>7, <3>8, <3>9
  <2>3. CASE ~Serves
    BY <1>14, <2>1, <2>3 DEF PollRunner
  <2> QED BY <2>2, <2>3
<1>15. CASE WakeIn
  BY <1>15 DEF WakeIn, Existing
<1> QED
  BY <1>1, <1>2, <1>3, <1>4, <1>5, <1>6, <1>7, <1>8, <1>9, <1>10, <1>11, <1>12, <1>13, <1>14, <1>15
  DEF Next, Others

\* A poll of the runner books the time that has elapsed, wakes those whose
\* time it was, and takes the new ones over as they are.
LEMMA BooksServed ==
  ASSUME IInv, PollRunner
  PROVE  ParkedOrTimedOut' /\ BookedAtMost' /\ NeverEarly' /\ NewHaveAllTheirTime' /\ OnlyLess'
<1> USE DEF IInv
<1>1. /\ delay' = delay /\ duration' = duration /\ slept' = slept
  BY DEF PollRunner
<1>2. CASE ~Serves
  BY <1>1, <1>2
  DEF PollRunner, backendVars, ParkedOrTimedOut, BookedAtMost, NeverEarly, NewHaveAllTheirTime, OnlyLess
<1>3. CASE Serves
  <2> DEFINE e == Elapsed
  <2>1. /\ remaining' = [d \in Delays |-> IF d \in sleeping_timers
                                          THEN SaturatingSub(remaining[d], e) ELSE remaining[d]]
        /\ installed' = installed \ Expired(e)
        /\ woken' = woken \cup Expired(e) \cup (new_timers \ Accepted)
        /\ sleeping_timers' = (sleeping_timers \ Expired(e)) \cup Accepted
        /\ new_timers' = {} /\ elapsed' = 0
    BY <1>3 DEF Serves
  <2>2. Accepted = new_timers /\ new_timers \subseteq Delays
    BY DEF Accepted, ParkedOrTimedOut
  <2>3. e \in Nat /\ Resolution * e \in Nat /\ Resolution * e <= elapsed
    BY ElapsedIsReal
  <2>4. \A d \in Delays : /\ remaining[d] \in Nat /\ duration[d] \in Nat /\ slept[d] \in Nat
                          /\ remaining[d] <= duration[d]
    BY DurationAssumption, WithinHorizon DEF TypeOK, OnlyLess, Durations
  <2>5. \A d \in sleeping_timers \ Expired(e) : d \in Delays /\ remaining'[d] = remaining[d] - e /\ e < remaining[d]
    BY <2>1, <2>3, <2>4 DEF Expired, SaturatingSub, ParkedOrTimedOut
  <2>6. \A d \in Expired(e) : d \in Delays /\ remaining'[d] = 0 /\ SaturatingSub(remaining[d], e) = 0
    BY <2>1 DEF Expired, TypeOK
  <2>7. \A d \in Delays \ sleeping_timers : remaining'[d] = remaining[d]
    BY <2>1
  <2> HIDE DEF e
  <2>8. ParkedOrTimedOut'
    <3>1. (new_timers \cap sleeping_timers = {})' /\ (installed = new_timers \cup sleeping_timers)'
      BY <2>1, <2>2 DEF ParkedOrTimedOut, Expired
    <3>2. ASSUME NEW d \in installed'
          PROVE  d \in Delays /\ delay'[d] = "pending" /\ remaining'[d] # 0
      BY <1>1, <2>1, <2>2, <2>3, <2>4, <2>5, <2>7 DEF ParkedOrTimedOut
    <3>3. ASSUME NEW d \in Delays, delay'[d] = "pending", d \notin installed'
          PROVE  d \in woken' /\ remaining'[d] = 0
      <4>1. CASE d \in Expired(e)
        BY <2>1, <2>6, <4>1
      <4>2. CASE d \notin Expired(e)
        BY <1>1, <2>1, <2>7, <3>3, <4>2 DEF ParkedOrTimedOut
      <4> QED BY <4>1, <4>2
    <3> QED BY <3>1, <3>2, <3>3 DEF ParkedOrTimedOut
  <2>9. BookedAtMost'
    <3> SUFFICES ASSUME NEW d \in sleeping_timers'
                 PROVE  \/ Resolution * (duration[d] - remaining'[d]) + 0 <= slept[d]
                        \/ slept[d] = Horizon
      BY <1>1, <2>1 DEF BookedAtMost
    <3>1. CASE d \in new_timers
      <4>1. d \in Delays /\ remaining'[d] = duration[d]
        BY <2>2, <2>7, <3>1 DEF NewHaveAllTheirTime, ParkedOrTimedOut
      <4>2. Resolution * 0 = 0
        BY ResolutionAssumption
      <4> QED BY <2>4, <4>1, <4>2
    <3>2. CASE d \in sleeping_timers \ Expired(e)
      <4> DEFINE booked == duration[d] - remaining[d]
      <4>1. booked \in Nat /\ elapsed \in Nat
        BY <2>4, <2>5, <3>2, WithinHorizon DEF TypeOK
      <4>2. duration[d] - remaining'[d] = booked + e
        BY <2>3, <2>4, <2>5, <3>2
      <4>3. Resolution * (booked + e) = Resolution * booked + Resolution * e /\ Resolution * booked \in Nat
        BY <2>3, <4>1, ResolutionAssumption
      <4>4. Resolution * booked + elapsed <= slept[d] \/ slept[d] = Horizon
        BY <3>2 DEF BookedAtMost
      <4>5. slept[d] \in Nat
        BY <2>4, <2>5, <3>2
      <4> HIDE DEF booked
      <4> QED BY <2>3, <4>1, <4>2, <4>3, <4>4, <4>5
    <3> QED BY <2>1, <2>2, <3>1, <3>2
  <2>10. NeverEarly'
    <3> SUFFICES ASSUME NEW d \in Delays, delay[d] \in {"pending", "done"}, remaining'[d] = 0
                 PROVE  slept[d] >= Resolution * duration[d]
      BY <1>1 DEF NeverEarly
    <3>1. CASE d \in Expired(e)
      BY <2>6, <3>1, ExpiredHaveSlept DEF e, Expired
    <3>2. CASE d \in sleeping_timers \ Expired(e)
      BY <2>3, <2>4, <2>5, <3>2
    <3>3. CASE d \notin sleeping_timers
      BY <2>7, <3>3 DEF NeverEarly
    <3> QED BY <3>1, <3>2, <3>3
  <2>11. NewHaveAllTheirTime'
    <3>1. ASSUME NEW d \in Delays, delay[d] = "new"
          PROVE  d \notin sleeping_timers
      BY <3>1 DEF ParkedOrTimedOut
    <3> QED BY <1>1, <2>1, <2>7, <3>1 DEF NewHaveAllTheirTime
  <2>12. OnlyLess'
    <3> SUFFICES ASSUME NEW d \in Delays PROVE remaining'[d] <= duration[d]
      BY <1>1 DEF OnlyLess
    <3>1. CASE d \in Expired(e)
      BY <2>4, <2>6, <3>1
    <3>2. CASE d \in sleeping_timers \ Expired(e)
      BY <2>3, <2>4, <2>5, <3>2
    <3>3. CASE d \notin sleeping_timers
      BY <2>4, <2>7, <3>3
    <3> QED BY <3>1, <3>2, <3>3
  <2> QED BY <2>8, <2>9, <2>10, <2>11, <2>12
<1> QED BY <1>2, <1>3

\* So does every other step: only the clock moves time on, for the sleeping
\* delays as for the backend.
LEMMA BooksPreserved ==
  ASSUME IInv, Next
  PROVE  ParkedOrTimedOut' /\ BookedAtMost' /\ NeverEarly' /\ NewHaveAllTheirTime' /\ OnlyLess'
<1> USE DEF IInv, backendVars, delayVars, ParkedOrTimedOut, BookedAtMost, NeverEarly,
            NewHaveAllTheirTime, OnlyLess
<1>1. CASE Split \/ CloneHandle \/ DropHandle \/ Consume \/ ConsumeTask \/ DropTimer
           \/ Run \/ DropRunner \/ WakeIn \/ Fire
  BY <1>1 DEF Split, CloneHandle, DropHandle, Consume, ConsumeTask, DropTimer, Run, DropRunner,
              WakeIn, Fire
<1>2. ASSUME NEW d \in Delays, NEW t \in Durations, Delay(d, t)
      PROVE  ParkedOrTimedOut' /\ BookedAtMost' /\ NeverEarly' /\ NewHaveAllTheirTime' /\ OnlyLess'
  <2>1. /\ d \notin installed /\ d \notin new_timers /\ d \notin sleeping_timers
        /\ delay' = [delay EXCEPT ![d] = "new"]
        /\ remaining' = [remaining EXCEPT ![d] = t]
        /\ duration' = [duration EXCEPT ![d] = t]
        /\ slept' = [slept EXCEPT ![d] = 0]
        /\ installed' = installed /\ new_timers' = new_timers
        /\ sleeping_timers' = sleeping_timers /\ woken' = woken /\ elapsed' = elapsed
    BY <1>2 DEF Delay
  <2>2. /\ delay'[d] = "new" /\ remaining'[d] = t /\ duration'[d] = t /\ slept'[d] = 0 /\ t <= t
    BY <2>1, DurationAssumption DEF TypeOK, Durations
  <2>3. \A x \in Delays \ {d} : /\ delay'[x] = delay[x] /\ remaining'[x] = remaining[x]
                                /\ duration'[x] = duration[x] /\ slept'[x] = slept[x]
    BY <2>1 DEF TypeOK
  <2>4. ParkedOrTimedOut'
    BY <2>1, <2>2, <2>3
  <2>5. BookedAtMost'
    BY <2>1, <2>3
  <2>6. NeverEarly' /\ NewHaveAllTheirTime' /\ OnlyLess'
    BY <2>1, <2>2, <2>3
  <2> QED BY <2>4, <2>5, <2>6
<1>3. ASSUME NEW d \in Delays, PollDelay(d)
      PROVE  ParkedOrTimedOut' /\ BookedAtMost' /\ NeverEarly' /\ NewHaveAllTheirTime' /\ OnlyLess'
  <2>1. /\ remaining' = remaining /\ duration' = duration /\ slept' = slept /\ elapsed' = elapsed
        /\ sleeping_timers' = sleeping_timers /\ woken' = woken \ {d}
        /\ delay[d] \in {"new", "pending"}
    BY <1>3 DEF PollDelay
  <2>2. CASE d \in installed
    <3>1. delay' = delay /\ new_timers' = new_timers /\ installed' = installed
      BY <1>3, <2>2 DEF PollDelay
    <3> QED BY <2>1, <2>2, <3>1
  <2>3. CASE d \notin installed /\ remaining[d] # 0
    <3>1. /\ delay' = [delay EXCEPT ![d] = "pending"]
          /\ new_timers' = new_timers \cup {d} /\ installed' = installed \cup {d}
      BY <1>3, <2>3 DEF PollDelay, Installs
    <3>2. delay'[d] = "pending" /\ \A x \in Delays \ {d} : delay'[x] = delay[x]
      BY <3>1 DEF TypeOK
    <3>3. delay[d] = "new"
      BY <2>1, <2>3
    <3> QED BY <2>1, <2>3, <3>1, <3>2, <3>3
  <2>4. CASE d \notin installed /\ remaining[d] = 0
    <3>1. /\ delay' = [delay EXCEPT ![d] = "done"]
          /\ new_timers' = new_timers /\ installed' = installed
      BY <1>3, <2>4 DEF PollDelay
    <3>2. delay'[d] = "done" /\ \A x \in Delays \ {d} : delay'[x] = delay[x]
      BY <3>1 DEF TypeOK
    <3>3. delay[d] = "new" => slept[d] >= Resolution * duration[d]
      <4>1. Resolution * 0 = 0 /\ 0 >= 0
        BY ResolutionAssumption
      <4>2. delay[d] = "new" => slept[d] = 0 /\ duration[d] = 0
        BY <2>4
      <4> QED BY <4>1, <4>2
    <3>4. NeverEarly'
      BY <2>1, <2>4, <3>2, <3>3
    <3>5. ParkedOrTimedOut'
      BY <2>1, <2>4, <3>1, <3>2
    <3>6. BookedAtMost' /\ NewHaveAllTheirTime' /\ OnlyLess'
      BY <2>1, <3>1, <3>2
    <3> QED BY <3>4, <3>5, <3>6
  <2> QED BY <2>2, <2>3, <2>4
<1>4. ASSUME NEW d \in Delays, DropDelay(d)
      PROVE  ParkedOrTimedOut' /\ BookedAtMost' /\ NeverEarly' /\ NewHaveAllTheirTime' /\ OnlyLess'
  <2>1. /\ delay' = [delay EXCEPT ![d] = "none"]
        /\ remaining' = remaining /\ duration' = duration /\ slept' = slept /\ elapsed' = elapsed
        /\ installed' = installed \ {d} /\ new_timers' = new_timers \ {d}
        /\ sleeping_timers' = sleeping_timers \ {d} /\ woken' = woken \ {d}
    BY <1>4 DEF DropDelay
  <2>2. delay'[d] = "none" /\ \A x \in Delays \ {d} : delay'[x] = delay[x]
    BY <2>1 DEF TypeOK
  <2> QED BY <2>1, <2>2
<1>5. CASE Tick
  <2>1. /\ delay' = delay /\ remaining' = remaining /\ duration' = duration
        /\ installed' = installed /\ new_timers' = new_timers
        /\ sleeping_timers' = sleeping_timers /\ woken' = woken
    BY <1>5 DEF Tick
  <2>2. elapsed \in Nat /\ Horizon \in Nat /\ elapsed' \in Nat /\ elapsed' <= elapsed + 1
    BY <1>5, WithinHorizon DEF Tick, Later, TypeOK
  <2>3. \A d \in Delays :
          /\ slept[d] \in 0 .. Horizon
          /\ d \in sleeping_timers => slept'[d] = IF slept[d] < Horizon THEN slept[d] + 1 ELSE slept[d]
          /\ d \notin sleeping_timers => slept'[d] = slept[d]
    BY <1>5 DEF Tick, Later, TypeOK
  <2>4. BookedAtMost'
    <3> SUFFICES ASSUME NEW d \in sleeping_timers
                 PROVE  \/ Resolution * (duration[d] - remaining[d]) + elapsed' <= slept'[d]
                        \/ slept'[d] = Horizon
      BY <2>1
    <3> DEFINE booked == Resolution * (duration[d] - remaining[d])
    <3>1. d \in Delays /\ duration[d] - remaining[d] \in Int
      BY DurationAssumption DEF TypeOK, Durations
    <3>2. booked \in Int
      BY <3>1, ResolutionAssumption
    <3>3. booked + elapsed <= slept[d] \/ slept[d] = Horizon
      OBVIOUS
    <3> HIDE DEF booked
    <3>4. booked + elapsed' <= slept'[d] \/ slept'[d] = Horizon
      BY <2>2, <2>3, <3>1, <3>2, <3>3
    <3> QED BY <3>4 DEF booked
  <2>5. NeverEarly'
    <3> SUFFICES ASSUME NEW d \in Delays, delay[d] \in {"pending", "done"}, remaining[d] = 0
                 PROVE  slept'[d] >= Resolution * duration[d]
      BY <2>1
    <3>1. slept[d] >= Resolution * duration[d] /\ Resolution * duration[d] \in Nat
      BY WithinHorizon DEF TypeOK
    <3>2. slept'[d] >= slept[d] /\ slept'[d] \in Nat /\ slept[d] \in Nat
      BY <2>2, <2>3
    <3> QED BY <3>1, <3>2
  <2>6. NewHaveAllTheirTime'
    BY <2>1, <2>3
  <2>7. ParkedOrTimedOut' /\ OnlyLess'
    BY <2>1
  <2> QED BY <2>4, <2>5, <2>6, <2>7
<1>6. CASE PollRunner
  BY <1>6, BooksServed
<1> QED
  BY <1>1, <1>2, <1>3, <1>4, <1>5, <1>6 DEF Next, Others

\* Whatever makes work for a sleeping runner wakes it: a new delay, the end of
\* the last reference, and the backend it armed for the first to expire. While
\* it is polled nobody makes work for it.
LEMMA WakingPreserved ==
  ASSUME IInv, Next
  PROVE  NothingForgotten' /\ RunnerHearsOfTheEnd' /\ SleeperIsKnown' /\ KnowsTheWait'
<1> USE DEF IInv, backendVars, delayVars, Running, Idle, NothingForgotten, RunnerHearsOfTheEnd,
            SleeperIsKnown, KnowsTheWait
<1>1. CASE Split \/ CloneHandle \/ Consume \/ ConsumeTask \/ DropTimer \/ Run \/ DropRunner \/ Tick \/ Fire
  <2>1. CASE CloneHandle
    BY <2>1 DEF CloneHandle, TypeOK
  <2>2. CASE DropTimer
    BY <2>2 DEF DropTimer
  <2>3. CASE Fire
    BY <2>3 DEF Fire
  <2>4. CASE Tick
    BY <2>4 DEF Tick
  <2> QED BY <1>1, <2>1, <2>2, <2>3, <2>4 DEF Split, Consume, ConsumeTask, Run, DropRunner
<1>2. ASSUME rc_delays > 0, DropRef
      PROVE  /\ rc_delays' = 0 /\ runner = "pending" => runner_woken'
             /\ runner_woken => runner_woken'
  BY <1>2 DEF DropRef, WakeRunner, TypeOK
<1>3. CASE DropHandle
  <2>1. rc_delays > 0
    BY <1>3, ExistingFinite, FS_CardinalityType DEF DropHandle, CountsReferences, TypeOK
  <2> QED BY <1>2, <1>3, <2>1 DEF DropHandle
<1>4. ASSUME NEW d \in Delays, NEW t \in Durations, Delay(d, t)
      PROVE  NothingForgotten' /\ RunnerHearsOfTheEnd' /\ SleeperIsKnown' /\ KnowsTheWait'
  <2>1. rc_delays' # 0
    BY <1>4 DEF Delay, TypeOK
  <2>2. \A x \in sleeping_timers : remaining'[x] = remaining[x]
    BY <1>4 DEF Delay, ParkedOrTimedOut, TypeOK
  <2> QED BY <1>4, <2>1, <2>2 DEF Delay
<1>5. ASSUME NEW d \in Delays, PollDelay(d)
      PROVE  NothingForgotten' /\ RunnerHearsOfTheEnd' /\ SleeperIsKnown' /\ KnowsTheWait'
  <2>1. /\ timer' = timer /\ backend' = backend /\ wait' = wait /\ timer_waker' = timer_waker
        /\ rc_delays' = rc_delays /\ runner' = runner /\ runner # "polling"
        /\ remaining' = remaining /\ sleeping_timers' = sleeping_timers
    BY <1>5 DEF PollDelay
  <2>2. CASE Installs(d)
    <3>1. runner = "pending" => runner_woken'
      BY <2>2 DEF Installs, WakeRunner
    <3> QED BY <2>1, <3>1
  <2>3. CASE ~Installs(d)
    BY <1>5, <2>1, <2>3 DEF PollDelay
  <2> QED BY <2>2, <2>3
<1>6. ASSUME NEW d \in Delays, DropDelay(d)
      PROVE  NothingForgotten' /\ RunnerHearsOfTheEnd' /\ SleeperIsKnown' /\ KnowsTheWait'
  <2>1. rc_delays > 0
    <3>1. d \in Existing /\ Running
      BY <1>6 DEF DropDelay, Existing
    <3>2. Cardinality(Existing) \in Nat /\ Cardinality(Existing) # 0
      BY <3>1, ExistingFinite, FS_CardinalityType, FS_EmptySet
    <3> QED BY <3>1, <3>2 DEF CountsReferences, TypeOK
  <2> QED BY <1>2, <1>6, <2>1 DEF DropDelay
<1>7. CASE PollRunner
  <2>1. CASE Serves
    <3>1. rc_delays' # 0 /\ runner' = "polling" /\ backend' = "paused" /\ timer_waker' /\ new_timers' = {}
      BY <1>7, <2>1 DEF PollRunner, Serves
    <3>2. NextWait(sleeping_timers', remaining')
      BY <2>1 DEF Serves
    <3>3. \A d \in sleeping_timers' : wait' <= remaining'[d]
      BY <3>2 DEF NextWait
    <3>4. sleeping_timers' # {} => wait' # 0
      <4>1. \A d \in sleeping_timers' : remaining'[d] # 0
        BY <1>7, BooksServed DEF ParkedOrTimedOut
      <4> QED BY <3>2, <4>1 DEF NextWait
    <3> QED BY <3>1, <3>3, <3>4
  <2>2. CASE ~Serves
    BY <1>7, <2>2 DEF PollRunner
  <2> QED BY <2>1, <2>2
<1>8. CASE WakeIn
  BY <1>8 DEF WakeIn
<1> QED
  BY <1>1, <1>3, <1>4, <1>5, <1>6, <1>7, <1>8 DEF Next, Others

\* The backend leaves only a timer that has no runner, and the timer goes in
\* peace only after everything else.
LEMMA EndsPreserved ==
  ASSUME IInv, Next
  PROVE  NothingOutlivesTimer' /\ UnsplitIsUnused'
<1> USE DEF IInv, backendVars, delayVars, Running, Idle, NothingOutlivesTimer, UnsplitIsUnused,
            Existing
<1>1. CASE Split \/ CloneHandle \/ DropHandle \/ Consume \/ ConsumeTask \/ Run \/ DropRunner
           \/ Tick \/ WakeIn \/ Fire
  BY <1>1 DEF Split, CloneHandle, DropHandle, Consume, ConsumeTask, Run, DropRunner, Tick, WakeIn,
              Fire, TypeOK
<1>2. CASE DropTimer
  <2>1. CASE rc_delays = 0
    <3>1. handles = 0 /\ Cardinality(Existing) = 0
      BY <1>2, <2>1, ExistingFinite, FS_CardinalityType DEF DropTimer, CountsReferences, TypeOK
    <3>2. Existing = {}
      BY <3>1, ExistingFinite, FS_EmptySet
    <3> QED BY <1>2, <3>1, <3>2 DEF DropTimer
  <2>2. CASE rc_delays # 0
    BY <1>2, <2>2 DEF DropTimer
  <2> QED BY <2>1, <2>2
<1>3. ASSUME NEW d \in Delays, NEW t \in Durations, Delay(d, t)
      PROVE  NothingOutlivesTimer' /\ UnsplitIsUnused'
  BY <1>3 DEF Delay, TypeOK
<1>4. ASSUME NEW d \in Delays, PollDelay(d)
      PROVE  NothingOutlivesTimer' /\ UnsplitIsUnused'
  <2>1. Existing' = Existing /\ d \in Existing
    BY <1>4, SameNumber DEF PollDelay
  <2> QED BY <1>4, <2>1 DEF PollDelay
<1>5. ASSUME NEW d \in Delays, DropDelay(d)
      PROVE  NothingOutlivesTimer' /\ UnsplitIsUnused'
  <2>1. d \in Existing
    BY <1>5 DEF DropDelay
  <2> QED BY <1>5, <2>1 DEF DropDelay
<1>6. CASE PollRunner
  <2>1. /\ timer' = timer /\ handles' = handles /\ delay' = delay /\ rc_delays' = rc_delays
        /\ runner' \in {"polling", "task"} /\ runner \in {"new", "pending"}
    BY <1>6 DEF PollRunner, Serves
  <2>2. backend' \in {backend, "paused"}
    BY <1>6 DEF PollRunner, Serves
  <2> QED BY <2>1, <2>2
<1> QED
  BY <1>1, <1>2, <1>3, <1>4, <1>5, <1>6 DEF Next, Others

\* The invariant holds of every reachable state.
THEOREM Invariance == Spec => []IInv
<1>1. IInv /\ [Next]_vars => IInv'
  <2> SUFFICES ASSUME IInv, [Next]_vars PROVE IInv'
    OBVIOUS
  <2>1. CASE Next
    BY <2>1, CountPreserved, BooksPreserved, WakingPreserved, EndsPreserved DEF IInv
  <2>2. CASE UNCHANGED vars
    BY <2>2 DEF vars, backendVars, delayVars, IInv, TypeOK, ParkedOrTimedOut, BookedAtMost,
      NeverEarly, NothingForgotten, RunnerHearsOfTheEnd, CountsReferences, NothingOutlivesTimer,
      UnsplitIsUnused, SleeperIsKnown, KnowsTheWait, NewHaveAllTheirTime, OnlyLess, Existing, Running
  <2> QED BY <2>1, <2>2
<1> QED BY <1>1, InitEstablishes, PTL DEF Spec

----------------------------------------------------------------------------
(* What follows.                                                           *)

\* The variables keep their types: the subtractions of the runner stay in the
\* durations, and the count of references does not drop below zero.
THEOREM TypeCorrectness == Spec => []TypeOK
<1>1. IInv => TypeOK
  BY DEF IInv
<1> QED BY <1>1, Invariance, PTL

\* No delay ends before its time, whatever the resolution of the clock and
\* however often other delays made the runner pause the backend.
THEOREM DelaysAreNotEarly == Spec => []NeverEarly
<1>1. IInv => NeverEarly
  BY DEF IInv
<1> QED BY <1>1, Invariance, PTL

\* A delay that waits is in exactly one list with its waker, one that does not
\* was woken.
THEOREM DelaysAreListed == Spec => []ParkedOrTimedOut
<1>1. IInv => ParkedOrTimedOut
  BY DEF IInv
<1> QED BY <1>1, Invariance, PTL

\* The runner never sleeps past a delay: it has been woken for the new ones,
\* and for the sleeping ones the backend is armed early enough.
THEOREM NobodyForgotten == Spec => []NothingForgotten
<1>1. IInv => NothingForgotten
  BY DEF IInv
<1> QED BY <1>1, Invariance, PTL

\* Nor does it sleep past the end of the last handle, which may be the field
\* of a delay that is dropped.
THEOREM TheEndIsHeard == Spec => []RunnerHearsOfTheEnd
<1>1. IInv => RunnerHearsOfTheEnd
  BY DEF IInv
<1> QED BY <1>1, Invariance, PTL

\* The count of references is exact, so a timer that is dropped without a
\* panic leaves nobody behind, and a runner always has a backend.
THEOREM ReferencesAreSafe == Spec => [](CountsReferences /\ NothingOutlivesTimer)
<1>1. IInv => CountsReferences /\ NothingOutlivesTimer
  BY DEF IInv
<1> QED BY <1>1, Invariance, PTL

----------------------------------------------------------------------------
(* Where time is lost.                                                     *)

\* But for the polls of the runner the clock of the backend runs while
\* somebody sleeps, and nobody does before the runner has been polled.
ClockRuns ==
  /\ Idle /\ sleeping_timers # {} => backend \in {"armed", "spent"}
  /\ runner \in {"none", "task", "new"} => sleeping_timers = {}

\* Without references there is no delay that could sleep.
LEMMA NobodySleepsUncounted ==
  ASSUME IInv, Running, rc_delays = 0
  PROVE  sleeping_timers = {}
<1> USE DEF IInv
<1>1. Cardinality(Existing) = 0
  BY ExistingFinite, FS_CardinalityType DEF CountsReferences, TypeOK
<1>2. Existing = {}
  BY <1>1, ExistingFinite, FS_EmptySet
<1> QED BY <1>2 DEF ParkedOrTimedOut, Existing

\* Only a runner without delays and a dropped timer lose the backend, and only
\* a poll that finds nobody asleep leaves it paused when it ends.
LEMMA ClockKeepsRunning ==
  ASSUME IInv, ClockRuns, Next
  PROVE  ClockRuns'
<1> USE DEF IInv, ClockRuns, Running, Idle, backendVars, delayVars
<1>1. CASE Split \/ CloneHandle \/ DropHandle \/ Run \/ DropRunner \/ Tick \/ Fire
  BY <1>1 DEF Split, CloneHandle, DropHandle, Run, DropRunner, Tick, Fire
<1>2. CASE Consume \/ ConsumeTask \/ DropTimer
  BY <1>2, NobodySleepsUncounted DEF Consume, ConsumeTask, DropTimer
<1>3. ASSUME NEW d \in Delays, (\E t \in Durations : Delay(d, t)) \/ PollDelay(d) \/ DropDelay(d)
      PROVE  ClockRuns'
  <2>1. /\ timer' = timer /\ backend' = backend /\ runner' = runner
        /\ sleeping_timers' \subseteq sleeping_timers
    BY <1>3 DEF Delay, PollDelay, DropDelay
  <2> QED BY <2>1
<1>4. CASE PollRunner /\ Serves
  BY <1>4 DEF Serves
<1>5. CASE PollRunner /\ ~Serves
  <2>1. rc_delays = 0 /\ timer' = timer /\ sleeping_timers' = sleeping_timers /\ Running
    BY <1>5 DEF PollRunner
  <2> QED BY <2>1, NobodySleepsUncounted
<1>6. CASE WakeIn
  BY <1>6 DEF WakeIn, KnowsTheWait
<1> QED
  BY <1>1, <1>2, <1>3, <1>4, <1>5, <1>6 DEF Next, Others

\* What is left over when a time is taken in whole units is less than a unit.
LEMMA LessThanAUnit ==
  ASSUME NEW n \in Nat
  PROVE  n - Resolution * (n \div Resolution) < Resolution
  BY ResolutionAssumption

\* The values that the books are made of are numbers.
LEMMA BooksAreNumbers ==
  ASSUME TypeOK
  PROVE  /\ elapsed \in Nat
         /\ \A d \in Delays : /\ remaining[d] \in Nat /\ duration[d] \in Nat /\ slept[d] \in Nat
                               /\ Resolution * (duration[d] - remaining[d]) \in Int
<1>1. /\ elapsed \in Nat
      /\ \A d \in Delays : remaining[d] \in Nat /\ duration[d] \in Nat /\ slept[d] \in Nat
  BY DurationAssumption, WithinHorizon DEF TypeOK, Durations
<1> QED BY <1>1, ResolutionAssumption

\* A pause tells of all whole units that the delay has slept and that were not
\* booked yet, so with them booked it is behind by the rest of a unit more.
LEMMA PauseLosesLittle ==
  ASSUME IInv, ClockRuns, PollRunner, Serves, NEW d \in sleeping_timers \cap sleeping_timers'
  PROVE  Behind(d)' < Behind(d) + Resolution
<1> USE DEF IInv
<1> DEFINE e == elapsed \div Resolution
           booked == duration[d] - remaining[d]
<1>1. d \in Delays /\ d \notin new_timers
  BY DEF TypeOK, ParkedOrTimedOut
<1>2. backend \in {"armed", "spent"}
  BY DEF ClockRuns, Idle, PollRunner
<1>3. Elapsed = e
  BY <1>2 DEF Elapsed
<1>4. e \in Nat /\ elapsed - Resolution * e < Resolution
  BY BooksAreNumbers, WholeUnits, LessThanAUnit
<1>5. remaining'[d] = remaining[d] - e
  <2>1. d \notin Expired(Elapsed)
    BY <1>1 DEF Serves, Accepted
  <2>2. remaining'[d] = SaturatingSub(remaining[d], e)
    BY <1>1, <1>3 DEF Serves
  <2>3. remaining[d] \in Nat /\ remaining[d] # 0
    BY <1>1, BooksAreNumbers DEF ParkedOrTimedOut
  <2> HIDE DEF e
  <2> QED BY <1>3, <1>4, <2>1, <2>2, <2>3 DEF Expired, SaturatingSub
<1>6. elapsed' = 0 /\ duration' = duration /\ slept' = slept
  BY DEF Serves, PollRunner
<1>7. /\ elapsed \in Nat /\ slept[d] \in Nat /\ booked \in Int
      /\ duration[d] \in Nat /\ remaining[d] \in Nat
  BY <1>1, BooksAreNumbers
<1> HIDE DEF e
<1>8. duration'[d] - remaining'[d] = booked + e
  BY <1>4, <1>5, <1>6, <1>7
<1> HIDE DEF booked
<1>9. Resolution * (booked + e) = Resolution * booked + Resolution * e
      /\ Resolution * booked \in Int /\ Resolution * e \in Int
  BY <1>4, <1>7, ResolutionAssumption
<1>10. Behind(d)' = slept[d] - (Resolution * booked + Resolution * e)
  BY <1>6, <1>7, <1>8, <1>9 DEF Behind
<1>11. Behind(d) = slept[d] - (Resolution * booked + elapsed)
  BY DEF Behind, booked
<1> QED BY <1>4, <1>7, <1>9, <1>10, <1>11, ResolutionAssumption

\* A tick between the polls passes for the sleeping and the backend alike.
LEMMA TicksAreCounted ==
  ASSUME IInv, ClockRuns, Tick, runner # "polling",
         NEW d \in sleeping_timers, slept'[d] < Horizon
  PROVE  Behind(d)' = Behind(d)
<1> USE DEF IInv
<1>1. d \in Delays
  BY DEF TypeOK
<1>2. backend \in {"armed", "spent"}
  BY DEF ClockRuns, Idle, Tick
<1>3. elapsed' = Later(elapsed) /\ slept'[d] = Later(slept[d])
  BY <1>1, <1>2 DEF Tick, TypeOK
<1>4. remaining' = remaining /\ duration' = duration
  BY DEF Tick
<1>5. Horizon \in Nat /\ elapsed <= Horizon /\ slept[d] <= Horizon
  BY <1>1, WithinHorizon DEF TypeOK
<1> DEFINE booked == Resolution * (duration[d] - remaining[d])
<1>6. elapsed \in Nat /\ slept[d] \in Nat /\ booked \in Nat
  <2>1. duration[d] - remaining[d] \in Nat
    BY <1>1, BooksAreNumbers DEF OnlyLess
  <2> QED BY <1>1, <2>1, BooksAreNumbers, ResolutionAssumption
<1>7. slept[d] < Horizon /\ slept'[d] = slept[d] + 1
  BY <1>3, <1>5, <1>6 DEF Later
<1>8. booked + elapsed <= slept[d]
  BY <1>5, <1>6, <1>7 DEF BookedAtMost
<1>9. Behind(d) = slept[d] - (booked + elapsed) /\ Behind(d)' = slept'[d] - (booked + elapsed')
  BY <1>4 DEF Behind
<1> HIDE DEF booked
<1>10. elapsed' = elapsed + 1
  BY <1>3, <1>5, <1>6, <1>7, <1>8 DEF Later
<1> QED BY <1>6, <1>7, <1>9, <1>10

\* No step outside the polls loses time, but for the rounding of a pause.
LEMMA LittleIsLost ==
  ASSUME IInv, ClockRuns, [Next]_vars,
         NEW d \in sleeping_timers \cap sleeping_timers', runner # "polling", slept'[d] < Horizon
  PROVE  Behind(d)' < Behind(d) + IF runner' = "polling" THEN Resolution ELSE 1
<1> USE DEF IInv
<1>1. d \in Delays /\ Behind(d) \in Int
  <2>1. d \in Delays
    BY DEF TypeOK
  <2> QED BY <2>1, BooksAreNumbers DEF Behind
<1>2. ASSUME Behind(d)' = Behind(d)
      PROVE  Behind(d)' < Behind(d) + IF runner' = "polling" THEN Resolution ELSE 1
  BY <1>1, <1>2, ResolutionAssumption
<1>3. ASSUME /\ remaining'[d] = remaining[d] /\ duration'[d] = duration[d]
             /\ slept'[d] = slept[d] /\ elapsed' = elapsed
      PROVE  Behind(d)' = Behind(d)
  BY <1>3 DEF Behind
<1>4. CASE Split \/ CloneHandle \/ DropHandle \/ Consume \/ ConsumeTask \/ DropTimer
           \/ Run \/ DropRunner \/ WakeIn \/ Fire \/ UNCHANGED vars
  BY <1>2, <1>3, <1>4
  DEF Split, CloneHandle, DropHandle, Consume, ConsumeTask, DropTimer, Run, DropRunner, WakeIn, Fire,
      vars, backendVars, delayVars
<1>5. ASSUME NEW x \in Delays, NEW t \in Durations, Delay(x, t)
      PROVE  Behind(d)' = Behind(d)
  <2>1. d # x
    BY <1>5 DEF Delay, ParkedOrTimedOut
  <2> QED BY <1>1, <1>3, <1>5, <2>1 DEF Delay, TypeOK, backendVars
<1>6. ASSUME NEW x \in Delays, PollDelay(x) \/ DropDelay(x)
      PROVE  Behind(d)' = Behind(d)
  BY <1>3, <1>6 DEF PollDelay, DropDelay, backendVars
<1>7. CASE Tick
  BY <1>2, <1>7, TicksAreCounted
<1>8. CASE PollRunner /\ Serves
  <2>1. runner' = "polling"
    BY <1>8 DEF Serves
  <2> QED BY <1>8, <2>1, PauseLosesLittle
<1>9. CASE PollRunner /\ ~Serves
  BY <1>2, <1>3, <1>9 DEF PollRunner, backendVars
<1> QED
  BY <1>2, <1>4, <1>5, <1>6, <1>7, <1>8, <1>9 DEF Next, Others

\* A sleeping delay loses time only while the runner is polled and, by less
\* than a unit, when the poll begins. With one tick a unit that is nothing.
THEOREM TimeIsLostOnlyInPolls == Spec => BooksKeepUp
<1>1. Init => ClockRuns
  BY DEF Init, ClockRuns
<1>2. IInv /\ ClockRuns /\ [Next]_vars => ClockRuns'
  <2> SUFFICES ASSUME IInv, ClockRuns, [Next]_vars PROVE ClockRuns'
    OBVIOUS
  <2>1. CASE UNCHANGED vars
    BY <2>1 DEF vars, backendVars, delayVars, ClockRuns, Idle, Running
  <2> QED BY <2>1, ClockKeepsRunning
<1>3. IInv /\ ClockRuns /\ [Next]_vars =>
        [\A d \in sleeping_timers \cap sleeping_timers' :
           runner # "polling" /\ slept'[d] < Horizon =>
             Behind(d)' < Behind(d) + IF runner' = "polling" THEN Resolution ELSE 1]_vars
  BY LittleIsLost
<1> QED BY <1>1, <1>2, <1>3, Invariance, PTL DEF Spec, BooksKeepUp

----------------------------------------------------------------------------
(* The abstract timer, for every resolution.                               *)

Left(d) == SaturatingSub(Resolution * duration[d], slept[d])

LEMMA LeftTypes ==
  ASSUME TypeOK, NEW d \in Delays
  PROVE  /\ Left(d) \in 0 .. Horizon
         /\ Left(d) = 0 <=> slept[d] >= Resolution * duration[d]
<1>1. Resolution * duration[d] \in Nat /\ Resolution * duration[d] <= Horizon /\ Horizon \in Nat
  BY WithinHorizon DEF TypeOK
<1>2. slept[d] \in Nat
  BY WithinHorizon DEF TypeOK
<1> QED BY <1>1, <1>2 DEF Left, SaturatingSub

\* A poll of the runner is one of the abstract server: every new delay gets a
\* clock of its own, and those that end have run down.
LEMMA PollServes ==
  ASSUME IInv, PollRunner, Serves
  PROVE  \E some \in SUBSET Delays : Abstract!Serve(some)
<1> USE DEF IInv
<1> DEFINE ended == Expired(Elapsed)
<1>1. /\ sleeping_timers' = (sleeping_timers \ ended) \cup new_timers
      /\ new_timers' = {} /\ runner' = "polling"
  <2>1. Accepted = new_timers
    BY DEF Accepted, ParkedOrTimedOut
  <2> QED BY <2>1 DEF Serves
<1>2. /\ timer' = timer /\ rc_delays' = rc_delays /\ duration' = duration /\ slept' = slept
      /\ Running /\ runner \in {"new", "pending"}
  BY DEF PollRunner
<1>3. ended \subseteq sleeping_timers /\ sleeping_timers \subseteq Delays /\ new_timers \subseteq Delays
  BY DEF Expired, TypeOK
<1>4. \A d \in ended : Left(d) = 0
  BY <1>3, ExpiredHaveSlept, LeftTypes DEF Expired
<1>5. \A d \in new_timers : Left(d) \in 1 .. Horizon
  <2> SUFFICES ASSUME NEW d \in new_timers PROVE Left(d) \in 1 .. Horizon
    OBVIOUS
  <2>1. d \in Delays /\ slept[d] = 0 /\ duration[d] # 0 /\ duration[d] \in Nat
    BY <1>3, DurationAssumption DEF NewHaveAllTheirTime, ParkedOrTimedOut, TypeOK, Durations
  <2>2. Resolution * duration[d] > 0
    BY <2>1, ResolutionAssumption
  <2>3. Left(d) \in 0 .. Horizon /\ Left(d) # 0
    BY <2>1, <2>2, LeftTypes, ResolutionAssumption
  <2> QED BY <2>3, WithinHorizon
<1>6. Abstract!Serve(ended)
  <2> DEFINE left == [d \in sleeping_timers |-> Left(d)]
             time == [d \in new_timers |-> Left(d)]
  <2>1. time \in [new_timers -> 1 .. Horizon]
    BY <1>5
  <2>2. [d \in sleeping_timers |-> Left(d)]'
          = [d \in (DOMAIN left \ ended) \cup new_timers |-> IF d \in new_timers THEN time[d] ELSE left[d]]
    BY <1>1, <1>2 DEF Left
  <2>3. ended \subseteq {d \in DOMAIN left : left[d] = 0}
    BY <1>3, <1>4
  <2>4. Running' /\ Served /\ Served'
    BY <1>1, <1>2 DEF Running, Served
  <2> QED BY <1>1, <1>2, <2>1, <2>2, <2>3, <2>4, ZenonT(40) DEF Abstract!Serve, Left, Served
<1> QED BY <1>3, <1>6

\* Who is in a list holds a reference, so the last one leaves no lists behind.
LEMMA LastLeavesNobody ==
  ASSUME IInv, Next, Running', rc_delays' = 0
  PROVE  new_timers' = {} /\ sleeping_timers' = {}
<1>1. TypeOK' /\ CountsReferences' /\ ParkedOrTimedOut'
  BY CountPreserved, BooksPreserved
<1>2. IsFiniteSet(Existing')
  BY DelaysAssumption, FS_Subset DEF Existing
<1>3. Cardinality(Existing') = 0
  BY <1>1, <1>2, FS_CardinalityType DEF CountsReferences, TypeOK
<1>4. Existing' = {}
  BY <1>2, <1>3, FS_EmptySet
<1> QED BY <1>1, <1>4 DEF ParkedOrTimedOut, Existing

LEMMA StepRefines ==
  ASSUME IInv, [Next]_vars
  PROVE  [Abstract!Next]_(Abstract!vars)
<1> DEFINE asked == IF Running THEN new_timers ELSE {}
           left == [d \in IF Running THEN sleeping_timers ELSE {} |->
                      SaturatingSub(Resolution * duration[d], slept[d])]
           wanted == rc_delays # 0
           Same == asked' = asked /\ left' = left /\ wanted' = wanted
<1> USE DEF IInv, backendVars, delayVars, Running, Idle, Served, Abstract!vars, Abstract!Next
<1>0. ASSUME Same, Served' = Served
      PROVE  [Abstract!Next]_(Abstract!vars)
  BY <1>0
<1>1. CASE Split
  <2>1. rc_delays' # 0 /\ asked' = asked /\ left' = left /\ Served' = Served
    BY <1>1 DEF Split
  <2>2. Abstract!Open
    BY <2>1 DEF Abstract!Open
  <2> QED BY <2>2
<1>2. CASE CloneHandle
  <2>1. rc_delays # 0 /\ rc_delays' # 0
    BY <1>2, ExistingFinite, FS_CardinalityType DEF CloneHandle, CountsReferences, TypeOK
  <2> QED BY <1>0, <1>2, <2>1 DEF CloneHandle
<1>3. ASSUME NEW d \in Delays, DropDelay(d)
      PROVE  [Abstract!Next]_(Abstract!vars)
  <2>1. /\ new_timers' = new_timers \ {d} /\ sleeping_timers' = sleeping_timers \ {d}
        /\ Running /\ Running' /\ Served' = Served
        /\ duration' = duration /\ slept' = slept
    BY <1>3 DEF DropDelay
  <2>2. rc_delays > 0
    <3>1. d \in Existing
      BY <1>3 DEF DropDelay, Existing
    <3>2. Cardinality(Existing) \in Nat /\ Cardinality(Existing) # 0
      BY <3>1, ExistingFinite, FS_CardinalityType, FS_EmptySet
    <3> QED BY <2>1, <3>2 DEF CountsReferences, TypeOK
  <2>3. rc_delays' = 0 => new_timers' = {} /\ sleeping_timers' = {}
    BY <1>3, <2>1, LastLeavesNobody DEF Next, Others, Running
  <2>4. asked' = asked \ {d}
    BY <2>1
  <2>5. left' = [x \in DOMAIN left \ {d} |-> left[x]]
    <3>1. left' = [x \in sleeping_timers \ {d} |-> Left(x)]
      BY <2>1 DEF Left
    <3>2. left = [x \in sleeping_timers |-> Left(x)]
      BY <2>1 DEF Left
    <3> QED BY <2>1, <3>1, <3>2
  <2>6. wanted' \in {wanted, FALSE}
    <3>1. rc_delays # 0
      BY <2>2
    <3> QED BY <3>1
  <2>7. wanted' \/ (asked' = {} /\ DOMAIN left' = {})
    <3>1. DOMAIN left' = sleeping_timers'
      BY <2>1
    <3> QED BY <2>1, <2>3, <3>1
  <2>8. Served' = Served
    BY <2>1
  <2>9. Abstract!Leave({d})
    BY <2>5, <2>6, <2>7, <2>4, <2>8 DEF Abstract!Leave
  <2> QED BY <2>9
<1>4. CASE DropHandle
  <2>1. /\ new_timers' = new_timers /\ left' = left /\ Running /\ Running' /\ Served' = Served
    BY <1>4 DEF DropHandle
  <2>2. rc_delays # 0
    BY <1>4, ExistingFinite, FS_CardinalityType DEF DropHandle, CountsReferences, TypeOK
  <2>3. rc_delays' = 0 => new_timers' = {} /\ sleeping_timers' = {}
    BY <1>4, <2>1, LastLeavesNobody DEF Next, Others, Running
  <2>4. Abstract!Leave({})
    BY <2>1, <2>2, <2>3 DEF Abstract!Leave
  <2> QED BY <2>4
<1>5. CASE Consume
  BY <1>0, <1>5 DEF Consume
<1>6. CASE ConsumeTask
  BY <1>0, <1>6 DEF ConsumeTask
<1>7. CASE DropTimer
  <2>1. CASE timer' = "panicked"
    <3>1. asked' = {} /\ left' = [d \in {} |-> 0] /\ ~Served' /\ wanted' = wanted
      BY <1>7, <2>1 DEF DropTimer
    <3>2. Abstract!Destroy
      BY <3>1 DEF Abstract!Destroy
    <3> QED BY <3>2
  <2>2. CASE timer' # "panicked"
    BY <1>0, <1>7, <2>2 DEF DropTimer
  <2> QED BY <2>1, <2>2
<1>8. ASSUME NEW d \in Delays, NEW t \in Durations, Delay(d, t)
      PROVE  [Abstract!Next]_(Abstract!vars)
  <2>1. d \notin sleeping_timers /\ sleeping_timers \subseteq Delays
    BY <1>8 DEF Delay, ParkedOrTimedOut, TypeOK
  <2>2. \A x \in sleeping_timers : duration'[x] = duration[x] /\ slept'[x] = slept[x]
    BY <1>8, <2>1 DEF Delay, TypeOK
  <2>3. left' = left
    BY <1>8, <2>2 DEF Delay
  <2>4. wanted' = wanted
    BY <1>8, ExistingFinite, FS_CardinalityType DEF Delay, CountsReferences, TypeOK
  <2> QED BY <1>0, <1>8, <2>3, <2>4 DEF Delay
<1>9. ASSUME NEW d \in Delays, PollDelay(d)
      PROVE  [Abstract!Next]_(Abstract!vars)
  <2>1. left' = left /\ wanted' = wanted /\ Served' = Served /\ Running /\ Running'
    BY <1>9 DEF PollDelay
  <2>2. CASE d \notin installed /\ remaining[d] # 0
    <3>1. new_timers' = new_timers \cup {d} /\ d \notin new_timers \cup sleeping_timers
      BY <1>9, <2>2 DEF PollDelay, Installs, ParkedOrTimedOut
    <3>2. wanted
      <4>1. d \in Existing
        BY <1>9 DEF PollDelay, Existing
      <4>2. Cardinality(Existing) \in Nat /\ Cardinality(Existing) # 0
        BY <4>1, ExistingFinite, FS_CardinalityType, FS_EmptySet
      <4> QED BY <2>1, <4>2 DEF CountsReferences, TypeOK
    <3>3. Abstract!Ask(d)
      BY <2>1, <3>1, <3>2 DEF Abstract!Ask
    <3> QED BY <3>3
  <2>3. CASE ~(d \notin installed /\ remaining[d] # 0)
    BY <1>0, <1>9, <2>1, <2>3 DEF PollDelay
  <2> QED BY <2>2, <2>3
<1>10. CASE Run
  <2>1. Same /\ ~Served /\ Served'
    BY <1>10 DEF Run
  <2>2. Abstract!StartServing
    BY <2>1 DEF Abstract!StartServing
  <2> QED BY <2>2
<1>11. CASE DropRunner
  <2>1. Same /\ ~Served'
    BY <1>11 DEF DropRunner
  <2>2. CASE Served
    <3>1. Abstract!StopServing
      BY <2>1, <2>2 DEF Abstract!StopServing
    <3> QED BY <3>1
  <2>3. CASE ~Served
    BY <1>0, <2>1, <2>3
  <2> QED BY <2>2, <2>3
<1>12. CASE Tick
  <2>1. /\ Running /\ Running' /\ asked' = asked /\ wanted' = wanted /\ Served' = Served
        /\ sleeping_timers' = sleeping_timers /\ duration' = duration
    BY <1>12 DEF Tick
  <2>2. ASSUME NEW d \in sleeping_timers
        PROVE  SaturatingSub(Resolution * duration[d], slept'[d])
                 = IF Left(d) = 0 THEN 0 ELSE Left(d) - 1
    <3>1. d \in Delays /\ slept[d] \in 0 .. Horizon
      BY DEF TypeOK
    <3>2. /\ Resolution * duration[d] \in Nat /\ Resolution * duration[d] <= Horizon
          /\ Horizon \in Nat
      BY <3>1, WithinHorizon DEF TypeOK
    <3>3. slept'[d] = IF slept[d] < Horizon THEN slept[d] + 1 ELSE slept[d]
      BY <1>12, <3>1 DEF Tick, Later
    <3> QED BY <3>1, <3>2, <3>3 DEF Left, SaturatingSub
  <2>3. left' = [d \in DOMAIN left |-> IF left[d] = 0 THEN 0 ELSE left[d] - 1]
    BY <2>1, <2>2 DEF Left
  <2>4. Abstract!Tick
    BY <2>1, <2>3 DEF Abstract!Tick
  <2> QED BY <2>4
<1>13. CASE Fire
  BY <1>0, <1>13 DEF Fire
<1>14. CASE PollRunner
  <2>1. CASE Serves
    BY <1>14, <2>1, PollServes
  <2>2. CASE ~Serves
    <3>1. Same /\ Served /\ ~Served'
      BY <1>14, <2>2 DEF PollRunner
    <3>2. Abstract!StopServing
      BY <3>1 DEF Abstract!StopServing
    <3> QED BY <3>2
  <2> QED BY <2>1, <2>2
<1>15. CASE UNCHANGED vars
  BY <1>0, <1>15 DEF vars
<1>16. CASE WakeIn
  BY <1>0, <1>16 DEF WakeIn
<1> QED
  BY <1>1, <1>2, <1>3, <1>4, <1>5, <1>6, <1>7, <1>8, <1>9, <1>10, <1>11, <1>12, <1>13, <1>14, <1>15,
     <1>16
  DEF Next, Others

\* Every behaviour of the timer is one of independent clocks: a step of it is
\* a step of theirs, or changes nothing they promise. A delay ends only when
\* its own clock has run down.
THEOREM RefinesTimer == Spec => Abstract!Clocks
<1>1. Init => Abstract!Init
  BY DEF Init, Abstract!Init, Running, Served
<1>2. IInv /\ [Next]_vars => [Abstract!Next]_(Abstract!vars)
  BY StepRefines
<1> QED BY <1>1, <1>2, Invariance, PTL DEF Spec, Abstract!Clocks
=============================================================================
