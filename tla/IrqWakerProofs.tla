--------------------------- MODULE IrqWakerProofs ---------------------------
(***************************************************************************)
(* The safety properties of IrqWaker.tla for interrupts of one priority    *)
(* and any set of task wakers.                                             *)
(***************************************************************************)
EXTENDS IrqWaker, TLAPS

Irq == 1

Locking == {"take", "write", "mark", "unlock", "reload"}

\* LOCKED is set exactly between the two compare_and_swaps, and a request is
\* only pending from there to the end of set_waker.
LockHeld ==
  /\ "LOCKED" \in flags <=> pc[App] \in Locking
  /\ "WAKE_REQUESTED" \in flags => pc[App] \in Locking \cup {"deliver", "clear"}

\* An interrupt that acts on the flags acts on what they still are: nothing
\* comes between its load and its last step.
InterruptUndisturbed ==
  /\ pc[Irq] = "request" => flag[Irq] = flags /\ "LOCKED" \in flags
  /\ pc[Irq] \in {"take", "unmark"} => "LOCKED" \notin flags /\ "HAS_WAKER" \in flags

\* What is in the cell, at each step of either side.
CellKnown ==
  /\ "HAS_WAKER" \in flags /\ pc[App] # "write" /\ pc[Irq] # "unmark" => cell # None
  /\ "HAS_WAKER" \notin flags /\ pc[App] # "mark" => cell = None
  /\ pc[App] = "take" => "HAS_WAKER" \in flags /\ "HAS_WAKER" \in flag[App]
  /\ pc[App] = "write" => /\ cell = None
                          /\ "HAS_WAKER" \in flag[App] <=> "HAS_WAKER" \in flags
  /\ pc[App] = "mark" => cell # None /\ "HAS_WAKER" \notin flags
  /\ pc[App] \in {"unlock", "reload"} => "HAS_WAKER" \in flags
  /\ pc[Irq] = "unmark" => cell = None

\* Who is going to call the current waker: it is in the cell, or it is the
\* argument of the set_waker in progress; and if it is owed a call, an
\* interrupt is about to take it or has left a request.
CallerKnown ==
  /\ pc[App] \in {"mark", "unlock", "reload"} => cell = arg
  /\ pc[App] \in Locking \cup {"deliver"} => current \in {None, arg}
  /\ pc[App] \in Locking => current = arg
  /\ pc[App] \notin Locking /\ current # None => cell = current
  /\ owed => /\ current # None
             /\ \/ pc[Irq] \in {"request", "take"}
                \/ "WAKE_REQUESTED" \in flags /\ pc[App] \in Locking \cup {"deliver"}

IInv ==
  /\ TypeOK
  /\ LockHeld
  /\ InterruptUndisturbed
  /\ CellKnown
  /\ CallerKnown

----------------------------------------------------------------------------
(* One priority.                                                           *)

\* With one priority the application runs while the interrupt is idle, and
\* the interrupt always does.
LEMMA OnePriority ==
  ASSUME Levels = 1
  PROVE  /\ Contexts = {App, Irq} /\ Interrupts = {Irq} /\ App # Irq
         /\ Runs(App) <=> pc[Irq] = "idle"
         /\ Runs(Irq)
<1>1. Contexts = {0, 1} /\ Interrupts = {1}
  BY DEF Contexts, Interrupts
<1> QED BY <1>1 DEF App, Irq, Runs

\* Only the context that moves changes its place.
LEMMA Moves ==
  ASSUME TypeOK, Levels = 1, NEW s
  PROVE  /\ Goto(App, s) => pc'[App] = s /\ pc'[Irq] = pc[Irq]
         /\ Goto(Irq, s) => pc'[Irq] = s /\ pc'[App] = pc[App]
  BY OnePriority DEF TypeOK, Goto

----------------------------------------------------------------------------
(* The invariant.                                                          *)

\* Waker::new makes it true.
LEMMA InitEstablishes == ASSUME Levels = 1, Init PROVE IInv
<1>1. pc[App] = "idle" /\ pc[Irq] = "idle"
  BY OnePriority DEF Init
<1>2. TypeOK
  <2>1. owed \in BOOLEAN
    BY DEF Init
  <2> QED BY <1>1, <2>1, OnePriority DEF Init, TypeOK
<1>3. ~owed
  BY DEF Init
<1> QED
  BY <1>1, <1>2, <1>3 DEF Init, IInv, LockHeld, InterruptUndisturbed, CellKnown,
     CallerKnown, Locking, SetSteps, WakeSteps

\* Every step keeps the types.
LEMMA TypePreserved ==
  ASSUME Levels = 1, IInv, Next
  PROVE  TypeOK'
<1> USE OnePriority DEF TypeOK, IInv, SetSteps, WakeSteps, Bits, Goto, At
<1>1. owed' \in BOOLEAN
  BY DEF Next, WakeStep, SetStep, Wake, Request, TakeAndWake, Unmark, SetWaker, Load, Lock,
         TakeOld, Write, Mark, Unlock, Reload, Deliver, Clear, Call
<1>2. CASE WakeStep(Irq)
  BY <1>1, <1>2, ZenonT(40) DEF WakeStep, Wake, Request, TakeAndWake, Unmark, Call
<1>3. ASSUME NEW w \in Wakers, SetWaker(w)
      PROVE  TypeOK'
  BY <1>1, <1>3, NoneAssumption DEF SetWaker
<1>4. CASE SetStep
  <2>1. CASE Load \/ Reload
    BY <1>1, <2>1 DEF Load, Reload
  <2>2. CASE Lock
    <3>1. pc' \in [Contexts -> {"idle"} \cup SetSteps \cup WakeSteps]
      BY <2>2 DEF Lock
    <3>2. pc'[App] \in {"take", "write", "load"} /\ pc'[Irq] = pc[Irq]
      BY <2>2, Moves DEF Lock
    <3>3. flags' \subseteq Bits /\ current' \in Wakers \cup {None}
      BY <2>2 DEF Lock
    <3> QED BY <1>1, <2>2, <3>1, <3>2, <3>3 DEF Lock
  <2>7. CASE Unlock
    <3>1. pc' \in [Contexts -> {"idle"} \cup SetSteps \cup WakeSteps]
      BY <2>7 DEF Unlock
    <3>2. pc'[Irq] = pc[Irq]
      BY <2>7, Moves DEF Unlock
    <3>3. flags' \subseteq Bits
      BY <2>7 DEF Unlock
    <3>4. /\ pc'[App] \in {"idle", "deliver", "reload"}
          /\ arg' = IF pc'[App] = "idle" THEN None ELSE arg
      BY <2>7, Moves DEF Unlock
    <3> QED BY <1>1, <2>7, <3>1, <3>2, <3>3, <3>4 DEF Unlock
  <2>3. CASE TakeOld
    BY <1>1, <2>3 DEF TakeOld
  <2>4. CASE Write
    BY <1>1, <2>4 DEF Write
  <2>5. CASE Mark
    BY <1>1, <2>5 DEF Mark
  <2>6. CASE Deliver \/ Clear
    BY <1>1, <2>6 DEF Deliver, Clear, Call
  <2> QED BY <1>4, <2>1, <2>2, <2>3, <2>4, <2>5, <2>6, <2>7 DEF SetStep
<1> QED BY <1>2, <1>3, <1>4 DEF Next

\* A step of the interrupt. It only starts something on flags that say what
\* it may do, and the application does not move until it has returned.
LEMMA InterruptPreserves ==
  ASSUME Levels = 1, IInv, WakeStep(Irq)
  PROVE  LockHeld' /\ InterruptUndisturbed' /\ CellKnown' /\ CallerKnown'
<1> USE OnePriority, Moves
    DEF TypeOK, IInv, LockHeld, InterruptUndisturbed, CellKnown, CallerKnown,
        Locking, SetSteps, WakeSteps, At
<1>1. CASE Request(Irq)
  BY <1>1 DEF Request
<1>2. CASE TakeAndWake(Irq)
  <2>1. current' = None
    BY <1>2 DEF TakeAndWake, Call
  <2>2. ~owed'
    BY <1>2 DEF TakeAndWake, Call
  <2>3. pc'[Irq] = "unmark" /\ pc'[App] = pc[App] /\ pc[Irq] = "take"
    BY <1>2 DEF TakeAndWake
  <2> QED BY <1>2, <2>1, <2>2, <2>3 DEF TakeAndWake
<1>3. CASE Unmark(Irq)
  BY <1>3 DEF Unmark
<1>4. CASE Wake(Irq)
  BY <1>4 DEF Wake
<1> QED BY <1>1, <1>2, <1>3, <1>4 DEF WakeStep

\* A step of the application: the interrupt is idle. A compare_and_swap that
\* succeeds has read what is there, so its local flags are the flags.
LEMMA ApplicationPreserves ==
  ASSUME Levels = 1, IInv, SetStep \/ \E w \in Wakers : SetWaker(w)
  PROVE  LockHeld' /\ InterruptUndisturbed' /\ CellKnown' /\ CallerKnown'
<1> USE OnePriority, Moves, NoneAssumption
    DEF TypeOK, IInv, LockHeld, InterruptUndisturbed, CellKnown, CallerKnown,
        Locking, SetSteps, WakeSteps, At
<1>1. CASE Load
  BY <1>1 DEF Load
<1>2. CASE Lock
  BY <1>2 DEF Lock
<1>3. CASE TakeOld
  BY <1>3 DEF TakeOld
<1>4. CASE Write
  BY <1>4 DEF Write
<1>5. CASE Mark
  BY <1>5 DEF Mark
<1>6. CASE Unlock
  BY <1>6 DEF Unlock
<1>7. CASE Reload
  BY <1>7 DEF Reload
<1>8. CASE Deliver
  <2>1. current' = None
    BY <1>8 DEF Deliver, Call
  <2>2. ~owed'
    BY <1>8 DEF Deliver, Call
  <2>3. pc'[App] = "clear" /\ pc'[Irq] = "idle" /\ pc[App] = "deliver"
    BY <1>8 DEF Deliver
  <2> QED BY <1>8, <2>1, <2>2, <2>3 DEF Deliver
<1>9. CASE Clear
  BY <1>9 DEF Clear
<1>10. ASSUME NEW w \in Wakers, SetWaker(w)
       PROVE  LockHeld' /\ InterruptUndisturbed' /\ CellKnown' /\ CallerKnown'
  BY <1>10 DEF SetWaker
<1> QED
  BY <1>1, <1>2, <1>3, <1>4, <1>5, <1>6, <1>7, <1>8, <1>9, <1>10 DEF SetStep

\* A step that changes nothing.
LEMMA Stutters ==
  ASSUME IInv, UNCHANGED vars
  PROVE  IInv'
  BY DEF IInv, TypeOK, LockHeld, InterruptUndisturbed, CellKnown, CallerKnown, vars

----------------------------------------------------------------------------
(* The theorems.                                                           *)

\* With interrupts of one priority the strengthened invariant always holds.
THEOREM Invariance ==
  ASSUME Levels = 1
  PROVE  Spec => []IInv
<1>1. Init => IInv
  BY InitEstablishes
<1>2. IInv /\ [Next]_vars => IInv'
  <2> SUFFICES ASSUME IInv, [Next]_vars PROVE IInv'
    OBVIOUS
  <2>1. CASE UNCHANGED vars
    BY <2>1, Stutters
  <2>2. CASE Next
    <3>1. WakeStep(Irq) \/ SetStep \/ \E w \in Wakers : SetWaker(w)
      BY <2>2, OnePriority DEF Next
    <3>2. TypeOK'
      BY <2>2, TypePreserved
    <3> QED BY <3>1, <3>2, InterruptPreserves, ApplicationPreserves DEF IInv
  <2> QED BY <2>1, <2>2
<1> QED BY <1>1, <1>2, PTL DEF Spec

\* With one priority no uninitialised waker is taken, by either side.
THEOREM CellIsSafe ==
  ASSUME Levels = 1
  PROVE  Spec => []StoredWakersOnly
<1>1. IInv => StoredWakersOnly
  BY OnePriority DEF IInv, StoredWakersOnly, At, CellKnown, InterruptUndisturbed, LockHeld, Locking
<1> QED BY <1>1, Invariance, PTL

\* With one priority no stored waker is overwritten, which would leak it.
THEOREM CellIsKept ==
  ASSUME Levels = 1
  PROVE  Spec => []NothingOverwritten
<1>1. IInv => NothingOverwritten
  BY OnePriority DEF IInv, NothingOverwritten, At, CellKnown, InterruptUndisturbed, LockHeld, Locking
<1> QED BY <1>1, Invariance, PTL

\* With one priority no wake-up is lost, whatever the step of set_waker an
\* interrupt comes between.
THEOREM WakesAreSafe ==
  ASSUME Levels = 1
  PROVE  Spec => [](NoWakeLost /\ FlagsTellTheCell)
<1>1. IInv => NoWakeLost /\ FlagsTellTheCell
  <2> SUFFICES ASSUME IInv, Idle PROVE ~owed /\ flags = IF cell = None THEN {} ELSE {"HAS_WAKER"}
    BY DEF NoWakeLost, FlagsTellTheCell
  <2>1. pc[App] = "idle" /\ pc[Irq] = "idle"
    BY OnePriority DEF Idle
  <2>2. ~owed
    BY <2>1 DEF IInv, CallerKnown, Locking
  <2>3. flags = IF cell = None THEN {} ELSE {"HAS_WAKER"}
    BY <2>1 DEF IInv, TypeOK, Bits, LockHeld, CellKnown, Locking
  <2> QED BY <2>2, <2>3
<1> QED BY <1>1, Invariance, PTL
=============================================================================
