------------------------------ MODULE IrqWaker ------------------------------
(***************************************************************************)
(* The interrupt-safe waker of src/interrupt/mod.rs: a static cell for one *)
(* task waker, guarded by an atomic byte of flags. The application stores  *)
(* a waker with set_waker, interrupts wake it with wake.                   *)
(*                                                                         *)
(* One action is one access to the shared byte or to the cell. Context 0   *)
(* is the application, contexts 1 .. Levels are interrupts of increasing   *)
(* priority on one core: a context only runs while those above it are      *)
(* idle, and an interrupt that started runs to its end unless one of a     *)
(* higher priority comes in between.                                       *)
(***************************************************************************)
EXTENDS Naturals

CONSTANTS
  Wakers,  \* the task wakers the application may store
  None,    \* no waker; as the content of the cell, uninitialised memory
  Levels   \* number of interrupt priorities that call wake

ASSUME NoneAssumption == None \notin Wakers
ASSUME LevelsAssumption == Levels \in Nat

VARIABLES
  flags,   \* Waker.flags, the set of the bits that are set
  cell,    \* Waker.waker
  pc,      \* where each context is in wake or set_waker; "idle" outside
  flag,    \* the local variable flag of each context
  arg,     \* the argument of the set_waker in progress
  current, \* history: the waker set last, None once it was woken
  owed     \* history: wake was called since, and current not woken yet

vars == <<flags, cell, pc, flag, arg, current, owed>>

Bits == {"HAS_WAKER", "LOCKED", "WAKE_REQUESTED"}

App == 0
Interrupts == 1 .. Levels
Contexts == 0 .. Levels

SetSteps == {"load", "lock", "take", "write", "mark", "unlock", "reload", "deliver", "clear"}
WakeSteps == {"request", "take", "unmark"}

TypeOK ==
  /\ flags \subseteq Bits
  /\ cell \in Wakers \cup {None}
  /\ pc \in [Contexts -> {"idle"} \cup SetSteps \cup WakeSteps]
  /\ pc[App] \in {"idle"} \cup SetSteps
  /\ \A i \in Interrupts : pc[i] \in {"idle"} \cup WakeSteps
  /\ flag \in [Contexts -> SUBSET Bits]
  /\ arg \in Wakers \cup {None}
  /\ arg = None <=> pc[App] \in {"idle", "clear"}
  /\ current \in Wakers \cup {None}
  /\ owed \in BOOLEAN

\* Waker::new.
Init ==
  /\ flags = {}
  /\ cell = None
  /\ pc = [c \in Contexts |-> "idle"]
  /\ flag = [c \in Contexts |-> {}]
  /\ arg = None
  /\ current = None
  /\ owed = FALSE

\* Priorities: a context runs while those above it are idle.
Runs(c) == \A d \in Contexts : d > c => pc[d] = "idle"

\* Context c is at step s of its call.
At(c, s) == Runs(c) /\ pc[c] = s

Goto(c, s) == pc' = [pc EXCEPT ![c] = s]

\* Calling a task waker. It wakes its task whether or not it is still the
\* current one, but only the current one is owed anything.
Call(w) ==
  /\ current' = IF w = current THEN None ELSE current
  /\ owed' = (owed /\ w # current)

----------------------------------------------------------------------------
(* wake, in interrupt i.                                                   *)

WakeIgnoresLock(i) ==
  /\ At(i, "idle")
  /\ Goto(i, IF "HAS_WAKER" \in flags THEN "take"
             ELSE IF "LOCKED" \in flags THEN "request" ELSE "idle")
  /\ flag' = [flag EXCEPT ![i] = flags]
  /\ owed' = (owed \/ current # None)
  /\ UNCHANGED <<flags, cell, arg, current>>

\* It loads the flags and decides. Without a waker it returns at once.
Wake(i) ==
  /\ At(i, "idle")
  /\ Goto(i, IF "LOCKED" \in flags THEN "request"
             ELSE IF "HAS_WAKER" \in flags THEN "take" ELSE "idle")
  /\ flag' = [flag EXCEPT ![i] = flags]
  /\ owed' = (owed \/ current # None)
  /\ UNCHANGED <<flags, cell, arg, current>>

\* The application is inside set_waker and is asked to wake its waker. A
\* plain store: it writes back the flags as they were loaded.
Request(i) ==
  /\ At(i, "request")
  /\ flags' = flag[i] \cup {"WAKE_REQUESTED"}
  /\ Goto(i, "idle")
  /\ UNCHANGED <<cell, flag, arg, current, owed>>

\* take_waker().wake(). Taking a waker that is not there is undefined; the
\* step is not taken, and StoredWakersOnly shows whether it could come to it.
TakeAndWake(i) ==
  /\ At(i, "take") /\ cell # None
  /\ Call(cell)
  /\ cell' = None
  /\ Goto(i, "unmark")
  /\ UNCHANGED <<flags, flag, arg>>

Unmark(i) ==
  /\ At(i, "unmark")
  /\ flags' = flags \ {"HAS_WAKER"}
  /\ Goto(i, "idle")
  /\ UNCHANGED <<cell, flag, arg, current, owed>>

WakeStep(i) == Wake(i) \/ Request(i) \/ TakeAndWake(i) \/ Unmark(i)

----------------------------------------------------------------------------
(* set_waker, in the application.                                          *)

SetWaker(w) ==
  /\ At(App, "idle")
  /\ arg' = w
  /\ Goto(App, "load")
  /\ UNCHANGED <<flags, cell, flag, current, owed>>

\* Before the first compare_and_swap and after each one that failed.
Load ==
  /\ At(App, "load")
  /\ flag' = [flag EXCEPT ![App] = flags]
  /\ Goto(App, "lock")
  /\ UNCHANGED <<flags, cell, arg, current, owed>>

LockSkipsTake ==
  /\ At(App, "lock")
  /\ IF flags = flag[App]
     THEN /\ flags' = flags \cup {"LOCKED"}
          /\ Goto(App, "write")
          /\ current' = arg
     ELSE Goto(App, "load") /\ UNCHANGED <<flags, current>>
  /\ UNCHANGED <<cell, flag, arg, owed>>

\* The compare_and_swap that sets LOCKED. From here on the new waker counts.
Lock ==
  /\ At(App, "lock")
  /\ IF flags = flag[App]
     THEN /\ flags' = flags \cup {"LOCKED"}
          /\ Goto(App, IF "HAS_WAKER" \in flag[App] THEN "take" ELSE "write")
          /\ current' = arg
     ELSE Goto(App, "load") /\ UNCHANGED <<flags, current>>
  /\ UNCHANGED <<cell, flag, arg, owed>>

\* take_waker: the old waker is dropped.
TakeOld ==
  /\ At(App, "take") /\ cell # None
  /\ cell' = None
  /\ Goto(App, "write")
  /\ UNCHANGED <<flags, flag, arg, current, owed>>

\* The write of the clone, and flag | LOCKED when nothing is left to mark.
Write ==
  /\ At(App, "write")
  /\ cell' = arg
  /\ IF "HAS_WAKER" \in flag[App]
     THEN /\ flag' = [flag EXCEPT ![App] = @ \cup {"LOCKED"}]
          /\ Goto(App, "unlock")
     ELSE Goto(App, "mark") /\ UNCHANGED flag
  /\ UNCHANGED <<flags, arg, current, owed>>

\* The fetch_or of HAS_WAKER, and flag | LOCKED.
Mark ==
  /\ At(App, "mark")
  /\ flags' = flags \cup {"HAS_WAKER"}
  /\ flag' = [flag EXCEPT ![App] = flags \cup {"HAS_WAKER", "LOCKED"}]
  /\ Goto(App, "unlock")
  /\ UNCHANGED <<cell, arg, current, owed>>

UnlockWithoutCompare ==
  /\ At(App, "unlock")
  /\ flags' = flag[App] \ {"LOCKED"}
  /\ Goto(App, IF "WAKE_REQUESTED" \in flag[App] THEN "deliver" ELSE "idle")
  /\ arg' = IF "WAKE_REQUESTED" \in flag[App] THEN arg ELSE None
  /\ UNCHANGED <<cell, flag, current, owed>>

UnlockRetriesStale ==
  /\ At(App, "unlock")
  /\ IF flags = flag[App]
     THEN /\ flags' = flags \ {"LOCKED"}
          /\ Goto(App, IF "WAKE_REQUESTED" \in flag[App] THEN "deliver" ELSE "idle")
          /\ arg' = IF "WAKE_REQUESTED" \in flag[App] THEN arg ELSE None
     ELSE Goto(App, "unlock") /\ UNCHANGED <<flags, arg>>
  /\ UNCHANGED <<cell, flag, current, owed>>

\* The compare_and_swap that clears LOCKED. set_waker returns unless a wake
\* was requested meanwhile.
Unlock ==
  /\ At(App, "unlock")
  /\ IF flags = flag[App]
     THEN /\ flags' = flags \ {"LOCKED"}
          /\ Goto(App, IF "WAKE_REQUESTED" \in flag[App] THEN "deliver" ELSE "idle")
          /\ arg' = IF "WAKE_REQUESTED" \in flag[App] THEN arg ELSE None
     ELSE Goto(App, "reload") /\ UNCHANGED <<flags, arg>>
  /\ UNCHANGED <<cell, flag, current, owed>>

Reload ==
  /\ At(App, "reload")
  /\ flag' = [flag EXCEPT ![App] = flags]
  /\ Goto(App, "unlock")
  /\ UNCHANGED <<flags, cell, arg, current, owed>>

\* waker.wake(), which consumes the argument. The clone stays in the cell.
Deliver ==
  /\ At(App, "deliver")
  /\ Call(arg)
  /\ arg' = None
  /\ Goto(App, "clear")
  /\ UNCHANGED <<flags, cell, flag>>

Clear ==
  /\ At(App, "clear")
  /\ flags' = flags \ {"WAKE_REQUESTED"}
  /\ Goto(App, "idle")
  /\ UNCHANGED <<cell, flag, arg, current, owed>>

\* What a set_waker does after its call.
SetStep ==
  \/ Load \/ Lock \/ TakeOld \/ Write \/ Mark
  \/ Unlock \/ Reload \/ Deliver \/ Clear

Next ==
  \/ \E i \in Interrupts : WakeStep(i)
  \/ \E w \in Wakers : SetWaker(w)
  \/ SetStep

Spec == Init /\ [][Next]_vars

\* Interrupts return, and leave the application some time however often they
\* come: the application is interrupted between any two of its steps, so this
\* is strong fairness. Nothing makes an interrupt or a set_waker start.
Fairness ==
  /\ \A i \in Interrupts : WF_vars(Request(i) \/ TakeAndWake(i) \/ Unmark(i))
  /\ SF_vars(SetStep)

FairSpec == Spec /\ Fairness

----------------------------------------------------------------------------
(* Properties.                                                             *)

\* A waker is taken out of the cell only while there is one: assume_init is
\* never called on uninitialised memory.
StoredWakersOnly == \A c \in Contexts : At(c, "take") => cell # None

\* A waker is written only into an empty cell. What a MaybeUninit held is not
\* dropped when it is overwritten, so a stored waker would leak.
NothingOverwritten == At(App, "write") => cell = None

Idle == \A c \in Contexts : pc[c] = "idle"

\* No wake-up is lost: once everybody has returned, the waker set last has
\* been called if wake was called after set_waker locked the cell for it,
\* also when that was in the middle of set_waker.
NoWakeLost == Idle => ~owed

\* Outside set_waker and wake the flags tell what is in the cell and nothing
\* else is set, so that no later call finds the cell locked or a request that
\* was meant for another waker.
FlagsTellTheCell ==
  Idle => flags = IF cell = None THEN {} ELSE {"HAS_WAKER"}

\* A wake-up that is owed is delivered: the two compare_and_swap loops end,
\* although interrupts keep changing the flags under them.
WakesDelivered == owed ~> ~owed
=============================================================================
