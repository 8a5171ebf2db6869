------------------------------ MODULE InitOnce ------------------------------
(***************************************************************************)
(* __init_once() of libroot2 (compat/locks/init_once.cpp): the one-time    *)
(* initialisation every other primitive of the runtime relies on.  A       *)
(* single 32-bit control word says how far the initialisation is; threads  *)
(* that lose the race for it wait on a semaphore one of them creates, or   *)
(* spin when the system has no semaphore left.                             *)
(***************************************************************************)
EXTENDS Integers

CONSTANTS
  Threads,      \* the threads that call __init_once()
  Sems          \* the semaphore ids nexus can hand out

ASSUME SemsAssumption == Sems \subseteq Nat

(* The control word: one of four negative states, or a semaphore id.       *)
(* create_sem() returns a negative error when it has none.                 *)
UNINITIALIZED == -1
INITIALIZING  == -2
SPINNING      == -3
INITIALIZED   == -4
B_NO_MORE_SEMS == -5

VARIABLES
  control,      \* *control
  pc,           \* where each thread is
  value,        \* the local "value": what the last atomic returned
  own,          \* the local "semaphore": the one this thread created
  sems,         \* the semaphores that exist
  initDone      \* initRoutine() has returned

vars == <<control, pc, value, own, sems, initDone>>

Controls == {UNINITIALIZED, INITIALIZING, SPINNING, INITIALIZED} \cup Sems
Locations == {"idle", "init", "publish", "delete", "create", "install",
              "discard", "noSem", "wait", "spin", "returned"}

TypeOK ==
  /\ control \in Controls
  /\ pc \in [Threads -> Locations]
  /\ value \in [Threads -> Controls]
  /\ own \in [Threads -> Controls]
  /\ sems \in SUBSET Sems
  /\ initDone \in BOOLEAN

Init ==
  /\ control = UNINITIALIZED
  /\ pc = [t \in Threads |-> "idle"]
  /\ value = [t \in Threads |-> UNINITIALIZED]
  /\ own = [t \in Threads |-> UNINITIALIZED]
  /\ sems = {}
  /\ initDone = FALSE

Goto(t, l) == pc' = [pc EXCEPT ![t] = l]

(* The tail of the function: wait on a semaphore, spin, or return. *)
NeverSpin(v) == IF v \in Sems THEN "wait" ELSE "returned"
WaitFor(v) ==
  IF v \in Sems THEN "wait" ELSE IF v = SPINNING THEN "spin" ELSE "returned"

-----------------------------------------------------------------------------
(* The first atomic_test_and_set(control, INITIALIZING, UNINITIALIZED).    *)
(* CallNotAtomic also starts from a test made before another thread's set. *)
CallNotAtomic(t) ==
  /\ pc[t] \in {"idle", "returned"}
  /\ value' = [value EXCEPT ![t] = control]
  /\ control' = IF control = UNINITIALIZED THEN INITIALIZING ELSE control
  /\ Goto(t, IF control \in {UNINITIALIZED, INITIALIZING} THEN "init"
                                                         ELSE WaitFor(control))
  /\ UNCHANGED <<own, sems, initDone>>

Call(t) ==
  /\ pc[t] \in {"idle", "returned"}
  /\ value' = [value EXCEPT ![t] = control]
  /\ control' = IF control = UNINITIALIZED THEN INITIALIZING ELSE control
  /\ Goto(t, CASE control = UNINITIALIZED -> "init"
               [] control = INITIALIZING  -> "create"
               [] OTHER                   -> WaitFor(control))
  /\ UNCHANGED <<own, sems, initDone>>

RunInitRoutine(t) ==
  /\ pc[t] = "init"
  /\ initDone' = TRUE
  /\ Goto(t, "publish")
  /\ UNCHANGED <<control, value, own, sems>>

(* atomic_get_and_set(control, INITIALIZED); a semaphore found there is    *)
(* deleted afterwards, in a step of its own.                               *)
Publish(t) ==
  /\ pc[t] = "publish"
  /\ value' = [value EXCEPT ![t] = control]
  /\ control' = INITIALIZED
  /\ Goto(t, IF control \in Sems THEN "delete" ELSE "returned")
  /\ UNCHANGED <<own, sems, initDone>>

DeleteWaited(t) ==
  /\ pc[t] = "delete"
  /\ sems' = sems \ {value[t]}
  /\ Goto(t, "returned")
  /\ UNCHANGED <<control, value, own, initDone>>

(* create_sem() either succeeds, with an id that is free now though it may *)
(* have been used before, or fails, at any time: other programs use up     *)
(* semaphores too.                                                         *)
CreateSem(t) ==
  /\ pc[t] = "create"
  /\ \E s \in Sems \ sems :
        /\ own' = [own EXCEPT ![t] = s]
        /\ sems' = sems \cup {s}
  /\ Goto(t, "install")
  /\ UNCHANGED <<control, value, initDone>>

CreateSemFails(t) ==
  /\ pc[t] = "create"
  /\ Goto(t, "noSem")
  /\ UNCHANGED <<control, value, own, sems, initDone>>

(* atomic_test_and_set(control, semaphore, INITIALIZING). *)
InstallBlindly(t) ==
  /\ pc[t] = "install"
  /\ control' = own[t]
  /\ value' = [value EXCEPT ![t] = own[t]]
  /\ Goto(t, "wait")
  /\ UNCHANGED <<own, sems, initDone>>

InstallSem(t) ==
  /\ pc[t] = "install"
  /\ IF control = INITIALIZING
       THEN /\ control' = own[t]
            /\ value' = [value EXCEPT ![t] = own[t]]
            /\ Goto(t, "wait")
       ELSE /\ value' = [value EXCEPT ![t] = control]
            /\ Goto(t, "discard")
            /\ UNCHANGED control
  /\ UNCHANGED <<own, sems, initDone>>

ForgetSem(t) ==
  /\ pc[t] = "discard"
  /\ Goto(t, WaitFor(value[t]))
  /\ UNCHANGED <<control, value, own, sems, initDone>>

DiscardSem(t) ==
  /\ pc[t] = "discard"
  /\ sems' = sems \ {own[t]}
  /\ Goto(t, WaitFor(value[t]))
  /\ UNCHANGED <<control, value, own, initDone>>

(* atomic_test_and_set(control, SPINNING, INITIALIZING). *)
SetSpinning(t) ==
  /\ pc[t] = "noSem"
  /\ IF control = INITIALIZING
       THEN /\ control' = SPINNING
            /\ value' = [value EXCEPT ![t] = SPINNING]
            /\ Goto(t, "spin")
       ELSE /\ value' = [value EXCEPT ![t] = control]
            /\ Goto(t, WaitFor(control))
            /\ UNCHANGED control
  /\ UNCHANGED <<own, sems, initDone>>

(* acquire_sem() on the count-0 semaphore ends only when it is deleted;    *)
(* B_INTERRUPTED goes round the loop again.                                *)
WaitEnds(t) ==
  /\ pc[t] = "wait"
  /\ value[t] \notin sems
  /\ Goto(t, "returned")
  /\ UNCHANGED <<control, value, own, sems, initDone>>

SpinEnds(t) ==
  /\ pc[t] = "spin"
  /\ control # SPINNING
  /\ Goto(t, "returned")
  /\ UNCHANGED <<control, value, own, sems, initDone>>

Running(t) ==
  \/ RunInitRoutine(t) \/ Publish(t) \/ DeleteWaited(t)
  \/ CreateSem(t) \/ CreateSemFails(t) \/ InstallSem(t) \/ DiscardSem(t)
  \/ SetSpinning(t) \/ WaitEnds(t) \/ SpinEnds(t)

Next == \E t \in Threads : Call(t) \/ Running(t)

Spec == Init /\ [][Next]_vars

(* The kernel runs every thread that is inside the function. *)
FairSpec == Spec /\ \A t \in Threads : WF_vars(Running(t))

-----------------------------------------------------------------------------
Initializer(t) == pc[t] \in {"init", "publish"}

(* No thread returns from __init_once() before initRoutine() has finished, *)
(* whichever way it waited.                                                *)
NoEarlyReturn == \A t \in Threads : pc[t] = "returned" => initDone

(* initRoutine() is entered by one thread, once: never while another runs  *)
(* it, never again after it has finished.                                  *)
InitOnlyOnce ==
  \A t \in Threads :
    pc[t] = "init" => /\ ~initDone
                      /\ \A u \in Threads : Initializer(u) => u = t

(* A semaphore lives only as long as it is needed: the one in the control  *)
(* word, or one its creator or the initialiser is still about to dispose   *)
(* of.  When no thread is inside the function, none is left.               *)
NoSemLeak ==
  \A s \in sems :
    \/ control = s
    \/ \E t \in Threads :
         \/ pc[t] \in {"install", "discard"} /\ own[t] = s
         \/ pc[t] = "delete" /\ value[t] = s

(* Every call returns. *)
CallsReturn == \A t \in Threads : (pc[t] # "idle") ~> (pc[t] = "returned")

-----------------------------------------------------------------------------
(* The inductive strengthening the proofs use: how far the control word is *)
(* says where the threads can be, and the semaphore in it exists.          *)
Owner(t) == pc[t] \in {"install", "discard"}

OnceInv ==
  /\ control = UNINITIALIZED =>
       /\ ~initDone /\ sems = {}
       /\ \A t \in Threads : pc[t] = "idle"
  /\ control = INITIALIZED => initDone
  /\ control \in Sems => control \in sems
  /\ \A t \in Threads :
       /\ pc[t] = "init" => ~initDone
       /\ pc[t] = "publish" => initDone
       /\ Initializer(t) =>
            /\ control # INITIALIZED
            /\ \A u \in Threads : Initializer(u) => u = t
       /\ pc[t] \in {"delete", "returned"} => control = INITIALIZED
       /\ pc[t] = "delete" =>
            /\ value[t] \in sems
            /\ \A u \in Threads : Owner(u) => own[u] # value[t]
            /\ \A u \in Threads : pc[u] = "delete" => u = t
       /\ pc[t] = "wait" =>
            value[t] \in Sems /\ control \in {value[t], INITIALIZED}
       /\ pc[t] = "spin" => control \in {SPINNING, INITIALIZED}
       /\ Owner(t) =>
            /\ own[t] \in sems /\ own[t] # control
            /\ \A u \in Threads : Owner(u) /\ own[u] = own[t] => u = t
       /\ pc[t] = "discard" =>
            /\ value[t] \notin {UNINITIALIZED, INITIALIZING}
            /\ control \in {value[t], INITIALIZED}
=============================================================================
