-------------------------- MODULE InitOnce_proofs --------------------------
(* Proofs about __init_once(), for every number of threads and semaphores. *)
EXTENDS InitOnce, TLAPS

USE DEF UNINITIALIZED, INITIALIZING, SPINNING, INITIALIZED

LEMMA WaitForType ==
  ASSUME NEW v \in Controls
  PROVE  WaitFor(v) \in {"wait", "spin", "returned"}
BY DEF WaitFor

LEMMA NextType == TypeOK /\ [Next]_vars => TypeOK'
<1>. SUFFICES ASSUME TypeOK, [Next]_vars PROVE TypeOK'
  OBVIOUS
<1>. USE DEF TypeOK, Controls, Goto
<1>1. ASSUME NEW t \in Threads, Call(t) PROVE TypeOK'
  BY <1>1, WaitForType DEF Call, Locations
<1>2. ASSUME NEW t \in Threads, Running(t) PROVE TypeOK'
  <2>1. CASE RunInitRoutine(t) \/ DeleteWaited(t)
    BY <2>1 DEF RunInitRoutine, DeleteWaited, Locations
  <2>2. CASE CreateSem(t) \/ CreateSemFails(t)
    BY <2>2 DEF CreateSem, CreateSemFails, Locations
  <2>6. CASE Publish(t)
    <3>1. value' \in [Threads -> Controls]
      BY <2>6 DEF Publish
    <3>2. pc' \in [Threads -> Locations]
      BY <2>6 DEF Publish, Locations
    <3>. QED
      BY <2>6, <3>1, <3>2 DEF Publish
  <2>7. CASE InstallSem(t)
    <3>1. control' \in Controls /\ value' \in [Threads -> Controls]
      BY <2>7 DEF InstallSem
    <3>2. pc' \in [Threads -> Locations]
      BY <2>7 DEF InstallSem, Locations
    <3>. QED
      BY <2>7, <3>1, <3>2 DEF InstallSem
  <2>3. CASE DiscardSem(t)
    BY <2>3, WaitForType DEF DiscardSem, Locations
  <2>4. CASE SetSpinning(t)
    BY <2>4, WaitForType DEF SetSpinning, Locations
  <2>5. CASE WaitEnds(t) \/ SpinEnds(t)
    BY <2>5 DEF WaitEnds, SpinEnds, Locations
  <2>. QED
    BY <1>2, <2>1, <2>2, <2>3, <2>4, <2>5, <2>6, <2>7 DEF Running
<1>3. CASE UNCHANGED vars
  BY <1>3 DEF vars
<1>. QED
  BY <1>1, <1>2, <1>3 DEF Next

(* The control word only holds a state or a semaphore id, and every local  *)
(* of every thread stays in its range.                                     *)
THEOREM TypeCorrect == Spec => []TypeOK
<1>1. Init => TypeOK
  BY DEF Init, TypeOK, Controls, Locations
<1>. QED
  BY <1>1, NextType, PTL DEF Spec

-----------------------------------------------------------------------------
LEMMA OnceNext == TypeOK /\ OnceInv /\ [Next]_vars => OnceInv'
<1>. SUFFICES ASSUME TypeOK, OnceInv, [Next]_vars PROVE OnceInv'
  OBVIOUS
<1>. USE SemsAssumption DEF TypeOK, Controls, Goto, OnceInv, Initializer, Owner
<1>1. ASSUME NEW t \in Threads, Call(t) PROVE OnceInv'
  BY <1>1 DEF Call, WaitFor
<1>2. ASSUME NEW t \in Threads, Running(t) PROVE OnceInv'
  <2>1. CASE RunInitRoutine(t)
    BY <2>1 DEF RunInitRoutine
  <2>2. CASE Publish(t)
    BY <2>2 DEF Publish
  <2>3. CASE DeleteWaited(t)
    BY <2>3 DEF DeleteWaited
  <2>4. CASE CreateSem(t)
    BY <2>4 DEF CreateSem
  <2>5. CASE CreateSemFails(t)
    BY <2>5 DEF CreateSemFails
  <2>6. CASE InstallSem(t)
    BY <2>6 DEF InstallSem
  <2>7. CASE DiscardSem(t)
    BY <2>7 DEF DiscardSem, WaitFor
  <2>8. CASE SetSpinning(t)
    BY <2>8 DEF SetSpinning, WaitFor
  <2>9. CASE WaitEnds(t)
    BY <2>9 DEF WaitEnds
  <2>10. CASE SpinEnds(t)
    BY <2>10 DEF SpinEnds
  <2>. QED
    BY <1>2, <2>1, <2>2, <2>3, <2>4, <2>5, <2>6, <2>7, <2>8, <2>9, <2>10
       DEF Running
<1>3. CASE UNCHANGED vars
  BY <1>3 DEF vars
<1>. QED
  BY <1>1, <1>2, <1>3 DEF Next

LEMMA OnceAlways == Spec => []OnceInv
<1>1. Init => OnceInv
  BY SemsAssumption DEF Init, OnceInv, Initializer, Owner
<1>. QED
  BY <1>1, TypeCorrect, OnceNext, PTL DEF Spec

(* No caller returns before initRoutine() has: not the one that lost the   *)
(* race, not the one that waited on the semaphore, not the one that spun.  *)
THEOREM ReturnsAfterInit == Spec => []NoEarlyReturn
<1>1. OnceInv => NoEarlyReturn
  BY DEF OnceInv, NoEarlyReturn
<1>. QED
  BY <1>1, OnceAlways, PTL

(* initRoutine() runs once, in one thread. *)
THEOREM RunsOnce == Spec => []InitOnlyOnce
<1>1. OnceInv => InitOnlyOnce
  BY DEF OnceInv, InitOnlyOnce, Initializer
<1>. QED
  BY <1>1, OnceAlways, PTL

(* Every semaphore created is deleted: one that is left has a thread that  *)
(* is going to delete it, or the control word still holds it.              *)
THEOREM SemaphoresAreDeleted == Spec => []NoSemLeak
<1>1. Init => NoSemLeak
  BY DEF Init, NoSemLeak
<1>2. TypeOK /\ NoSemLeak /\ [Next]_vars => NoSemLeak'
  <2>. SUFFICES ASSUME TypeOK, NoSemLeak, [Next]_vars PROVE NoSemLeak'
    OBVIOUS
  <2>. USE SemsAssumption DEF TypeOK, NoSemLeak, Goto
  <2>1. ASSUME NEW t \in Threads, Call(t) PROVE NoSemLeak'
    BY <2>1 DEF Call, Controls
  <2>2. ASSUME NEW t \in Threads, Running(t) PROVE NoSemLeak'
    <3>1. CASE RunInitRoutine(t) \/ CreateSemFails(t) \/ WaitEnds(t) \/ SpinEnds(t)
      BY <3>1 DEF RunInitRoutine, CreateSemFails, WaitEnds, SpinEnds
    <3>2. CASE Publish(t)
      BY <3>2 DEF Publish
    <3>3. CASE DeleteWaited(t)
      BY <3>3 DEF DeleteWaited
    <3>4. CASE CreateSem(t)
      BY <3>4 DEF CreateSem
    <3>5. CASE InstallSem(t)
      BY <3>5 DEF InstallSem
    <3>6. CASE DiscardSem(t)
      BY <3>6 DEF DiscardSem
    <3>7. CASE SetSpinning(t)
      BY <3>7 DEF SetSpinning
    <3>. QED
      BY <2>2, <3>1, <3>2, <3>3, <3>4, <3>5, <3>6, <3>7 DEF Running
  <2>3. CASE UNCHANGED vars
    BY <2>3 DEF vars
  <2>. QED
    BY <2>1, <2>2, <2>3 DEF Next
<1>. QED
  BY <1>1, <1>2, TypeCorrect, PTL DEF Spec

-----------------------------------------------------------------------------
(* As long as a semaphore or SPINNING is in the control word, the thread   *)
(* that runs the routine has still to publish.                             *)
Unpublished == control \notin {UNINITIALIZED, INITIALIZED}
StartedInv == Unpublished => \E t \in Threads : Initializer(t)

LEMMA StartedNext == TypeOK /\ OnceInv /\ StartedInv /\ [Next]_vars => StartedInv'
<1>. SUFFICES ASSUME TypeOK, OnceInv, StartedInv, [Next]_vars PROVE StartedInv'
  OBVIOUS
<1>. USE SemsAssumption DEF TypeOK, Controls, Goto, StartedInv, Unpublished, Initializer
<1>1. ASSUME NEW t \in Threads, Call(t) PROVE StartedInv'
  BY <1>1 DEF Call, WaitFor
<1>2. ASSUME NEW t \in Threads, Running(t) PROVE StartedInv'
  <2>1. CASE RunInitRoutine(t)
    BY <2>1 DEF RunInitRoutine
  <2>2. CASE Publish(t)
    BY <2>2 DEF Publish
  <2>3. CASE InstallSem(t)
    BY <2>3 DEF InstallSem
  <2>4. CASE SetSpinning(t)
    BY <2>4 DEF SetSpinning
  <2>5. CASE \/ DeleteWaited(t) \/ CreateSem(t) \/ CreateSemFails(t)
             \/ WaitEnds(t) \/ SpinEnds(t)
    BY <2>5 DEF DeleteWaited, CreateSem, CreateSemFails, WaitEnds, SpinEnds
  <2>6. CASE DiscardSem(t)
    BY <2>6 DEF DiscardSem
  <2>. QED
    BY <1>2, <2>1, <2>2, <2>3, <2>4, <2>5, <2>6 DEF Running
<1>3. CASE UNCHANGED vars
  BY <1>3 DEF vars
<1>. QED
  BY <1>1, <1>2, <1>3 DEF Next

(* Whoever waits or spins is waited on: the routine is still to be         *)
(* published, or the semaphore has a thread that will delete it, be it the *)
(* creator of a later semaphore that got the same id.                      *)
NobodyIsForgotten ==
  \A t \in Threads :
    /\ pc[t] = "wait" /\ value[t] \in sems =>
         \E u \in Threads :
           \/ Initializer(u)
           \/ pc[u] = "delete" /\ value[u] = value[t]
           \/ Owner(u) /\ own[u] = value[t]
    /\ pc[t] = "spin" /\ control = SPINNING => \E u \in Threads : Initializer(u)

(* What CallsReturn rests on, for every number of threads: there is always *)
(* a thread of the function that will end the wait and does not wait.      *)
THEOREM WaitersAreServed == Spec => []NobodyIsForgotten
<1>1. Init => StartedInv
  BY DEF Init, StartedInv, Unpublished
<1>2. StartedInv /\ OnceInv /\ NoSemLeak => NobodyIsForgotten
  <2>. SUFFICES ASSUME StartedInv, OnceInv, NoSemLeak, NEW t \in Threads
               PROVE  /\ pc[t] = "wait" /\ value[t] \in sems =>
                           \E u \in Threads :
                             \/ Initializer(u)
                             \/ pc[u] = "delete" /\ value[u] = value[t]
                             \/ Owner(u) /\ own[u] = value[t]
                      /\ pc[t] = "spin" /\ control = SPINNING =>
                           \E u \in Threads : Initializer(u)
    BY DEF NobodyIsForgotten
  <2>1. ASSUME pc[t] = "wait", control = value[t]
        PROVE  Unpublished
    <3>1. value[t] \in Sems
      BY <2>1 DEF OnceInv
    <3>. QED BY <2>1, <3>1, SemsAssumption DEF Unpublished
  <2>2. ASSUME pc[t] = "wait", value[t] \in sems, control # value[t]
        PROVE  \E u \in Threads :
                 \/ pc[u] = "delete" /\ value[u] = value[t]
                 \/ Owner(u) /\ own[u] = value[t]
    <3>1. PICK u \in Threads :
            \/ pc[u] \in {"install", "discard"} /\ own[u] = value[t]
            \/ pc[u] = "delete" /\ value[u] = value[t]
      BY <2>2 DEF NoSemLeak
    <3>. QED BY <3>1 DEF Owner
  <2>3. control = SPINNING => Unpublished
    BY DEF Unpublished
  <2>. QED BY <2>1, <2>2, <2>3 DEF StartedInv
<1>. QED
  BY <1>1, <1>2, StartedNext, TypeCorrect, OnceAlways, SemaphoresAreDeleted, PTL DEF Spec
=============================================================================
