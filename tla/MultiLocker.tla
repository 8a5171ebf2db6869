---------------------------- MODULE MultiLocker ----------------------------
(***************************************************************************)
(* The reader/writer lock of app_server (servers/app/MultiLocker.cpp): a   *)
(* std::mutex around counters, and a condition variable each for readers   *)
(* and writers.  A call runs from taking the mutex to its return or its    *)
(* wait, so a call is one action, and so is each return from wait().       *)
(*                                                                         *)
(* Threads keep to what MultiLocker.h asks of them: no nested read locks,  *)
(* no reader becomes a writer; a writer may lock again, for reading too,   *)
(* and its outermost lock is the last it gives up.                         *)
(***************************************************************************)
EXTENDS Integers, FiniteSets

CONSTANTS
  Threads,
  NoThread,  \* thread id -1
  MaxNest    \* bound: how often a writer locks again, for reading or writing

ASSUME LockerConstants ==
  /\ IsFiniteSet(Threads)
  /\ NoThread \notin Threads
  /\ MaxNest \in Nat \ {0}

VARIABLES
  fReaderCount, fWriterCount, fWriterThread, fWriterNest,
  wait,    \* Thread -> the condition it waits for, or was woken from
  inside,  \* Thread -> how many read and write locks it was granted
  trapped  \* debugger() was called

vars == <<fReaderCount, fWriterCount, fWriterThread, fWriterNest, wait, inside,
          trapped>>

Outside == [read |-> 0, write |-> 0]
Readers == {t \in Threads : inside[t].read > 0 /\ inside[t].write = 0}
Writing(t) == inside[t].write > 0
At(w) == {t \in Threads : wait[t] = w}

TypeOK ==
  /\ fReaderCount \in Nat
  /\ fWriterCount \in 0 .. 1
  /\ fWriterThread \in Threads \cup {NoThread}
  /\ fWriterNest \in Nat
  /\ wait \in [Threads -> {"none", "read", "write", "readWoken", "writeWoken"}]
  /\ inside \in [Threads -> [read : 0 .. MaxNest, write : 0 .. MaxNest]]
  /\ trapped \in BOOLEAN

Init ==
  /\ fReaderCount = 0 /\ fWriterCount = 0
  /\ fWriterThread = NoThread /\ fWriterNest = 0
  /\ wait = [t \in Threads |-> "none"]
  /\ inside = [t \in Threads |-> Outside]
  /\ trapped = FALSE

Enter(t, kind) == inside' = [inside EXCEPT ![t][kind] = @ + 1]
Leave(t, kind) == inside' = [inside EXCEPT ![t][kind] = @ - 1]
Wait(t, w) == wait' = [wait EXCEPT ![t] = w]

-----------------------------------------------------------------------------
(* IsWriteLocked(), and the test that ReadLock() and ReadUnlock() make. *)
IsWriteLocked(t) == fWriterThread = t /\ fWriterCount > 0

Nest(t, kind) ==
  /\ fWriterNest' = fWriterNest + 1
  /\ Enter(t, kind)
  /\ UNCHANGED <<fReaderCount, fWriterCount, fWriterThread, wait>>

(* The loop of ReadLock(): wait while there is a writer. *)
ReadWaits(t) ==
  /\ fWriterCount > 0 /\ fWriterThread # t
  /\ Wait(t, "read")
  /\ UNCHANGED <<fReaderCount, fWriterCount, fWriterThread, fWriterNest, inside>>

ReadEnters(t) ==
  /\ ~(fWriterCount > 0 /\ fWriterThread # t)
  /\ fReaderCount' = fReaderCount + 1
  /\ Enter(t, "read")
  /\ Wait(t, "none")
  /\ UNCHANGED <<fWriterCount, fWriterThread, fWriterNest>>

ReadLock(t) ==
  /\ wait[t] = "none"
  /\ inside[t].read < IF Writing(t) THEN MaxNest ELSE 1
  /\ IF IsWriteLocked(t) THEN Nest(t, "read") ELSE ReadWaits(t) \/ ReadEnters(t)
  /\ UNCHANGED trapped

(* The loop of WriteLock(): wait while there is anybody. *)
WriteWaits(t) ==
  /\ fReaderCount > 0 \/ fWriterCount > 0
  /\ Wait(t, "write")
  /\ UNCHANGED <<fReaderCount, fWriterCount, fWriterThread, fWriterNest, inside>>

WriteEnters(t) ==
  /\ ~(fReaderCount > 0 \/ fWriterCount > 0)
  /\ fWriterCount' = 1 /\ fWriterThread' = t /\ fWriterNest' = 1
  /\ Enter(t, "write")
  /\ Wait(t, "none")
  /\ UNCHANGED fReaderCount

WriteLock(t) ==
  /\ wait[t] = "none"
  /\ t \notin Readers
  /\ inside[t].write < MaxNest
  /\ IF fWriterThread = t THEN Nest(t, "write") ELSE WriteWaits(t) \/ WriteEnters(t)
  /\ UNCHANGED trapped

-----------------------------------------------------------------------------
(* A wait() returns: notified, or for no reason, as it may. *)
ReadWakes(t) ==
  /\ wait[t] = "readWoken"
  /\ ReadWaits(t) \/ ReadEnters(t)
  /\ UNCHANGED trapped

(* Mutant: an if where the loop is. *)
WriteWakesUnasked(t) ==
  /\ wait[t] = "writeWoken"
  /\ fWriterCount' = fWriterCount + 1 /\ fWriterThread' = t /\ fWriterNest' = 1
  /\ Enter(t, "write")
  /\ Wait(t, "none")
  /\ UNCHANGED <<fReaderCount, trapped>>

WriteWakes(t) ==
  /\ wait[t] = "writeWoken"
  /\ WriteWaits(t) \/ WriteEnters(t)
  /\ UNCHANGED trapped

SpuriousWake(t) ==
  /\ \/ wait[t] = "read" /\ Wait(t, "readWoken")
     \/ wait[t] = "write" /\ Wait(t, "writeWoken")
  /\ UNCHANGED <<fReaderCount, fWriterCount, fWriterThread, fWriterNest, inside,
                 trapped>>

(* notify_one() on fWriteCondition, after waking the readers in woken. *)
NotifyOneWriter(woken) ==
  LET stay == [t \in Threads |-> IF t \in woken THEN "readWoken" ELSE wait[t]]
  IN  IF At("write") = {} THEN wait' = stay
      ELSE \E w \in At("write") : wait' = [stay EXCEPT ![w] = "writeWoken"]

-----------------------------------------------------------------------------
debugger ==
  /\ trapped' = TRUE
  /\ UNCHANGED <<fReaderCount, fWriterCount, fWriterThread, fWriterNest, wait>>

(* Mutant: nobody is told that the last reader is gone. *)
LastReaderLeavesQuietly(t) ==
  /\ wait[t] = "none" /\ inside[t].read > 0
  /\ Leave(t, "read")
  /\ IF IsWriteLocked(t)
       THEN /\ fWriterNest' = fWriterNest - 1
            /\ UNCHANGED <<fReaderCount, wait, trapped>>
       ELSE /\ fReaderCount' = fReaderCount - 1
            /\ UNCHANGED <<fWriterNest, wait, trapped>>
  /\ UNCHANGED <<fWriterCount, fWriterThread>>

ReadUnlock(t) ==
  /\ wait[t] = "none" /\ inside[t].read > 0
  /\ Leave(t, "read")
  /\ IF IsWriteLocked(t)
       THEN /\ fWriterNest' = IF fWriterNest = 0 THEN 0 ELSE fWriterNest - 1
            /\ trapped' = (trapped \/ fWriterNest = 0)
            /\ UNCHANGED <<fReaderCount, fWriterCount, fWriterThread, wait>>
       ELSE IF fReaderCount <= 0
         THEN debugger
         ELSE /\ fReaderCount' = fReaderCount - 1
              /\ IF fReaderCount = 1 THEN NotifyOneWriter({}) ELSE UNCHANGED wait
              /\ UNCHANGED <<fWriterCount, fWriterThread, fWriterNest, trapped>>

(* Mutants: the nesting is not looked at; only one reader is woken. *)
WriteUnlockAtOnce(t) ==
  /\ wait[t] = "none" /\ Writing(t)
  /\ inside[t].write > 1 \/ inside[t].read = 0
  /\ Leave(t, "write")
  /\ IF fWriterThread # t THEN debugger
     ELSE /\ fWriterCount' = 0 /\ fWriterThread' = NoThread /\ fWriterNest' = 0
          /\ NotifyOneWriter(At("read"))
          /\ UNCHANGED <<fReaderCount, trapped>>

WriteUnlockWakesOneReader(t) ==
  /\ wait[t] = "none" /\ Writing(t)
  /\ inside[t].write > 1 \/ inside[t].read = 0
  /\ Leave(t, "write")
  /\ IF fWriterNest > 1
       THEN /\ fWriterNest' = fWriterNest - 1
            /\ UNCHANGED <<fReaderCount, fWriterCount, fWriterThread, wait, trapped>>
       ELSE /\ fWriterCount' = 0 /\ fWriterThread' = NoThread /\ fWriterNest' = 0
            /\ IF At("read") = {} THEN NotifyOneWriter({})
               ELSE \E r \in At("read") : NotifyOneWriter({r})
            /\ UNCHANGED <<fReaderCount, trapped>>

WriteUnlock(t) ==
  /\ wait[t] = "none" /\ Writing(t)
  /\ inside[t].write > 1 \/ inside[t].read = 0
  /\ Leave(t, "write")
  /\ IF fWriterThread # t THEN debugger
     ELSE IF fWriterNest > 1
       THEN /\ fWriterNest' = fWriterNest - 1
            /\ UNCHANGED <<fReaderCount, fWriterCount, fWriterThread, wait, trapped>>
       ELSE /\ fWriterCount' = 0 /\ fWriterThread' = NoThread /\ fWriterNest' = 0
            /\ NotifyOneWriter(At("read"))
            /\ UNCHANGED <<fReaderCount, trapped>>

-----------------------------------------------------------------------------
Wakes(t) == ReadWakes(t) \/ WriteWakes(t)
Unlocks(t) == ReadUnlock(t) \/ WriteUnlock(t)

Next ==
  \E t \in Threads :
    ReadLock(t) \/ WriteLock(t) \/ Wakes(t) \/ SpuriousWake(t) \/ Unlocks(t)

Spec == Init /\ [][Next]_vars

(* A woken thread runs, and what a thread does with the lock comes to an   *)
(* end (AutoReadLocker, AutoWriteLocker).  Nobody has to ask for the lock, *)
(* and std::mutex serves nobody in particular.                             *)
FairSpec ==
  Spec /\ \A t \in Threads : WF_vars(Wakes(t)) /\ WF_vars(Unlocks(t))

-----------------------------------------------------------------------------
(* A thread that was granted the write lock, however deep it nests and     *)
(* whoever woke up in between, is alone.                                   *)
WriterIsAlone ==
  \A t, u \in Threads : t # u /\ Writing(t) => inside[u] = Outside

(* The counters say who is inside, so that no unlock of a thread that was  *)
(* granted the lock ends in debugger(), and none of them is left over.     *)
CountersAreTrue ==
  /\ ~trapped
  /\ fReaderCount = Cardinality(Readers)
  /\ \A t \in Threads :
       /\ Writing(t) <=> IsWriteLocked(t)
       /\ Writing(t) => fWriterNest = inside[t].read + inside[t].write

(* Nobody sleeps on a lock that is free, unless somebody is awake who will *)
(* pass it on: no wake-up gets lost.                                       *)
NoLostWakeUp ==
  /\ At("read") # {} => fWriterCount > 0
  /\ At("write") # {} =>
       fReaderCount > 0 \/ fWriterCount > 0 \/ At("writeWoken") # {}

(* The thread is not granted, and does not start to wait for, a lock.      *)
NoMoreReads(t) == inside'[t].read <= inside[t].read /\ wait'[t] # "read"
NoMoreWrites(t) == inside'[t].write <= inside[t].write /\ wait'[t] # "write"

(* When nobody asks any more, every thread that waits gets the lock.       *)
AllGetIn ==
  <>[][\A t \in Threads :
         wait[t] = "none" => NoMoreReads(t) /\ NoMoreWrites(t)]_vars
    => \A t \in Threads : wait[t] # "none" ~> wait[t] = "none"

(* Readers get it when only writers stop asking, however many other        *)
(* readers come and go.  (They can keep a writer out for ever: ReadLock()  *)
(* does not look for waiting writers.)                                     *)
ReadersGetIn ==
  <>[][\A t \in Threads :
         wait[t] = "none" => NoMoreWrites(t) /\ (Writing(t) => NoMoreReads(t))]_vars
    => \A t \in Threads : wait[t] \in {"read", "readWoken"} ~> wait[t] = "none"

(* Whoever waits gets in, as far as the lock is to promise it. *)
WaitersGetIn == AllGetIn /\ ReadersGetIn
=============================================================================
